--------------------------- MODULE AtLeastOnceProofs ---------------------------
(***************************************************************************)
(* What reaches main at least once takes effect exactly once: the orders   *)
(* of the SQS queue, for any number of messages, consumers, receives and   *)
(* faults, and the floor events a store's agent posts again and again, for *)
(* any number of events, overlapping POSTs and faults.                     *)
(***************************************************************************)
EXTENDS SqsIngest, FloorFlow, FiniteSetTheorems, TLAPS

-----------------------------------------------------------------------------
(* SQS: no order is lost between the queue and the orders table, and none  *)
(* is saved twice.                                                         *)

(* A message that can still be received has a receive left.                *)
VisibleIsReceivable ==
  \A m \in Messages : queue[m] \in {"unsent", "visible"} => received[m] < MaxReceive

(* A consumer deletes only what it has just seen in the orders table.      *)
CurrentWasSaved ==
  \A c \in Consumers : \A m \in current[c] : inserts[Order[m]] > 0

(* The inductive invariant.  DeletedWasSaved alone is not inductive: the   *)
(* deletion happens a step after the save, and what connects the two is    *)
(* the consumer's current message.                                         *)
IngestInv ==
  /\ IngestTypeOK
  /\ VisibleIsReceivable
  /\ CurrentWasSaved
  /\ DeletedWasSaved
  /\ SavedOnce

(* Nothing is sent, received or saved at the start.                        *)
LEMMA IngestInitInv == IngestInit => IngestInv
<1> SUFFICES ASSUME IngestInit PROVE IngestInv OBVIOUS
<1>1. IngestTypeOK
  <2>1. \A c \in Consumers : Cardinality(todo[c]) <= MaxMessages
    BY FS_EmptySet, IngestAssumption DEF IngestInit
  <2> QED BY <2>1, IngestAssumption, FaultsAssumption DEF IngestInit, IngestTypeOK
<1>2. VisibleIsReceivable BY IngestAssumption DEF IngestInit, VisibleIsReceivable
<1>3. CurrentWasSaved BY DEF IngestInit, CurrentWasSaved
<1>4. DeletedWasSaved BY DEF IngestInit, DeletedWasSaved
<1>5. SavedOnce BY DEF IngestInit, SavedOnce
<1> QED BY <1>1, <1>2, <1>3, <1>4, <1>5 DEF IngestInv

(* Going on to the next message keeps the consumer's variables well typed, *)
(* and the message it leaves is not kept as one to delete.                 *)
LEMMA NextMessageInv ==
  ASSUME IngestInv, NEW c \in Consumers, NEW m \in Messages,
         NextMessage(c, todo[c] \ {m})
  PROVE  /\ cpc' \in [Consumers -> {"poll", "process", "delete"}]
         /\ todo' \in [Consumers -> SUBSET Messages]
         /\ \A x \in Consumers : Cardinality(todo'[x]) <= MaxMessages
         /\ current' \in [Consumers -> SUBSET Messages]
         /\ \A x \in Consumers : current'[x] \subseteq current[x]
<1>0. IngestTypeOK BY DEF IngestInv
<1>1. Cardinality(todo[c] \ {m}) <= MaxMessages
  <2>1. todo[c] \in SUBSET Messages BY <1>0 DEF IngestTypeOK
  <2>2. IsFiniteSet(todo[c]) BY <2>1, FS_Subset, IngestAssumption
  <2>3. Cardinality(todo[c] \ {m}) <= Cardinality(todo[c]) BY <2>2, FS_Subset
  <2>4. Cardinality(todo[c]) <= MaxMessages BY <1>0 DEF IngestTypeOK
  <2>5. Cardinality(todo[c]) \in Nat /\ Cardinality(todo[c] \ {m}) \in Nat
    BY <2>2, FS_Subset, FS_CardinalityType
  <2> QED BY <2>3, <2>4, <2>5, IngestAssumption
<1>2. \A x \in Consumers : todo'[x] = IF x = c THEN todo[c] \ {m} ELSE todo[x]
  BY <1>0 DEF NextMessage, IngestTypeOK
<1>3. \A x \in Consumers : Cardinality(todo'[x]) <= MaxMessages
  BY <1>0, <1>1, <1>2 DEF IngestTypeOK
<1>4. todo' \in [Consumers -> SUBSET Messages] BY <1>0 DEF NextMessage, IngestTypeOK
<1>5. cpc' \in [Consumers -> {"poll", "process", "delete"}]
  BY <1>0 DEF NextMessage, IngestTypeOK
<1>6. current' \in [Consumers -> SUBSET Messages] /\ \A x \in Consumers : current'[x] \subseteq current[x]
  BY <1>0 DEF NextMessage, IngestTypeOK
<1> QED BY <1>3, <1>4, <1>5, <1>6

-----------------------------------------------------------------------------
(* The queue's own steps.                                                  *)
LEMMA QueueInv ==
  ASSUME IngestInv, NEW m \in Messages, Send(m) \/ VisibilityTimeout(m)
  PROVE  IngestInv'
<1>0. IngestTypeOK /\ VisibleIsReceivable /\ CurrentWasSaved /\ DeletedWasSaved /\ SavedOnce
  BY DEF IngestInv
<1>1. UNCHANGED <<received, cpc, todo, current, orders, inserts, deletes, faults>>
  BY DEF Send, VisibilityTimeout, consumerVars, tableVars
<1>2. /\ queue' \in [Messages -> {"unsent", "visible", "inflight", "deleted", "dlq"}]
      /\ \A x \in Messages : queue'[x] = "deleted" => queue[x] = "deleted"
      /\ \A x \in Messages : queue'[x] \in {"unsent", "visible"} =>
            queue[x] \in {"unsent", "visible"} \/ received[x] < MaxReceive
  BY <1>0 DEF IngestTypeOK, Send, VisibilityTimeout
<1>3. IngestTypeOK' BY <1>0, <1>1, <1>2 DEF IngestTypeOK
<1>4. VisibleIsReceivable' BY <1>0, <1>1, <1>2 DEF VisibleIsReceivable
<1>5. CurrentWasSaved' BY <1>0, <1>1 DEF CurrentWasSaved
<1>6. DeletedWasSaved' BY <1>0, <1>1, <1>2 DEF DeletedWasSaved
<1>7. SavedOnce' BY <1>0, <1>1 DEF SavedOnce
<1> QED BY <1>3, <1>4, <1>5, <1>6, <1>7 DEF IngestInv

(* A receive takes messages that had a receive left.                       *)
LEMMA ReceiveInv ==
  ASSUME IngestInv, NEW c \in Consumers, Receive(c)
  PROVE  IngestInv'
<1>0. IngestTypeOK /\ VisibleIsReceivable /\ CurrentWasSaved /\ DeletedWasSaved /\ SavedOnce
  BY DEF IngestInv
<1>1. PICK ms \in SUBSET {m \in Messages : queue[m] = "visible"} :
        /\ Receivable(ms)
        /\ queue' = [m \in Messages |-> IF m \in ms THEN "inflight" ELSE queue[m]]
        /\ received' = [m \in Messages |-> IF m \in ms THEN received[m] + 1 ELSE received[m]]
        /\ todo' = [todo EXCEPT ![c] = ms]
  BY DEF Receive
<1>2. cpc' = [cpc EXCEPT ![c] = "process"] BY DEF Receive
<1>3. UNCHANGED <<current, orders, inserts, deletes, faults>> BY DEF Receive, tableVars
<1>4. \A m \in ms : m \in Messages /\ received[m] + 1 \in 0..MaxReceive
  BY <1>0, IngestAssumption DEF IngestTypeOK, VisibleIsReceivable
<1>5. IngestTypeOK'
  <2>1. queue' \in [Messages -> {"unsent", "visible", "inflight", "deleted", "dlq"}]
    BY <1>0, <1>1 DEF IngestTypeOK
  <2>2. received' \in [Messages -> 0..MaxReceive] BY <1>0, <1>1, <1>4 DEF IngestTypeOK
  <2>3. todo' \in [Consumers -> SUBSET Messages] BY <1>0, <1>1 DEF IngestTypeOK
  <2>4. \A x \in Consumers : todo'[x] = IF x = c THEN ms ELSE todo[x]
    BY <1>0, <1>1 DEF IngestTypeOK
  <2>5. Cardinality(ms) <= MaxMessages BY <1>1 DEF Receivable
  <2>6. \A x \in Consumers : Cardinality(todo'[x]) <= MaxMessages
    BY <1>0, <2>4, <2>5 DEF IngestTypeOK
  <2>7. cpc' \in [Consumers -> {"poll", "process", "delete"}] BY <1>0, <1>2 DEF IngestTypeOK
  <2> QED BY <1>0, <1>3, <2>1, <2>2, <2>3, <2>6, <2>7 DEF IngestTypeOK
<1>6. VisibleIsReceivable' BY <1>0, <1>1 DEF VisibleIsReceivable, IngestTypeOK
<1>7. CurrentWasSaved' BY <1>0, <1>3 DEF CurrentWasSaved
<1>8. DeletedWasSaved' BY <1>0, <1>1, <1>3 DEF DeletedWasSaved, IngestTypeOK
<1>9. SavedOnce' BY <1>0, <1>3 DEF SavedOnce
<1> QED BY <1>5, <1>6, <1>7, <1>8, <1>9 DEF IngestInv

-----------------------------------------------------------------------------
(* A message left for redrive is not deleted.                              *)
LEMMA LeaveForRedriveInv ==
  ASSUME IngestInv, NEW c \in Consumers, NEW m \in Messages, LeaveForRedrive(c, m)
  PROVE  IngestInv'
<1>0. IngestTypeOK /\ VisibleIsReceivable /\ CurrentWasSaved /\ DeletedWasSaved /\ SavedOnce
  BY DEF IngestInv
<1>1. UNCHANGED <<queue, received, orders, inserts, deletes>>
  BY DEF LeaveForRedrive, queueVars, tableVars
<1>2. NextMessage(c, todo[c] \ {m}) BY DEF LeaveForRedrive
<1>3. /\ cpc' \in [Consumers -> {"poll", "process", "delete"}]
      /\ todo' \in [Consumers -> SUBSET Messages]
      /\ \A x \in Consumers : Cardinality(todo'[x]) <= MaxMessages
      /\ current' \in [Consumers -> SUBSET Messages]
      /\ \A x \in Consumers : current'[x] \subseteq current[x]
  BY <1>2, NextMessageInv
<1>4. faults' \in 0..MaxFaults
  BY <1>0, IngestAssumption, FaultsAssumption DEF IngestTypeOK, LeaveForRedrive, Fault, NoFault
<1>5. IngestTypeOK' BY <1>0, <1>1, <1>3, <1>4 DEF IngestTypeOK
<1>6. VisibleIsReceivable' BY <1>0, <1>1 DEF VisibleIsReceivable
<1>7. CurrentWasSaved' BY <1>0, <1>1, <1>3 DEF CurrentWasSaved
<1>8. DeletedWasSaved' BY <1>0, <1>1 DEF DeletedWasSaved
<1>9. SavedOnce' BY <1>0, <1>1 DEF SavedOnce
<1> QED BY <1>5, <1>6, <1>7, <1>8, <1>9 DEF IngestInv

(* A save adds at most the one row its unique key allows, and the consumer *)
(* goes on to delete a message whose row it made or found.                 *)
LEMMA CreateInv ==
  ASSUME IngestInv, NEW c \in Consumers, NEW m \in Messages, Create(c, m)
  PROVE  IngestInv'
<1> DEFINE k == Order[m]
<1>0. IngestTypeOK /\ VisibleIsReceivable /\ CurrentWasSaved /\ DeletedWasSaved /\ SavedOnce
  BY DEF IngestInv
<1>1. UNCHANGED <<queue, received, todo, deletes, faults>> BY DEF Create, queueVars
<1>2. /\ orders' = orders \cup {k}
      /\ inserts' = IF k \in orders THEN inserts ELSE [inserts EXCEPT ![k] = @ + 1]
      /\ current' = [current EXCEPT ![c] = {m}]
      /\ cpc' = [cpc EXCEPT ![c] = "delete"]
  BY DEF Create, Duplicate
<1>3. k \in OrderKeys BY DEF OrderKeys
<1> HIDE DEF k
<1>4. /\ inserts' \in [OrderKeys -> Nat]
      /\ \A j \in OrderKeys : inserts'[j] = IF j = k /\ k \notin orders THEN inserts[j] + 1 ELSE inserts[j]
  BY <1>0, <1>2, <1>3 DEF IngestTypeOK
<1>5. \A x \in Messages : Order[x] \in OrderKeys BY DEF OrderKeys
<1>6. \A j \in OrderKeys : inserts[j] \in Nat /\ deletes[j] \in Nat /\ inserts'[j] >= inserts[j]
  BY <1>0, <1>4 DEF IngestTypeOK
<1>7. inserts'[k] > 0
  BY <1>0, <1>3, <1>4, <1>6 DEF SavedOnce
<1>8. IngestTypeOK' BY <1>0, <1>1, <1>2, <1>3, <1>4 DEF IngestTypeOK
<1>9. VisibleIsReceivable' BY <1>0, <1>1 DEF VisibleIsReceivable
<1>10. CurrentWasSaved'
  <2> SUFFICES ASSUME NEW d \in Consumers, NEW x \in current'[d]
               PROVE  inserts'[Order[x]] > 0
    BY DEF CurrentWasSaved
  <2>1. x \in Messages BY <1>8 DEF IngestTypeOK
  <2>2. CASE x \in current[d]
    <3>1. inserts[Order[x]] > 0 BY <1>0, <2>2 DEF CurrentWasSaved
    <3> QED BY <1>4, <1>5, <1>6, <2>1, <3>1
  <2>3. CASE x \notin current[d]
    <3>1. x = m BY <1>0, <1>2, <2>3 DEF IngestTypeOK
    <3> QED BY <1>7, <3>1 DEF k
  <2> QED BY <2>2, <2>3
<1>11. DeletedWasSaved'
  BY <1>0, <1>1, <1>4, <1>5, <1>6 DEF DeletedWasSaved
<1>12. SavedOnce'
  BY <1>0, <1>1, <1>2, <1>4, <1>6 DEF SavedOnce, IngestTypeOK
<1> QED BY <1>8, <1>9, <1>10, <1>11, <1>12 DEF IngestInv

(* The commit whose confirmation is lost: a row, and nothing deleted.      *)
LEMMA CreateUnconfirmedInv ==
  ASSUME IngestInv, NEW c \in Consumers, NEW m \in Messages, CreateUnconfirmed(c, m)
  PROVE  IngestInv'
<1> DEFINE k == Order[m]
<1>0. IngestTypeOK /\ VisibleIsReceivable /\ CurrentWasSaved /\ DeletedWasSaved /\ SavedOnce
  BY DEF IngestInv
<1>1. UNCHANGED <<queue, received, deletes>> BY DEF CreateUnconfirmed, queueVars
<1>2. /\ k \notin orders
      /\ orders' = orders \cup {k}
      /\ inserts' = [inserts EXCEPT ![k] = @ + 1]
  BY DEF CreateUnconfirmed, Duplicate
<1>3. k \in OrderKeys BY DEF OrderKeys
<1> HIDE DEF k
<1>4. /\ inserts' \in [OrderKeys -> Nat]
      /\ \A j \in OrderKeys : inserts'[j] = IF j = k THEN inserts[j] + 1 ELSE inserts[j]
  BY <1>0, <1>2, <1>3 DEF IngestTypeOK
<1>5. \A x \in Messages : Order[x] \in OrderKeys BY DEF OrderKeys
<1>6. \A j \in OrderKeys : inserts[j] \in Nat /\ deletes[j] \in Nat /\ inserts'[j] >= inserts[j]
  BY <1>0, <1>4 DEF IngestTypeOK
<1>7. NextMessage(c, todo[c] \ {m}) BY DEF CreateUnconfirmed
<1>8. /\ cpc' \in [Consumers -> {"poll", "process", "delete"}]
      /\ todo' \in [Consumers -> SUBSET Messages]
      /\ \A x \in Consumers : Cardinality(todo'[x]) <= MaxMessages
      /\ current' \in [Consumers -> SUBSET Messages]
      /\ \A x \in Consumers : current'[x] \subseteq current[x]
  BY <1>7, NextMessageInv
<1>9. faults' \in 0..MaxFaults
  BY <1>0, FaultsAssumption DEF IngestTypeOK, CreateUnconfirmed, Fault
<1>10. IngestTypeOK' BY <1>0, <1>1, <1>2, <1>3, <1>4, <1>8, <1>9 DEF IngestTypeOK
<1>11. VisibleIsReceivable' BY <1>0, <1>1 DEF VisibleIsReceivable
<1>12. CurrentWasSaved'
  BY <1>0, <1>4, <1>5, <1>6, <1>8 DEF CurrentWasSaved, IngestTypeOK
<1>13. DeletedWasSaved' BY <1>0, <1>1, <1>4, <1>5, <1>6 DEF DeletedWasSaved
<1>14. SavedOnce'
  BY <1>0, <1>1, <1>2, <1>4, <1>6 DEF SavedOnce, IngestTypeOK
<1> QED BY <1>10, <1>11, <1>12, <1>13, <1>14 DEF IngestInv

(* A message is deleted by the consumer that saw its order saved.          *)
LEMMA DeleteMessageInv ==
  ASSUME IngestInv, NEW c \in Consumers, NEW m \in Messages, DeleteMessage(c, m)
  PROVE  IngestInv'
<1>0. IngestTypeOK /\ VisibleIsReceivable /\ CurrentWasSaved /\ DeletedWasSaved /\ SavedOnce
  BY DEF IngestInv
<1>1. UNCHANGED <<received, orders, inserts, deletes>> BY DEF DeleteMessage, tableVars
<1>2. m \in current[c] BY DEF DeleteMessage
<1>3. /\ queue' \in [Messages -> {"unsent", "visible", "inflight", "deleted", "dlq"}]
      /\ \A x \in Messages : queue'[x] = queue[x] \/ (x = m /\ queue'[x] = "deleted")
  BY <1>0 DEF IngestTypeOK, DeleteMessage
<1>4. NextMessage(c, todo[c] \ {m}) BY DEF DeleteMessage
<1>5. /\ cpc' \in [Consumers -> {"poll", "process", "delete"}]
      /\ todo' \in [Consumers -> SUBSET Messages]
      /\ \A x \in Consumers : Cardinality(todo'[x]) <= MaxMessages
      /\ current' \in [Consumers -> SUBSET Messages]
      /\ \A x \in Consumers : current'[x] \subseteq current[x]
  BY <1>4, NextMessageInv
<1>6. faults' \in 0..MaxFaults
  BY <1>0, IngestAssumption, FaultsAssumption DEF IngestTypeOK, DeleteMessage, Fault, NoFault
<1>7. IngestTypeOK' BY <1>0, <1>1, <1>3, <1>5, <1>6 DEF IngestTypeOK
<1>8. VisibleIsReceivable' BY <1>0, <1>1, <1>3 DEF VisibleIsReceivable
<1>9. CurrentWasSaved' BY <1>0, <1>1, <1>5 DEF CurrentWasSaved
<1>10. inserts[Order[m]] > 0 BY <1>0, <1>2 DEF CurrentWasSaved
<1>11. DeletedWasSaved' BY <1>0, <1>1, <1>3, <1>10 DEF DeletedWasSaved
<1>12. SavedOnce' BY <1>0, <1>1 DEF SavedOnce
<1> QED BY <1>7, <1>8, <1>9, <1>11, <1>12 DEF IngestInv

(* An admin's deletion is counted, and only it makes room for another row. *)
LEMMA DeleteOrderInv ==
  ASSUME IngestInv, NEW k \in OrderKeys, DeleteOrder(k)
  PROVE  IngestInv'
<1>0. IngestTypeOK /\ VisibleIsReceivable /\ CurrentWasSaved /\ DeletedWasSaved /\ SavedOnce
  BY DEF IngestInv
<1>1. UNCHANGED <<queue, received, cpc, todo, current, inserts>>
  BY DEF DeleteOrder, queueVars, consumerVars
<1>2. k \in orders /\ orders' = orders \ {k} /\ deletes' = [deletes EXCEPT ![k] = @ + 1]
  BY DEF DeleteOrder
<1>3. faults' \in 0..MaxFaults BY <1>0, FaultsAssumption DEF IngestTypeOK, DeleteOrder, Fault
<1>4. IngestTypeOK' BY <1>0, <1>1, <1>2, <1>3 DEF IngestTypeOK
<1>5. VisibleIsReceivable' BY <1>0, <1>1 DEF VisibleIsReceivable
<1>6. CurrentWasSaved' BY <1>0, <1>1 DEF CurrentWasSaved
<1>7. DeletedWasSaved' BY <1>0, <1>1 DEF DeletedWasSaved
<1>8. SavedOnce' BY <1>0, <1>1, <1>2 DEF SavedOnce, IngestTypeOK
<1> QED BY <1>4, <1>5, <1>6, <1>7, <1>8 DEF IngestInv

(* A restart forgets what was received; the queue still has it.            *)
LEMMA ConsumerRestartsInv ==
  ASSUME IngestInv, NEW c \in Consumers, ConsumerRestarts(c)
  PROVE  IngestInv'
<1>0. IngestTypeOK /\ VisibleIsReceivable /\ CurrentWasSaved /\ DeletedWasSaved /\ SavedOnce
  BY DEF IngestInv
<1>1. UNCHANGED <<queue, received, orders, inserts, deletes>>
  BY DEF ConsumerRestarts, queueVars, tableVars
<1>2. /\ cpc' = [cpc EXCEPT ![c] = "poll"]
      /\ todo' = [todo EXCEPT ![c] = {}]
      /\ current' = [current EXCEPT ![c] = {}]
  BY DEF ConsumerRestarts
<1>3. faults' \in 0..MaxFaults BY <1>0, FaultsAssumption DEF IngestTypeOK, ConsumerRestarts, Fault
<1>4. \A x \in Consumers : Cardinality(todo'[x]) <= MaxMessages
  BY <1>0, <1>2, FS_EmptySet, IngestAssumption DEF IngestTypeOK
<1>5. IngestTypeOK' BY <1>0, <1>1, <1>2, <1>3, <1>4 DEF IngestTypeOK
<1>6. VisibleIsReceivable' BY <1>0, <1>1 DEF VisibleIsReceivable
<1>7. CurrentWasSaved' BY <1>0, <1>1, <1>2 DEF CurrentWasSaved, IngestTypeOK
<1>8. DeletedWasSaved' BY <1>0, <1>1 DEF DeletedWasSaved
<1>9. SavedOnce' BY <1>0, <1>1 DEF SavedOnce
<1> QED BY <1>5, <1>6, <1>7, <1>8, <1>9 DEF IngestInv

-----------------------------------------------------------------------------
(* Every step of the queue, the consumers and the admin keeps it.          *)
LEMMA IngestNextInv == IngestInv /\ [IngestNext]_ingestVars => IngestInv'
<1> SUFFICES ASSUME IngestInv, [IngestNext]_ingestVars PROVE IngestInv' OBVIOUS
<1>1. CASE UNCHANGED ingestVars
  BY <1>1 DEF IngestInv, IngestTypeOK, VisibleIsReceivable, CurrentWasSaved, DeletedWasSaved,
              SavedOnce, ingestVars, queueVars, consumerVars, tableVars
<1>2. CASE \E m \in Messages : Send(m) \/ VisibilityTimeout(m)
  BY <1>2, QueueInv
<1>3. ASSUME NEW c \in Consumers, Receive(c) PROVE IngestInv' BY <1>3, ReceiveInv
<1>4. ASSUME NEW c \in Consumers, ReceiveNothing(c) PROVE IngestInv'
  BY <1>1, <1>4 DEF ReceiveNothing
<1>5. ASSUME NEW c \in Consumers, ProcessStep(c) PROVE IngestInv'
  BY <1>5, LeaveForRedriveInv, CreateInv, CreateUnconfirmedInv, DeleteMessageInv DEF ProcessStep
<1>6. ASSUME NEW c \in Consumers, ConsumerRestarts(c) PROVE IngestInv'
  BY <1>6, ConsumerRestartsInv
<1>7. CASE \E k \in OrderKeys : DeleteOrder(k) BY <1>7, DeleteOrderInv
<1> QED BY <1>1, <1>2, <1>3, <1>4, <1>5, <1>6, <1>7 DEF IngestNext

(* IngestInv holds in every behaviour.                                     *)
LEMMA IngestInvariant == IngestSpec => []IngestInv
<1>1. IngestInit => IngestInv BY IngestInitInv
<1>2. IngestInv /\ [IngestNext]_ingestVars => IngestInv' BY IngestNextInv
<1> QED BY <1>1, <1>2, PTL DEF IngestSpec

(* consumer.go processMessage deletes a message only after its order is in *)
(* the orders table: whatever fails, crashes or overlaps, no order is lost *)
(* between the queue and the table.                                        *)
THEOREM NoOrderIsLost == IngestSpec => []DeletedWasSaved
<1>1. IngestInv => DeletedWasSaved BY DEF IngestInv
<1> QED BY IngestInvariant, <1>1, PTL

(* order_repo.go Create inserts under a unique key: however often and to   *)
(* however many consumers a message is delivered, its order has one row.   *)
THEOREM NoOrderIsSavedTwice == IngestSpec => []SavedOnce
<1>1. IngestInv => SavedOnce BY DEF IngestInv
<1> QED BY IngestInvariant, <1>1, PTL
-----------------------------------------------------------------------------
(* Floor events: main's mirror of the order.                               *)

(* What the agent had after its first n events, and when it had it.        *)
LogView(n) == IF n = 0 THEN NewView ELSE log[n].view
LogRoster(n) == IF n = 0 THEN None ELSE log[n].roster
LogTime(n) == IF n = 0 THEN 0 ELSE log[n].at

(* The event e takes the agent from the view v to e.view.                  *)
MovesOn(v, e) ==
  /\ v.status # "cancelled"
  /\ e.view.status \notin {"received", "cancelled"}
  /\ floorRank[FloorStatus(e.view.status)] >= floorRank[FloorStatus(v.status)]
  /\ e.view.driver = IF e.driver = None THEN v.driver ELSE e.driver
  /\ e.view.eta = IF e.eta = None THEN v.eta ELSE e.eta

IsCancelled(v, e) ==
  /\ v.status \in {"received", "scheduled"}
  /\ e.view = [v EXCEPT !.status = "cancelled"]

Returns(v, e) ==
  /\ \/ v.status \in {"on_delivery", "delivered"}
     \/ v.status = "ready" /\ (e.action = "cancel" \/ v.driver # None)
  /\ e.view = [v EXCEPT !.status = IF e.action = "retry" THEN "ready" ELSE "cancelled",
                        !.driver = None]

Follows(v, e) ==
  /\ e.kind = "order.status" => MovesOn(v, e) \/ IsCancelled(v, e)
  /\ e.kind = "order.not_delivered" => Returns(v, e)
  /\ ~IsOrderEvent(e) => e.view = v

(* The log tells the agent's history: every event follows from the one     *)
(* before it, and the last one left the agent as it is.                    *)
LogIsTheAgents ==
  /\ \A i \in 1..Len(log) :
       /\ Follows(LogView(i - 1), log[i])
       /\ log[i].kind # "drivers.roster" => log[i].roster = LogRoster(i - 1)
       /\ LogTime(i - 1) <= log[i].at
  /\ agent = LogView(Len(log))
  /\ aroster = LogRoster(Len(log))

(* A POST being served is a range of the log, and main is within it; only  *)
(* an order event has an agent status to keep.                             *)
PostIsARange(q) ==
  q.stage # "idle" =>
    /\ 1 <= q.first /\ q.first <= q.next /\ q.next <= q.last
    /\ q.stage = "keep" => IsOrderEvent(log[q.next])

PostsAreRanges == \A p \in Posts : PostIsARange(post[p])

(* The events of a POST that main is done with.                            *)
Served(q) == q.first..(IF q.stage = "reply" THEN q.last ELSE q.next - 1)

(* What is answered, or about to be, is in floor_events_seen.              *)
ServedIsSeen ==
  /\ answered \subseteq seen
  /\ \A p \in Posts : /\ post[p].stage # "idle" => Served(post[p]) \subseteq seen
                      /\ post[p].stage = "keep" => post[p].next \in seen

HistoryIsSeen == \A k \in DOMAIN hist : hist[k] \in seen

(* An agent that starts from its oldest unanswered event leaves no gap in  *)
(* floor_events_seen.                                                      *)
SeenIsAPrefix ==
  Ordered =>
    /\ \A p \in Posts : 1..post[p].first - 1 \subseteq answered
    /\ \A i \in seen : 1..i - 1 \subseteq seen

AppliedOnce == Ordered => AppliedInOrder

(* main has the order as the agent had it after the events main has seen.  *)
Mirrors(o, v, t) ==
  /\ o.status = FloorStatus(v.status)
  /\ o.driver = v.driver
  /\ o.eta = v.eta
  /\ o.floorAt <= t

OrderIsMirrored ==
  Ordered =>
    \A n \in 0..Len(log) :
      seen = 1..n => /\ roster = LogRoster(n)
                     /\ order.status # "deleted" => Mirrors(order, LogView(n), LogTime(n))

(* The kept agent status is as new as every event main is done with.       *)
StatusIsNewest ==
  order.status # "deleted" =>
    \A i \in 1..Len(log) :
      IsOrderEvent(log[i]) /\ (i \in answered \/ \E p \in Posts : post[p].stage # "idle" /\ i \in Served(post[p]))
        => log[i].at <= status.at

(* The inductive invariant.  FloorConverges speaks of the moments when all *)
(* is answered; what makes it true then is that main mirrors, after every  *)
(* event it has seen, the view the agent had after that event, which needs *)
(* the events seen to be a prefix of the log.                              *)
FloorInv ==
  /\ FloorTypeOK
  /\ LogIsTheAgents
  /\ PostsAreRanges
  /\ ServedIsSeen
  /\ HistoryIsSeen
  /\ SeenIsAPrefix
  /\ AppliedOnce
  /\ OrderIsMirrored
  /\ StatusIsNewest

(* Two states of the same rank are the same state.                         *)
LEMMA RankIsInjective ==
  ASSUME NEW a \in AgentStates \ {"cancelled"}, NEW b \in AgentStates \ {"cancelled"}
  PROVE  /\ floorRank[FloorStatus(a)] \in Nat
         /\ floorRank[FloorStatus(a)] = floorRank[FloorStatus(b)] => FloorStatus(a) = FloorStatus(b)
BY DEF AgentStates, FloorStatus, floorRank

(* An agent's state in main's words is never "deleted", and is "cancelled" *)
(* only for "cancelled".                                                   *)
LEMMA FloorStatusType ==
  ASSUME NEW s \in AgentStates
  PROVE  /\ FloorStatus(s) \in MainStates
         /\ FloorStatus(s) # "deleted"
         /\ FloorStatus(s) = "cancelled" <=> s = "cancelled"
BY DEF AgentStates, FloorStatus, MainStates

(* A write of two columns of the orders row.                               *)
LEMMA WriteFields ==
  ASSUME NEW os, NEW od, NEW oe, NEW of, NEW d, NEW e, NEW o,
         o = [status |-> os, driver |-> od, eta |-> oe, floorAt |-> of]
  PROVE  [o EXCEPT !.driver = d, !.eta = e] = [status |-> os, driver |-> d, eta |-> e, floorAt |-> of]
<1>1. PICK o1 : o1 = [o EXCEPT !.driver = d] OBVIOUS
<1>2. o1 = [status |-> os, driver |-> d, eta |-> oe, floorAt |-> of] BY <1>1
<1>3. PICK o2 : o2 = [o1 EXCEPT !.eta = e] OBVIOUS
<1>4. o2 = [status |-> os, driver |-> d, eta |-> e, floorAt |-> of] BY <1>2, <1>3
<1>5. [o EXCEPT !.driver = d, !.eta = e] = o2 BY <1>1, <1>3
<1> QED BY <1>4, <1>5

(* Order.ApplyFloorUpdate, field by field.                                 *)
LEMMA FloorUpdateFields ==
  ASSUME NEW o \in OrderRow, o.status # "deleted", NEW u \in Event
  PROVE  LET new == ApplyFloorUpdate(o, u)
             s == FloorStatus(u.view.status)
             late == u.view.status = "cancelled" \/ o.status = "cancelled" \/ u.at < o.floorAt
         IN  /\ new \in OrderRow
             /\ new.status = IF u.view.status = "cancelled"
                             THEN IF o.status \in {"received", "scheduled"} THEN "cancelled" ELSE o.status
                             ELSE IF o.status = "cancelled" THEN o.status
                             ELSE IF floorRank[s] > floorRank[o.status] THEN s ELSE o.status
             /\ new.driver = IF late \/ u.driver = None THEN o.driver ELSE u.driver
             /\ new.eta = IF late \/ u.eta = None THEN o.eta ELSE u.eta
             /\ new.floorAt \in {o.floorAt, u.at}
             /\ late => new.floorAt = o.floorAt
<1> DEFINE s == FloorStatus(u.view.status)
           fwd == Forward(o, u)
           new == MirrorFields(fwd, u)
<1>0. s \in MainStates /\ u.view.status \in AgentStates BY FloorStatusType DEF Event, View
<1>1. PICK os, od, oe, of : o = [status |-> os, driver |-> od, eta |-> oe, floorAt |-> of]
  BY DEF OrderRow
<1>2. /\ os \in MainStates /\ od \in Drivers \cup {None} /\ oe \in Etas \cup {None} /\ of \in Nat
      /\ o.status = os /\ o.driver = od /\ o.eta = oe /\ o.floorAt = of
  BY <1>1 DEF OrderRow
<1>3. /\ u.driver \in Drivers \cup {None} /\ u.eta \in Etas \cup {None} /\ u.at \in Nat
  BY DEF Event
<1>4. fwd = [status |-> IF floorRank[s] > floorRank[os] THEN s ELSE os, driver |-> od, eta |-> oe, floorAt |-> of]
  BY <1>1 DEF Forward
<1>5. new = [status |-> IF floorRank[s] > floorRank[os] THEN s ELSE os,
             driver |-> IF u.driver = None THEN od ELSE u.driver,
             eta |-> IF u.eta = None THEN oe ELSE u.eta, floorAt |-> of]
  <2>1. /\ fwd.driver = od /\ fwd.eta = oe BY <1>4
  <2>2. new = [fwd EXCEPT !.driver = IF u.driver = None THEN od ELSE u.driver,
                          !.eta = IF u.eta = None THEN oe ELSE u.eta]
    BY <2>1 DEF MirrorFields
  <2> HIDE DEF fwd
  <2> QED BY <1>4, <2>2, WriteFields
<1>6. [new EXCEPT !.floorAt = u.at] =
        [status |-> IF floorRank[s] > floorRank[os] THEN s ELSE os,
         driver |-> IF u.driver = None THEN od ELSE u.driver,
         eta |-> IF u.eta = None THEN oe ELSE u.eta, floorAt |-> u.at]
  BY <1>5
<1>7. "cancelled" \in MainStates BY DEF MainStates, AgentStates, FloorStatus
<1>8. CASE u.view.status = "cancelled"
  <2>1. Cancel(o, u) = [status |-> IF os \in {"received", "scheduled"} THEN "cancelled" ELSE os,
                        driver |-> od, eta |-> oe, floorAt |-> of]
    BY <1>1 DEF Cancel
  <2> QED BY <1>8, <2>1, <1>2, <1>7 DEF ApplyFloorUpdate, OrderRow
<1>9. CASE u.view.status # "cancelled" /\ o.status = "cancelled"
  <2>1. ApplyFloorUpdate(o, u) = o BY <1>9 DEF ApplyFloorUpdate
  <2> QED BY <1>9, <2>1, <1>1, <1>2
<1>10. CASE u.view.status # "cancelled" /\ o.status # "cancelled" /\ (u.at < o.floorAt \/ new = o)
  <2>1. ApplyFloorUpdate(o, u) = fwd BY <1>10 DEF ApplyFloorUpdate
  <2>2. fwd \in OrderRow BY <1>0, <1>2, <1>4 DEF OrderRow
  <2>3. new = o => /\ (IF u.driver = None THEN od ELSE u.driver) = od
                   /\ (IF u.eta = None THEN oe ELSE u.eta) = oe
    BY <1>1, <1>5
  <2> HIDE DEF fwd, new
  <2> QED BY <1>10, <2>1, <2>2, <2>3, <1>2, <1>3, <1>4
<1>11. CASE u.view.status # "cancelled" /\ o.status # "cancelled" /\ ~(u.at < o.floorAt \/ new = o)
  <2>1. ApplyFloorUpdate(o, u) = [new EXCEPT !.floorAt = u.at] BY <1>11 DEF ApplyFloorUpdate
  <2> HIDE DEF fwd, new
  <2> QED BY <1>0, <1>11, <2>1, <1>2, <1>3, <1>6 DEF OrderRow
<1> QED BY <1>8, <1>9, <1>10, <1>11

(* Order.ApplyNotDelivered, field by field.                                *)
LEMMA NotDeliveredFields ==
  ASSUME NEW o \in OrderRow, o.status # "deleted", NEW u \in Event
  PROVE  LET new == ApplyNotDelivered(o, u)
         IN  /\ new \in OrderRow
             /\ ~CameBack(o, u) => new = o
             /\ CameBack(o, u) =>
                  /\ new.status = IF u.action = "retry" THEN "ready" ELSE "cancelled"
                  /\ new.driver = None
                  /\ new.eta = o.eta
                  /\ new.floorAt = u.at
<1>1. PICK os, od, oe, of : o = [status |-> os, driver |-> od, eta |-> oe, floorAt |-> of]
  BY DEF OrderRow
<1>2. oe \in Etas \cup {None} /\ o.eta = oe BY <1>1 DEF OrderRow
<1>3. u.at \in Nat BY DEF Event
<1>4. "cancelled" \in MainStates /\ "ready" \in MainStates
  BY DEF MainStates, AgentStates, FloorStatus
<1>5. PICK ns : ns = IF u.action = "retry" THEN "ready" ELSE "cancelled" OBVIOUS
<1>6. [o EXCEPT !.status = ns, !.driver = None, !.floorAt = u.at]
        = [status |-> ns, driver |-> None, eta |-> oe, floorAt |-> u.at]
  <2>1. PICK o1 : o1 = [o EXCEPT !.status = ns] OBVIOUS
  <2>2. o1 = [status |-> ns, driver |-> od, eta |-> oe, floorAt |-> of] BY <1>1, <2>1
  <2>3. PICK o2 : o2 = [o1 EXCEPT !.driver = None] OBVIOUS
  <2>4. o2 = [status |-> ns, driver |-> None, eta |-> oe, floorAt |-> of] BY <2>2, <2>3
  <2>5. PICK o3 : o3 = [o2 EXCEPT !.floorAt = u.at] OBVIOUS
  <2>6. o3 = [status |-> ns, driver |-> None, eta |-> oe, floorAt |-> u.at] BY <2>4, <2>5
  <2>7. [o EXCEPT !.status = ns, !.driver = None, !.floorAt = u.at] = o3
    BY <2>1, <2>3, <2>5, Zenon
  <2> QED BY <2>6, <2>7
<1>7. CASE ~CameBack(o, u) BY <1>7 DEF ApplyNotDelivered
<1>8. CASE CameBack(o, u)
  <2>1. ApplyNotDelivered(o, u) = [status |-> ns, driver |-> None, eta |-> oe, floorAt |-> u.at]
    BY <1>5, <1>6, <1>8, Zenon DEF ApplyNotDelivered
  <2> QED BY <1>2, <1>3, <1>4, <1>5, <1>8, <2>1 DEF OrderRow
<1> QED BY <1>7, <1>8

(* An event that follows from the view main mirrors leaves main mirroring  *)
(* the view it leaves the agent in.                                        *)
LEMMA ApplyMirrors ==
  ASSUME NEW o \in OrderRow, NEW v \in View, NEW u \in Event, NEW t \in Nat,
         Mirrors(o, v, t), t <= u.at, IsOrderEvent(u), Follows(v, u)
  PROVE  Mirrors(IF u.kind = "order.status" THEN ApplyFloorUpdate(o, u) ELSE ApplyNotDelivered(o, u),
                 u.view, u.at)
<1>1. /\ o.status # "deleted" /\ v.status \in AgentStates /\ u.view.status \in AgentStates
      /\ o.status = FloorStatus(v.status) /\ o.driver = v.driver /\ o.eta = v.eta
      /\ o.floorAt <= u.at /\ o.floorAt \in Nat /\ u.at \in Nat /\ u.view \in View
  BY FloorStatusType DEF Mirrors, OrderRow, View, Event
<1>2. PICK vs, vd, ve : v = [status |-> vs, driver |-> vd, eta |-> ve] BY DEF View
<1>3. CASE u.kind = "order.status" /\ MovesOn(v, u)
  <2>1. v.status # "cancelled" /\ u.view.status # "cancelled" BY <1>3 DEF MovesOn
  <2>2. o.status # "cancelled" BY <1>1, <2>1, FloorStatusType
  <2>3. /\ floorRank[FloorStatus(u.view.status)] \in Nat /\ floorRank[FloorStatus(v.status)] \in Nat
        /\ floorRank[FloorStatus(u.view.status)] = floorRank[FloorStatus(v.status)]
             => FloorStatus(u.view.status) = FloorStatus(v.status)
    BY <1>1, <2>1, RankIsInjective
  <2>4. floorRank[FloorStatus(u.view.status)] >= floorRank[FloorStatus(v.status)]
    BY <1>3 DEF MovesOn
  <2>5. ApplyFloorUpdate(o, u).status = FloorStatus(u.view.status)
    BY <1>1, <2>1, <2>2, <2>3, <2>4, FloorUpdateFields
  <2>6. /\ ApplyFloorUpdate(o, u).driver = u.view.driver
        /\ ApplyFloorUpdate(o, u).eta = u.view.eta
        /\ ApplyFloorUpdate(o, u).floorAt <= u.at
    BY <1>1, <1>3, <2>1, <2>2, FloorUpdateFields DEF MovesOn
  <2> QED BY <1>3, <2>5, <2>6 DEF Mirrors
<1>4. CASE u.kind = "order.status" /\ IsCancelled(v, u)
  <2>1. u.view = [status |-> "cancelled", driver |-> vd, eta |-> ve] /\ vs \in {"received", "scheduled"}
    BY <1>2, <1>4 DEF IsCancelled
  <2>2. o.status \in {"received", "scheduled"} BY <1>1, <1>2, <2>1 DEF FloorStatus
  <2>3. /\ ApplyFloorUpdate(o, u).status = "cancelled"
        /\ ApplyFloorUpdate(o, u).driver = vd
        /\ ApplyFloorUpdate(o, u).eta = ve
        /\ ApplyFloorUpdate(o, u).floorAt <= u.at
    BY <1>1, <1>2, <2>1, <2>2, FloorUpdateFields
  <2> QED BY <1>4, <2>1, <2>3 DEF Mirrors, FloorStatus
<1>5. CASE u.kind = "order.not_delivered" /\ Returns(v, u)
  <2>1. u.view = [status |-> IF u.action = "retry" THEN "ready" ELSE "cancelled", driver |-> None, eta |-> ve]
    BY <1>2, <1>5 DEF Returns
  <2>2. CameBack(o, u)
    BY <1>1, <1>5 DEF Returns, CameBack, FloorStatus
  <2>3. /\ ApplyNotDelivered(o, u).status = IF u.action = "retry" THEN "ready" ELSE "cancelled"
        /\ ApplyNotDelivered(o, u).driver = None
        /\ ApplyNotDelivered(o, u).eta = ve
        /\ ApplyNotDelivered(o, u).floorAt = u.at
    BY <1>1, <1>2, <2>2, NotDeliveredFields
  <2> QED BY <1>1, <1>5, <2>1, <2>3 DEF Mirrors, FloorStatus
<1> QED BY <1>3, <1>4, <1>5 DEF IsOrderEvent, Follows

(* Before the first event, main mirrors the new order.                     *)
LEMMA FloorInitInv == FloorInit => FloorInv
<1> SUFFICES ASSUME FloorInit PROVE FloorInv OBVIOUS
<1>1. NewView \in View BY DEF NewView, View, AgentStates
<1>2. FloorTypeOK
  <2>1. order \in OrderRow BY DEF FloorInit, OrderRow, MainStates, AgentStates, FloorStatus
  <2>2. post \in [Posts -> [first : 0..Len(log), next : 0..Len(log), last : 0..Len(log),
                            stage : {"idle", "apply", "keep", "reply"}]]
    BY DEF FloorInit, NoPost
  <2> QED BY <1>1, <2>1, <2>2, FloorAssumption, FaultsAssumption DEF FloorInit, FloorTypeOK
<1>3. LogIsTheAgents BY DEF FloorInit, LogIsTheAgents, LogView, LogRoster
<1>4. PostsAreRanges BY DEF FloorInit, PostsAreRanges, PostIsARange, NoPost
<1>5. ServedIsSeen BY DEF FloorInit, ServedIsSeen, NoPost
<1>6. HistoryIsSeen BY DEF FloorInit, HistoryIsSeen
<1>7. SeenIsAPrefix BY DEF FloorInit, SeenIsAPrefix, NoPost
<1>8. AppliedOnce BY DEF FloorInit, AppliedOnce, AppliedInOrder
<1>9. OrderIsMirrored
  BY DEF FloorInit, OrderIsMirrored, Mirrors, LogView, LogRoster, LogTime, NewView, FloorStatus
<1>10. StatusIsNewest BY DEF FloorInit, StatusIsNewest
<1> QED BY <1>2, <1>3, <1>4, <1>5, <1>6, <1>7, <1>8, <1>9, <1>10 DEF FloorInv

(* An entry of the log stays what it is.                                   *)
LEMMA LogGrows ==
  ASSUME FloorTypeOK, NEW e \in Event, log' = Append(log, e)
  PROVE  /\ Len(log) \in Nat /\ Len(log') = Len(log) + 1 /\ log' \in Seq(Event)
         /\ log'[Len(log) + 1] = e
         /\ \A i \in 1..Len(log) : log'[i] = log[i]
         /\ \A n \in 0..Len(log) : /\ LogView(n)' = LogView(n)
                                   /\ LogRoster(n)' = LogRoster(n)
                                   /\ LogTime(n)' = LogTime(n)
<1>1. /\ Len(log) \in Nat /\ Len(log') = Len(log) + 1 /\ log' \in Seq(Event)
      /\ log'[Len(log) + 1] = e
      /\ \A i \in 1..Len(log) : log'[i] = log[i]
  BY DEF FloorTypeOK
<1> QED BY <1>1 DEF LogView, LogRoster, LogTime

(* The agent reports an event that follows from the state it is in.        *)
LEMMA ReportInv ==
  ASSUME FloorInv, NEW e \in Event,
         log' = Append(log, e), Len(log) < MaxEvents,
         e.view = agent', e.roster = aroster', LogTime(Len(log)) <= e.at,
         Follows(agent, e), e.kind # "drivers.roster" => aroster' = aroster,
         UNCHANGED <<answered, post, mirrorVars, faults>>
  PROVE  FloorInv'
<1>len. PICK L : L = Len(log) OBVIOUS
<1>0. FloorTypeOK BY DEF FloorInv
<1>1. /\ L \in Nat /\ Len(log') = L + 1 /\ log' \in Seq(Event) /\ log'[L + 1] = e
      /\ \A i \in 1..L : log'[i] = log[i]
      /\ \A n \in 0..L : /\ LogView(n)' = LogView(n)
                         /\ LogRoster(n)' = LogRoster(n)
                         /\ LogTime(n)' = LogTime(n)
  BY <1>0, <1>len, LogGrows
<1>2. UNCHANGED <<answered, post, order, seen, status, roster, hist, faults>> BY DEF mirrorVars
<1>3. FloorTypeOK'
  <2>1. agent' \in View /\ aroster' \in Rosters \cup {None} BY DEF Event
  <2>2. hist' \in Seq(1..Len(log'))
    BY <1>0, <1>1, <1>2, <1>len DEF FloorTypeOK
  <2>3. post' \in [Posts -> [first : 0..Len(log'), next : 0..Len(log'), last : 0..Len(log'),
                             stage : {"idle", "apply", "keep", "reply"}]]
    BY <1>0, <1>1, <1>2, <1>len DEF FloorTypeOK
  <2>4. Len(log') <= MaxEvents BY <1>1, FloorAssumption, <1>len
  <2>5. answered' \in SUBSET (1..Len(log')) /\ seen' \in SUBSET (1..Len(log'))
    BY <1>0, <1>1, <1>2, <1>len DEF FloorTypeOK
  <2> QED BY <1>0, <1>1, <1>2, <2>1, <2>2, <2>3, <2>4, <2>5 DEF FloorTypeOK
<1>4. LogIsTheAgents'
  <2>1. LogView(L + 1)' = agent' /\ LogRoster(L + 1)' = aroster' BY <1>1 DEF LogView, LogRoster
  <2>2. agent = LogView(L) /\ aroster = LogRoster(L) BY <1>len DEF FloorInv, LogIsTheAgents
  <2>3. ASSUME NEW i \in 1..(L + 1)
        PROVE  /\ Follows(LogView(i - 1)', log'[i])
               /\ log'[i].kind # "drivers.roster" => log'[i].roster = LogRoster(i - 1)'
               /\ LogTime(i - 1)' <= log'[i].at
    <3>1. CASE i = L + 1
      <4>1. /\ LogView(L)' = agent /\ LogRoster(L)' = aroster /\ LogTime(L)' = LogTime(L)
        BY <1>1, <2>2
      <4>2. i - 1 = L BY <1>1, <3>1
      <4> QED BY <1>1, <3>1, <4>1, <4>2, <1>len
    <3>2. CASE i \in 1..L
      <4>1. i - 1 \in 0..L BY <1>1, <3>2
      <4>2. /\ LogView(i - 1)' = LogView(i - 1) /\ LogRoster(i - 1)' = LogRoster(i - 1)
            /\ LogTime(i - 1)' = LogTime(i - 1)
        BY <1>1, <4>1
      <4>3. /\ Follows(LogView(i - 1), log[i])
            /\ log[i].kind # "drivers.roster" => log[i].roster = LogRoster(i - 1)
            /\ LogTime(i - 1) <= log[i].at
        BY <3>2, <1>len DEF FloorInv, LogIsTheAgents
      <4>4. log'[i] = log[i] BY <1>1, <3>2
      <4> QED BY <4>2, <4>3, <4>4
    <3> QED BY <1>1, <3>1, <3>2
  <2>4. \A i \in 1..(L + 1) :
               /\ Follows(LogView(i - 1), log[i])'
               /\ (log[i].kind # "drivers.roster" => log[i].roster = LogRoster(i - 1))'
               /\ (LogTime(i - 1) <= log[i].at)'
    BY <2>3 DEF Follows, MovesOn, IsCancelled, Returns, IsOrderEvent
  <2> QED BY <1>1, <2>1, <2>4 DEF LogIsTheAgents
<1>5. PostsAreRanges'
  BY <1>0, <1>1, <1>2, <1>len DEF FloorInv, FloorTypeOK, PostsAreRanges, PostIsARange, IsOrderEvent
<1>6. ServedIsSeen' BY <1>2 DEF FloorInv, ServedIsSeen, Served
<1>7. HistoryIsSeen' BY <1>2 DEF FloorInv, HistoryIsSeen
<1>8. SeenIsAPrefix' BY <1>2 DEF FloorInv, SeenIsAPrefix
<1>9. AppliedOnce' BY <1>2 DEF FloorInv, AppliedOnce, AppliedInOrder
<1>10. OrderIsMirrored'
  <2> SUFFICES ASSUME Ordered, NEW n \in 0..(L + 1), seen = 1..n
               PROVE  /\ roster = LogRoster(n)'
                      /\ order.status # "deleted" => Mirrors(order, LogView(n)', LogTime(n)')
    BY <1>1, <1>2 DEF OrderIsMirrored, Mirrors
  <2>1. n \in 0..L BY <1>0, <1>1, <1>len DEF FloorTypeOK
  <2> QED BY <1>1, <2>1, <1>len DEF FloorInv, OrderIsMirrored
<1>11. StatusIsNewest'
  <2> SUFFICES ASSUME order.status # "deleted", NEW i \in 1..(L + 1), IsOrderEvent(log'[i]),
                      i \in answered \/ \E p \in Posts : post[p].stage # "idle" /\ i \in Served(post[p])
               PROVE  log'[i].at <= status.at
    BY <1>1, <1>2 DEF StatusIsNewest, IsOrderEvent, Served
  <2>1. i \in seen BY DEF FloorInv, ServedIsSeen
  <2>2. i \in 1..L BY <1>0, <2>1, <1>len DEF FloorTypeOK
  <2>3. log'[i] = log[i] BY <1>1, <2>2
  <2> QED BY <2>2, <2>3, <1>len DEF FloorInv, StatusIsNewest
<1> QED BY <1>3, <1>4, <1>5, <1>6, <1>7, <1>8, <1>9, <1>10, <1>11 DEF FloorInv

(* Report appends the event it is given.                                   *)
LEMMA ReportAppends ==
  ASSUME FloorInv,
         NEW kind \in {"order.status", "order.not_delivered", "drivers.roster", "unknown"},
         NEW action \in {None, "retry", "cancel"},
         NEW driver \in Drivers \cup {None}, NEW eta \in Etas \cup {None},
         agent' \in View, aroster' \in Rosters \cup {None},
         kind # "drivers.roster" => aroster' = aroster,
         \A t : Follows(agent, [kind |-> kind, action |-> action, driver |-> driver, eta |-> eta,
                                at |-> t, view |-> agent', roster |-> aroster']),
         Report(kind, action, driver, eta)
  PROVE  FloorInv'
<1>0. FloorTypeOK BY DEF FloorInv
<1>1. PICK t \in {Newest, Newest + 1} :
        log' = Append(log, [kind |-> kind, action |-> action, driver |-> driver, eta |-> eta,
                            at |-> t, view |-> agent', roster |-> aroster'])
  BY DEF Report
<1>2. Newest \in Nat /\ LogTime(Len(log)) \in Nat /\ LogTime(Len(log)) <= Newest
  <2>0. log \in Seq(Event) /\ Len(log) \in Nat BY <1>0 DEF FloorTypeOK
  <2>1. CASE log = <<>> BY <2>1 DEF Newest, LogTime
  <2>2. CASE log # <<>>
    <3>1. Len(log) # 0 /\ Len(log) \in 1..Len(log) BY <2>0, <2>2
    <3>2. log[Len(log)] \in Event BY <2>0, <3>1
    <3>3. log[Len(log)].at \in Nat BY <3>2 DEF Event
    <3> QED BY <2>2, <3>1, <3>3 DEF Newest, LogTime
  <2> QED BY <2>1, <2>2
<1>3. t \in Nat /\ LogTime(Len(log)) <= t BY <1>1, <1>2
<1>4. PICK e : e = [kind |-> kind, action |-> action, driver |-> driver, eta |-> eta,
                    at |-> t, view |-> agent', roster |-> aroster']
  OBVIOUS
<1>5. e \in Event BY <1>3, <1>4 DEF Event
<1>6. Follows(agent, e) BY <1>4, Zenon
<1>7. /\ e.view = agent' /\ e.roster = aroster' /\ e.at = t /\ e.kind = kind BY <1>4
<1>8. log' = Append(log, e) BY <1>1, <1>4
<1>9. Len(log) < MaxEvents /\ UNCHANGED <<answered, post, mirrorVars, faults>> BY DEF Report
<1> QED BY <1>3, <1>5, <1>6, <1>7, <1>8, <1>9, ReportInv

(* Every report of the agent follows from the state it is in.              *)
LEMMA AgentInv ==
  ASSUME FloorInv,
         \/ \E s \in AgentStates, d \in Drivers \cup {None}, t \in Etas \cup {None} : ReportStatus(s, d, t)
         \/ ReportCancelled
         \/ \E a \in {"retry", "cancel"} : ReportNotDelivered(a)
         \/ \E r \in Rosters : ReportRoster(r)
         \/ ReportUnknown
  PROVE  FloorInv'
<1>0. agent \in View /\ aroster \in Rosters \cup {None} BY DEF FloorInv, FloorTypeOK
<1>1. PICK vs, vd, ve : agent = [status |-> vs, driver |-> vd, eta |-> ve] BY <1>0 DEF View
<1>2. vs \in AgentStates /\ vd \in Drivers \cup {None} /\ ve \in Etas \cup {None}
  BY <1>0, <1>1 DEF View
<1>3. ASSUME NEW s \in AgentStates, NEW d \in Drivers \cup {None}, NEW t \in Etas \cup {None},
             ReportStatus(s, d, t)
      PROVE  FloorInv'
  <2>1. agent' = [status |-> s, driver |-> IF d = None THEN vd ELSE d, eta |-> IF t = None THEN ve ELSE t]
    BY <1>1, <1>3 DEF ReportStatus
  <2>2. agent' \in View BY <1>2, <2>1 DEF View
  <2>3. \A x : Follows(agent, [kind |-> "order.status", action |-> None, driver |-> d, eta |-> t,
                               at |-> x, view |-> agent', roster |-> aroster'])
    BY <1>1, <1>3, <2>1 DEF ReportStatus, Follows, MovesOn, IsOrderEvent
  <2> QED BY <1>0, <1>3, <2>2, <2>3, ReportAppends DEF ReportStatus
<1>4. ASSUME ReportCancelled PROVE FloorInv'
  <2>1. agent' = [agent EXCEPT !.status = "cancelled"] BY <1>4 DEF ReportCancelled
  <2>2. agent' = [status |-> "cancelled", driver |-> vd, eta |-> ve] BY <1>1, <2>1
  <2>3. agent' \in View BY <1>2, <2>2 DEF View, AgentStates
  <2>4. \A x : Follows(agent, [kind |-> "order.status", action |-> None, driver |-> None, eta |-> None,
                               at |-> x, view |-> agent', roster |-> aroster'])
    BY <1>1, <1>4, <2>1 DEF ReportCancelled, Follows, IsCancelled, IsOrderEvent
  <2> QED BY <1>0, <1>4, <2>3, <2>4, ReportAppends DEF ReportCancelled
<1>5. ASSUME NEW a \in {"retry", "cancel"}, ReportNotDelivered(a) PROVE FloorInv'
  <2>0. PICK ns : ns = IF a = "retry" THEN "ready" ELSE "cancelled" OBVIOUS
  <2>1. agent' = [agent EXCEPT !.status = ns, !.driver = None] BY <1>5, <2>0, Zenon DEF ReportNotDelivered
  <2>2. PICK w : w = [agent EXCEPT !.status = ns] OBVIOUS
  <2>3. w = [status |-> ns, driver |-> vd, eta |-> ve] BY <1>1, <2>2
  <2>4. agent' = [w EXCEPT !.driver = None] BY <2>1, <2>2, Zenon
  <2>5. agent' = [status |-> ns, driver |-> None, eta |-> ve] BY <2>3, <2>4
  <2>6. agent' \in View BY <1>2, <2>0, <2>5 DEF View, AgentStates
  <2>7. ASSUME NEW e, e.kind = "order.not_delivered", e.action = a, e.view = agent'
        PROVE  Follows(agent, e)
    <3>1. e.view = [agent EXCEPT !.status = IF e.action = "retry" THEN "ready" ELSE "cancelled",
                                 !.driver = None]
      BY <2>0, <2>1, <2>7, Zenon
    <3>2. Returns(agent, e) BY <1>5, <2>7, <3>1, Zenon DEF Returns, ReportNotDelivered
    <3> QED BY <2>7, <3>2 DEF Follows, IsOrderEvent
  <2>8. \A x : Follows(agent, [kind |-> "order.not_delivered", action |-> a, driver |-> None, eta |-> None,
                               at |-> x, view |-> agent', roster |-> aroster'])
    BY <2>7
  <2> QED BY <1>0, <1>5, <2>6, <2>8, ReportAppends DEF ReportNotDelivered
<1>6. ASSUME NEW r \in Rosters, ReportRoster(r) PROVE FloorInv'
  <2>1. \A x : Follows(agent, [kind |-> "drivers.roster", action |-> None, driver |-> None, eta |-> None,
                               at |-> x, view |-> agent', roster |-> aroster'])
    BY <1>6 DEF ReportRoster, Follows, IsOrderEvent
  <2> QED BY <1>0, <1>6, <2>1, ReportAppends DEF ReportRoster
<1>7. ASSUME ReportUnknown PROVE FloorInv'
  <2>1. \A x : Follows(agent, [kind |-> "unknown", action |-> None, driver |-> None, eta |-> None,
                               at |-> x, view |-> agent', roster |-> aroster'])
    BY <1>7 DEF ReportUnknown, Follows, IsOrderEvent
  <2> QED BY <1>0, <1>7, <2>1, ReportAppends DEF ReportUnknown
<1> QED BY <1>3, <1>4, <1>5, <1>6, <1>7

(* Nothing in main touches the agent's history.                            *)
LEMMA LogStays ==
  ASSUME LogIsTheAgents, UNCHANGED <<agent, aroster, log>>
  PROVE  LogIsTheAgents'
<1>1. \A n : LogView(n)' = LogView(n) /\ LogRoster(n)' = LogRoster(n) /\ LogTime(n)' = LogTime(n)
  BY DEF LogView, LogRoster, LogTime
<1>2. \A i : log'[i] = log[i] OBVIOUS
<1> QED BY <1>1, <1>2 DEF LogIsTheAgents

PostRow == [first : 0..Len(log), next : 0..Len(log), last : 0..Len(log),
            stage : {"idle", "apply", "keep", "reply"}]

(* A POST begins or ends: main's tables stay as they are, and the agent    *)
(* learns of no event that main is not done with.                          *)
LEMMA PostInv ==
  ASSUME FloorInv, UNCHANGED <<agent, aroster, log, mirrorVars>>,
         post' \in [Posts -> PostRow], faults' \in 0..MaxFaults,
         answered \subseteq answered',
         \A i \in answered' :
           i \in answered \/ \E p \in Posts : post[p].stage # "idle" /\ i \in Served(post[p]),
         \A p \in Posts :
           \/ post'[p] = post[p]
           \/ post'[p] = NoPost
           \/ /\ post'[p].stage = "apply"
              /\ post'[p].next = post'[p].first
              /\ 1 <= post'[p].first /\ post'[p].first <= post'[p].last
              /\ Ordered => 1..post'[p].first - 1 \subseteq answered
  PROVE  FloorInv'
<1>0. FloorTypeOK BY DEF FloorInv
<1>1. UNCHANGED <<agent, aroster, log, order, seen, status, roster, hist>> BY DEF mirrorVars
<1>2. answered' \subseteq seen BY DEF FloorInv, ServedIsSeen
<1>3. NoPost.stage = "idle" /\ NoPost.first = 0 BY DEF NoPost
<1>4. \A p \in Posts : post[p] \in PostRow BY <1>0 DEF FloorTypeOK, PostRow
<1>5. FloorTypeOK'
  BY <1>0, <1>1, <1>2 DEF FloorTypeOK, PostRow
<1>6. LogIsTheAgents'
  BY <1>1, LogStays DEF FloorInv
<1>7. PostsAreRanges'
  <2> SUFFICES ASSUME NEW p \in Posts, post'[p].stage # "idle"
               PROVE  /\ 1 <= post'[p].first /\ post'[p].first <= post'[p].next /\ post'[p].next <= post'[p].last
                      /\ post'[p].stage = "keep" => IsOrderEvent(log[post'[p].next])
    BY <1>1 DEF PostsAreRanges, PostIsARange, IsOrderEvent
  <2>1. post'[p] \in PostRow OBVIOUS
  <2>2. post'[p].first \in Nat BY <2>1 DEF PostRow
  <2>3. CASE post'[p] = post[p] BY <2>3 DEF FloorInv, PostsAreRanges, PostIsARange
  <2>4. CASE post'[p] # post[p] BY <1>3, <2>2, <2>4
  <2> QED BY <2>3, <2>4
<1>8. \A p \in Posts : post'[p].stage # "idle" => post'[p] = post[p] \/ Served(post'[p]) = {}
  <2> SUFFICES ASSUME NEW p \in Posts, post'[p].stage = "apply", post'[p].next = post'[p].first
               PROVE  Served(post'[p]) = {}
    BY <1>3
  <2>1. post'[p].first \in Nat BY DEF PostRow
  <2> QED BY <2>1 DEF Served
<1>9. ServedIsSeen'
  <2>1. \A p \in Posts : /\ post'[p].stage # "idle" => Served(post'[p]) \subseteq seen
                         /\ post'[p].stage = "keep" => post'[p].next \in seen
    BY <1>3, <1>8 DEF FloorInv, ServedIsSeen
  <2> QED BY <1>1, <1>2, <2>1 DEF ServedIsSeen, Served
<1>10. HistoryIsSeen' BY <1>1 DEF FloorInv, HistoryIsSeen
<1>11. SeenIsAPrefix'
  <2> SUFFICES ASSUME Ordered PROVE /\ \A p \in Posts : 1..post'[p].first - 1 \subseteq answered'
                                    /\ \A i \in seen : 1..i - 1 \subseteq seen
    BY <1>1 DEF SeenIsAPrefix
  <2>1. \A p \in Posts : 1..post[p].first - 1 \subseteq answered BY DEF FloorInv, SeenIsAPrefix
  <2>2. ASSUME NEW p \in Posts PROVE 1..post'[p].first - 1 \subseteq answered'
    BY <1>3, <2>1
  <2> QED BY <2>2 DEF FloorInv, SeenIsAPrefix
<1>12. AppliedOnce' BY <1>1 DEF FloorInv, AppliedOnce, AppliedInOrder
<1>13. OrderIsMirrored'
  BY <1>1 DEF FloorInv, OrderIsMirrored, Mirrors, LogView, LogRoster, LogTime
<1>14. StatusIsNewest'
  <2> SUFFICES ASSUME order.status # "deleted", NEW i \in 1..Len(log), IsOrderEvent(log[i]),
                      i \in answered' \/ \E p \in Posts : post'[p].stage # "idle" /\ i \in Served(post'[p])
               PROVE  log[i].at <= status.at
    BY <1>1 DEF StatusIsNewest, IsOrderEvent, Served
  <2>1. i \in answered \/ \E p \in Posts : post[p].stage # "idle" /\ i \in Served(post[p])
    BY <1>8
  <2> QED BY <2>1 DEF FloorInv, StatusIsNewest
<1> QED BY <1>5, <1>6, <1>7, <1>9, <1>10, <1>11, <1>12, <1>13, <1>14 DEF FloorInv

(* Serving one event of a POST moves main one event on in it, and adds no  *)
(* event to floor_events_seen but this one.                                *)
LEMMA ServeInv ==
  ASSUME FloorInv, NEW p \in Posts, NEW i, i = post[p].next, NEW q \in PostRow,
         post[p].stage # "idle", post' = [post EXCEPT ![p] = q],
         q.first = post[p].first, q.last = post[p].last, q.stage # "idle",
         i <= q.next, q.next <= q.last,
         Served(q) \subseteq Served(post[p]) \cup {i},
         q.stage = "keep" => q.next = i /\ IsOrderEvent(log[i]),
         seen' = seen \cup {i}, UNCHANGED <<agentVars, faults>>
  PROVE  /\ i \in 1..Len(log)
         /\ post' \in [Posts -> PostRow]
         /\ seen' \subseteq 1..Len(log)
         /\ LogIsTheAgents'
         /\ PostsAreRanges'
         /\ ServedIsSeen'
         /\ SeenIsAPrefix'
         /\ Ordered /\ i \notin seen => seen = 1..i - 1
<1>0. FloorTypeOK BY DEF FloorInv
<1>1. UNCHANGED <<agent, aroster, log, answered, faults>> BY DEF agentVars
<1>2. \A x \in Posts : post'[x] = IF x = p THEN q ELSE post[x] BY <1>0 DEF FloorTypeOK
<1>3. post[p] \in PostRow BY <1>0 DEF FloorTypeOK, PostRow
<1>4. /\ post[p].first \in Nat /\ post[p].last \in 0..Len(log) /\ post[p].next \in Nat
      /\ q.next \in Nat /\ Len(log) \in Nat
  BY <1>0, <1>3 DEF PostRow, FloorTypeOK
<1>5. 1 <= post[p].first /\ post[p].first <= i /\ i <= post[p].last
  BY DEF FloorInv, PostsAreRanges, PostIsARange
<1>6. i \in 1..Len(log) BY <1>4, <1>5
<1>7. post' \in [Posts -> PostRow] BY <1>0 DEF FloorTypeOK, PostRow
<1>8. seen' \subseteq 1..Len(log) BY <1>0, <1>6 DEF FloorTypeOK
<1>9. LogIsTheAgents'
  BY <1>1, LogStays DEF FloorInv
<1>10. PostsAreRanges'
  <2> SUFFICES ASSUME NEW x \in Posts, post'[x].stage # "idle"
               PROVE  /\ 1 <= post'[x].first /\ post'[x].first <= post'[x].next /\ post'[x].next <= post'[x].last
                      /\ post'[x].stage = "keep" => IsOrderEvent(log[post'[x].next])
    BY <1>1 DEF PostsAreRanges, PostIsARange, IsOrderEvent
  <2>1. CASE x = p BY <1>2, <1>4, <1>5, <2>1
  <2>2. CASE x # p BY <1>2, <2>2 DEF FloorInv, PostsAreRanges, PostIsARange
  <2> QED BY <2>1, <2>2
<1>11. ServedIsSeen'
  <2>1. \A x \in Posts : /\ post'[x].stage # "idle" => Served(post'[x]) \subseteq seen'
                         /\ post'[x].stage = "keep" => post'[x].next \in seen'
    BY <1>2 DEF FloorInv, ServedIsSeen
  <2> QED BY <1>1, <2>1 DEF FloorInv, ServedIsSeen, Served
<1>12. Ordered => 1..i - 1 \subseteq seen
  <2> SUFFICES ASSUME Ordered, NEW j \in 1..i - 1 PROVE j \in seen OBVIOUS
  <2>1. CASE j < post[p].first
    <3>1. j \in 1..post[p].first - 1 BY <1>4, <1>6, <2>1
    <3> QED BY <3>1 DEF FloorInv, SeenIsAPrefix, ServedIsSeen
  <2>2. CASE ~(j < post[p].first)
    <3>1. j \in Served(post[p]) BY <1>4, <1>5, <1>6, <2>2 DEF Served
    <3> QED BY <3>1 DEF FloorInv, ServedIsSeen
  <2> QED BY <2>1, <2>2
<1>13. SeenIsAPrefix'
  <2> SUFFICES ASSUME Ordered PROVE /\ \A x \in Posts : 1..post'[x].first - 1 \subseteq answered
                                    /\ \A j \in seen' : 1..j - 1 \subseteq seen'
    BY <1>1 DEF SeenIsAPrefix
  <2>1. \A x \in Posts : 1..post'[x].first - 1 \subseteq answered
    BY <1>2 DEF FloorInv, SeenIsAPrefix
  <2>2. \A j \in seen : 1..j - 1 \subseteq seen BY DEF FloorInv, SeenIsAPrefix
  <2> QED BY <1>12, <2>1, <2>2
<1>14. ASSUME Ordered, i \notin seen PROVE seen = 1..i - 1
  <2>1. ASSUME NEW j \in seen PROVE j \in 1..i - 1
    <3>1. j \in 1..Len(log) BY <1>0 DEF FloorTypeOK
    <3>2. i \notin 1..j - 1 BY <1>14 DEF FloorInv, SeenIsAPrefix
    <3> QED BY <1>4, <1>6, <1>14, <3>1, <3>2
  <2> QED BY <1>12, <1>14, <2>1
<1> QED BY <1>6, <1>7, <1>8, <1>9, <1>10, <1>11, <1>13, <1>14

(* NextEvent ends the service of the event at next.                        *)
LEMMA NextEventMoves ==
  ASSUME FloorInv, NEW p \in Posts, post[p].stage \in {"apply", "keep"}, NextEvent(p)
  PROVE  \E q \in PostRow :
           /\ post' = [post EXCEPT ![p] = q]
           /\ q.first = post[p].first /\ q.last = post[p].last /\ q.stage \in {"apply", "reply"}
           /\ post[p].next <= q.next /\ q.next <= q.last
           /\ Served(q) \subseteq Served(post[p]) \cup {post[p].next}
<1>0. post \in [Posts -> PostRow] BY DEF FloorInv, FloorTypeOK, PostRow
<1>1. PICK a, b, c, s : post[p] = [first |-> a, next |-> b, last |-> c, stage |-> s]
  BY <1>0 DEF PostRow
<1>2. /\ a \in 0..Len(log) /\ b \in 0..Len(log) /\ c \in 0..Len(log) /\ s \in {"apply", "keep"}
      /\ Len(log) \in Nat
  BY <1>0, <1>1 DEF PostRow, FloorInv, FloorTypeOK
<1>3. 1 <= a /\ a <= b /\ b <= c
  BY <1>1, <1>2 DEF FloorInv, PostsAreRanges, PostIsARange
<1>4. CASE b < c
  <2>1. PICK w : w = [post[p] EXCEPT !.next = b + 1] OBVIOUS
  <2>2. w = [first |-> a, next |-> b + 1, last |-> c, stage |-> s] BY <1>1, <2>1
  <2>3. PICK q : q = [w EXCEPT !.stage = "apply"] OBVIOUS
  <2>4. q = [first |-> a, next |-> b + 1, last |-> c, stage |-> "apply"] BY <2>2, <2>3
  <2>5. /\ post[p].next = b /\ post[p].next < post[p].last BY <1>1, <1>4
  <2>6. [post[p] EXCEPT !.next = post[p].next + 1, !.stage = "apply"] = q
    BY <2>1, <2>3, <2>5, Zenon
  <2>7. post' = [post EXCEPT ![p] = q] BY <2>5, <2>6, Zenon DEF NextEvent
  <2>8. q \in PostRow BY <1>2, <1>4, <2>4 DEF PostRow
  <2>9. Served(q) \subseteq Served(post[p]) \cup {b} BY <1>1, <1>2, <1>3, <2>4 DEF Served
  <2>10. /\ q.first = a /\ q.last = c /\ q.stage = "apply" /\ q.next = b + 1 BY <2>4
  <2>11. /\ q.first = post[p].first /\ q.last = post[p].last /\ q.stage \in {"apply", "reply"}
         /\ post[p].next <= q.next /\ q.next <= q.last
         /\ Served(q) \subseteq Served(post[p]) \cup {post[p].next}
    BY <1>1, <1>2, <1>4, <2>9, <2>10
  <2> QED BY <2>7, <2>8, <2>11, Zenon
<1>5. CASE ~(b < c)
  <2>1. PICK q : q = [post[p] EXCEPT !.stage = "reply"] OBVIOUS
  <2>2. q = [first |-> a, next |-> b, last |-> c, stage |-> "reply"] BY <1>1, <2>1
  <2>3. /\ post[p].next = b /\ post[p].last = c BY <1>1
  <2>4. post' = [post EXCEPT ![p] = q] BY <1>5, <2>1, <2>3, Zenon DEF NextEvent
  <2>5. q \in PostRow BY <1>2, <2>2 DEF PostRow
  <2>6. Served(q) \subseteq Served(post[p]) \cup {b} BY <1>1, <1>2, <1>3, <1>5, <2>2 DEF Served
  <2>7. /\ q.first = a /\ q.last = c /\ q.stage = "reply" /\ q.next = b BY <2>2
  <2>8. /\ q.first = post[p].first /\ q.last = post[p].last /\ q.stage \in {"apply", "reply"}
        /\ post[p].next <= q.next /\ q.next <= q.last
        /\ Served(q) \subseteq Served(post[p]) \cup {post[p].next}
    BY <1>1, <1>2, <1>3, <2>6, <2>7
  <2> QED BY <2>4, <2>5, <2>8, Zenon
<1> QED BY <1>4, <1>5

(* What an event makes of the order: a row that is not deleted, and the    *)
(* row it was if the event was seen before.                                *)
Applied(i) ==
  IF AlreadySeen(i) THEN order
  ELSE IF log[i].kind = "order.status" THEN ApplyFloorUpdate(order, log[i])
  ELSE ApplyNotDelivered(order, log[i])

(* Applying an event leaves a well-formed row and never deletes the order. *)
LEMMA AppliedType ==
  ASSUME FloorInv, NEW i \in 1..Len(log), IsOrderEvent(log[i]), order.status # "deleted"
  PROVE  Applied(i) \in OrderRow /\ Applied(i).status # "deleted"
<1>1. order \in OrderRow /\ log[i] \in Event BY DEF FloorInv, FloorTypeOK
<1>2. log[i].view.status \in AgentStates BY <1>1 DEF Event, View
<1>3. FloorStatus(log[i].view.status) # "deleted" BY <1>2, FloorStatusType
<1>4. CASE AlreadySeen(i) BY <1>1, <1>4 DEF Applied
<1>5. CASE ~AlreadySeen(i) /\ log[i].kind = "order.status"
  <2>1. /\ ApplyFloorUpdate(order, log[i]) \in OrderRow
        /\ ApplyFloorUpdate(order, log[i]).status \in {"cancelled", order.status, FloorStatus(log[i].view.status)}
    BY <1>1, FloorUpdateFields
  <2> QED BY <1>3, <1>5, <2>1 DEF Applied
<1>6. CASE ~AlreadySeen(i) /\ log[i].kind # "order.status"
  <2>1. /\ ApplyNotDelivered(order, log[i]) \in OrderRow
        /\ ApplyNotDelivered(order, log[i]).status \in {"cancelled", order.status, "ready"}
    BY <1>1, NotDeliveredFields
  <2> QED BY <1>6, <2>1 DEF Applied
<1> QED BY <1>4, <1>5, <1>6

(* If adding i to the first i - 1 events gives the first n, then n is i.   *)
LEMMA NextSeen ==
  ASSUME NEW i \in Nat \ {0}, NEW n \in Nat, (1..i - 1) \cup {i} = 1..n
  PROVE  n = i
<1>1. i \in 1..n OBVIOUS
<1>2. n \in 1..n BY <1>1
<1>3. n \in (1..i - 1) \cup {i} BY <1>2
<1> QED BY <1>1, <1>3

(* The event is new and follows from the view main mirrors, or it is a     *)
(* duplicate and main keeps what it has.                                   *)
LEMMA ApplyEventInv ==
  ASSUME FloorInv, NEW p \in Posts, ApplyEvent(p) PROVE FloorInv'
<1>0. FloorTypeOK BY DEF FloorInv
<1>1. PICK i : i = post[p].next OBVIOUS
<1>2. /\ post[p].stage = "apply" /\ IsOrderEvent(log[i]) /\ order.status # "deleted"
      /\ order' = Applied(i)
      /\ hist' = IF order'.status # order.status THEN Append(hist, i) ELSE hist
      /\ seen' = seen \cup {i}
      /\ post' = [post EXCEPT ![p].stage = "keep"]
      /\ UNCHANGED <<agentVars, status, roster, faults>>
  BY <1>1 DEF ApplyEvent, Applied
<1>3. PICK a, b, c, s : post[p] = [first |-> a, next |-> b, last |-> c, stage |-> s]
  BY <1>0 DEF FloorTypeOK
<1>4. PICK q : q = [post[p] EXCEPT !.stage = "keep"] OBVIOUS
<1>5. q = [first |-> a, next |-> b, last |-> c, stage |-> "keep"] BY <1>3, <1>4
<1>6. post' = [post EXCEPT ![p] = q] BY <1>2, <1>4, Zenon
<1>7. post[p] \in PostRow BY <1>0 DEF FloorTypeOK, PostRow
<1>8. q \in PostRow BY <1>3, <1>5, <1>7 DEF PostRow
<1>9. Served(q) = Served(post[p]) BY <1>2, <1>3, <1>5 DEF Served
<1>10. /\ q.first = post[p].first /\ q.last = post[p].last /\ q.stage = "keep" /\ q.next = i
       /\ post[p].stage # "idle"
  BY <1>1, <1>2, <1>3, <1>5
<1>11. i <= q.next /\ q.next <= q.last
  BY <1>1, <1>7, <1>10 DEF PostRow, FloorInv, PostsAreRanges, PostIsARange
<1>12. /\ i \in 1..Len(log) /\ post' \in [Posts -> PostRow] /\ seen' \subseteq 1..Len(log)
       /\ LogIsTheAgents' /\ PostsAreRanges' /\ ServedIsSeen' /\ SeenIsAPrefix'
       /\ Ordered /\ i \notin seen => seen = 1..i - 1
  BY <1>1, <1>2, <1>6, <1>8, <1>9, <1>10, <1>11, ServeInv
<1>13. UNCHANGED <<agent, aroster, log, answered, status, roster, faults>> BY <1>2 DEF agentVars
<1>14. order' \in OrderRow /\ order'.status # "deleted" BY <1>2, <1>12, AppliedType
<1>15. FloorTypeOK'
  <2>1. hist' \in Seq(1..Len(log))
    <3>1. hist \in Seq(1..Len(log)) BY <1>0 DEF FloorTypeOK
    <3>2. Append(hist, i) \in Seq(1..Len(log)) BY <1>12, <3>1
    <3> QED BY <1>2, <3>1, <3>2
  <2> QED BY <1>0, <1>12, <1>13, <1>14, <2>1 DEF FloorTypeOK, PostRow
<1>16. i \in seen => order' = order BY <1>2 DEF Applied, AlreadySeen
<1>17. HistoryIsSeen'
  <2>1. hist \in Seq(1..Len(log)) BY <1>0 DEF FloorTypeOK
  <2>2. CASE hist' = hist BY <1>2, <2>2 DEF FloorInv, HistoryIsSeen
  <2>3. CASE hist' = Append(hist, i) BY <1>2, <2>1, <2>3 DEF FloorInv, HistoryIsSeen
  <2> QED BY <1>2, <2>2, <2>3
<1>18. AppliedOnce'
  <2> SUFFICES ASSUME Ordered PROVE AppliedInOrder' BY DEF AppliedOnce
  <2>1. hist \in Seq(1..Len(log)) BY <1>0 DEF FloorTypeOK
  <2>2. CASE hist' = hist BY <2>2 DEF FloorInv, AppliedOnce, AppliedInOrder
  <2>3. CASE hist' = Append(hist, i) /\ i \notin seen
    <3>1. \A k \in DOMAIN hist : hist[k] \in 1..i - 1 BY <1>12, <2>3 DEF FloorInv, HistoryIsSeen
    <3>2. \A k, l \in DOMAIN hist : k < l => hist[k] < hist[l] BY DEF FloorInv, AppliedOnce, AppliedInOrder
    <3> QED BY <1>12, <2>1, <2>3, <3>1, <3>2 DEF AppliedInOrder
  <2> QED BY <1>2, <1>16, <2>2, <2>3
<1>19. OrderIsMirrored'
  <2> SUFFICES ASSUME Ordered, NEW n \in 0..Len(log), seen' = 1..n
               PROVE  roster = LogRoster(n) /\ Mirrors(order', LogView(n), LogTime(n))
    BY <1>13 DEF OrderIsMirrored, Mirrors, LogRoster, LogView, LogTime
  <2>1. CASE i \in seen
    <3>1. seen' = seen BY <1>2, <2>1
    <3> QED BY <1>2, <1>16, <2>1, <3>1 DEF FloorInv, OrderIsMirrored
  <2>2. CASE i \notin seen
    <3>0. i \in Nat \ {0} /\ i - 1 \in 0..Len(log) /\ log[i] \in Event /\ Len(log) \in Nat
      BY <1>0, <1>12 DEF FloorTypeOK
    <3>1. seen = 1..i - 1 BY <1>12, <2>2
    <3>2. n = i BY <1>2, <3>0, <3>1, NextSeen
    <3>3. roster = LogRoster(i - 1) /\ Mirrors(order, LogView(i - 1), LogTime(i - 1))
      BY <1>2, <3>0, <3>1 DEF FloorInv, OrderIsMirrored
    <3>4. /\ Follows(LogView(i - 1), log[i]) /\ LogTime(i - 1) <= log[i].at
          /\ log[i].roster = LogRoster(i - 1)
      BY <1>2, <1>12 DEF FloorInv, LogIsTheAgents, IsOrderEvent
    <3>5. LogView(i - 1) \in View /\ LogTime(i - 1) \in Nat
      <4>1. CASE i - 1 = 0 BY <4>1 DEF LogView, LogTime, NewView, View, AgentStates
      <4>2. CASE i - 1 # 0
        <5>1. log[i - 1] \in Event BY <1>0, <3>0, <4>2 DEF FloorTypeOK
        <5> QED BY <4>2, <5>1 DEF LogView, LogTime, Event
      <4> QED BY <4>1, <4>2
    <3>6. Mirrors(IF log[i].kind = "order.status" THEN ApplyFloorUpdate(order, log[i])
                  ELSE ApplyNotDelivered(order, log[i]), log[i].view, log[i].at)
      BY <1>0, <1>2, <3>0, <3>3, <3>4, <3>5, ApplyMirrors DEF FloorTypeOK
    <3>7. Mirrors(order', log[i].view, log[i].at) BY <1>2, <2>2, <3>6 DEF Applied, AlreadySeen
    <3> QED BY <3>0, <3>2, <3>3, <3>4, <3>7 DEF LogView, LogRoster, LogTime
  <2> QED BY <2>1, <2>2
<1>20. StatusIsNewest'
  <2> SUFFICES ASSUME NEW j \in 1..Len(log), IsOrderEvent(log[j]),
                      j \in answered \/ \E x \in Posts : post'[x].stage # "idle" /\ j \in Served(post'[x])
               PROVE  log[j].at <= status.at
    BY <1>13 DEF StatusIsNewest, IsOrderEvent, Served
  <2>1. \A x \in Posts : post'[x] = IF x = p THEN q ELSE post[x] BY <1>0, <1>6 DEF FloorTypeOK
  <2>2. j \in answered \/ \E x \in Posts : post[x].stage # "idle" /\ j \in Served(post[x])
    BY <1>9, <1>10, <2>1
  <2> QED BY <1>2, <2>2 DEF FloorInv, StatusIsNewest
<1> QED BY <1>12, <1>15, <1>17, <1>18, <1>19, <1>20 DEF FloorInv

(* An event that is not applied to the order: the roster is replaced, or   *)
(* the event is only marked seen.                                          *)
LEMMA RosterOrSeenInv ==
  ASSUME FloorInv, NEW p \in Posts, ApplyRoster(p) \/ ApplySeen(p) PROVE FloorInv'
<1>0. FloorTypeOK BY DEF FloorInv
<1>1. PICK i : i = post[p].next OBVIOUS
<1>2. /\ post[p].stage = "apply" /\ NextEvent(p)
      /\ seen' = seen \cup {i}
      /\ UNCHANGED <<agentVars, order, status, hist, faults>>
      /\ \/ log[i].kind = "drivers.roster" /\ roster' = IF i \in seen THEN roster ELSE log[i].roster
         \/ log[i].kind = "unknown" /\ roster' = roster
         \/ IsOrderEvent(log[i]) /\ order.status = "deleted" /\ roster' = roster
  BY <1>1 DEF ApplyRoster, ApplySeen, AlreadySeen
<1>3. PICK q \in PostRow :
         /\ post' = [post EXCEPT ![p] = q]
         /\ q.first = post[p].first /\ q.last = post[p].last /\ q.stage \in {"apply", "reply"}
         /\ i <= q.next /\ q.next <= q.last
         /\ Served(q) \subseteq Served(post[p]) \cup {i}
  BY <1>1, <1>2, NextEventMoves
<1>4. UNCHANGED <<agent, aroster, log, answered, order, status, hist, faults>> BY <1>2 DEF agentVars
<1>5. post[p].stage # "idle" /\ q.stage # "idle" /\ q.stage # "keep" BY <1>2, <1>3
<1>6. /\ i \in 1..Len(log) /\ post' \in [Posts -> PostRow] /\ seen' \subseteq 1..Len(log)
      /\ LogIsTheAgents' /\ PostsAreRanges' /\ ServedIsSeen' /\ SeenIsAPrefix'
      /\ Ordered /\ i \notin seen => seen = 1..i - 1
  BY <1>1, <1>2, <1>3, <1>5, ServeInv
<1>7. log[i] \in Event BY <1>0, <1>6 DEF FloorTypeOK
<1>8. FloorTypeOK'
  <2>1. roster' \in Rosters \cup {None} BY <1>0, <1>2, <1>7 DEF FloorTypeOK, Event
  <2> QED BY <1>0, <1>4, <1>6, <2>1 DEF FloorTypeOK, PostRow
<1>9. HistoryIsSeen' BY <1>2, <1>4 DEF FloorInv, HistoryIsSeen
<1>10. AppliedOnce' BY <1>4 DEF FloorInv, AppliedOnce, AppliedInOrder
<1>11. OrderIsMirrored'
  <2> SUFFICES ASSUME Ordered, NEW n \in 0..Len(log), seen' = 1..n
               PROVE  /\ roster' = LogRoster(n)
                      /\ order.status # "deleted" => Mirrors(order, LogView(n), LogTime(n))
    BY <1>4 DEF OrderIsMirrored, Mirrors, LogRoster, LogView, LogTime
  <2>1. CASE i \in seen
    <3>1. seen' = seen /\ roster' = roster BY <1>2, <2>1
    <3> QED BY <3>1 DEF FloorInv, OrderIsMirrored
  <2>2. CASE i \notin seen
    <3>0. i \in Nat \ {0} /\ i - 1 \in 0..Len(log) /\ Len(log) \in Nat
      BY <1>0, <1>6 DEF FloorTypeOK
    <3>1. seen = 1..i - 1 BY <1>6, <2>2
    <3>2. n = i BY <1>2, <3>0, <3>1, NextSeen
    <3>3. /\ roster = LogRoster(i - 1)
          /\ order.status # "deleted" => Mirrors(order, LogView(i - 1), LogTime(i - 1))
      BY <3>0, <3>1 DEF FloorInv, OrderIsMirrored
    <3>4. /\ ~IsOrderEvent(log[i]) => log[i].view = LogView(i - 1)
          /\ LogTime(i - 1) <= log[i].at
          /\ log[i].kind # "drivers.roster" => log[i].roster = LogRoster(i - 1)
      BY <1>6 DEF FloorInv, LogIsTheAgents, Follows
    <3>5. LogView(i) = log[i].view /\ LogRoster(i) = log[i].roster /\ LogTime(i) = log[i].at
      BY <3>0 DEF LogView, LogRoster, LogTime
    <3>6. roster' = LogRoster(i) BY <1>2, <2>2, <3>3, <3>4, <3>5 DEF IsOrderEvent
    <3>7. ASSUME order.status # "deleted" PROVE Mirrors(order, LogView(i), LogTime(i))
      <4>1. LogView(i) = LogView(i - 1) BY <1>2, <3>4, <3>5, <3>7 DEF IsOrderEvent
      <4>2. LogTime(i - 1) \in Nat /\ log[i].at \in Nat /\ order.floorAt \in Nat
        <5>1. CASE i - 1 = 0 BY <1>0, <1>7, <5>1 DEF LogTime, Event, FloorTypeOK, OrderRow
        <5>2. CASE i - 1 # 0
          <6>1. log[i - 1] \in Event BY <1>0, <3>0, <5>2 DEF FloorTypeOK
          <6> QED BY <1>0, <1>7, <5>2, <6>1 DEF LogTime, Event, FloorTypeOK, OrderRow
        <5> QED BY <5>1, <5>2
      <4> QED BY <3>3, <3>4, <3>5, <3>7, <4>1, <4>2 DEF Mirrors
    <3> QED BY <3>2, <3>6, <3>7
  <2> QED BY <2>1, <2>2
<1>12. StatusIsNewest'
  <2> SUFFICES ASSUME order.status # "deleted", NEW j \in 1..Len(log), IsOrderEvent(log[j]),
                      j \in answered \/ \E x \in Posts : post'[x].stage # "idle" /\ j \in Served(post'[x])
               PROVE  log[j].at <= status.at
    BY <1>4 DEF StatusIsNewest, IsOrderEvent, Served
  <2>1. \A x \in Posts : post'[x] = IF x = p THEN q ELSE post[x] BY <1>0, <1>3 DEF FloorTypeOK
  <2>2. j # i BY <1>2 DEF IsOrderEvent
  <2>3. j \in answered \/ \E x \in Posts : post[x].stage # "idle" /\ j \in Served(post[x])
    BY <1>3, <1>5, <2>1, <2>2
  <2> QED BY <2>3 DEF FloorInv, StatusIsNewest
<1> QED BY <1>6, <1>8, <1>9, <1>10, <1>11, <1>12 DEF FloorInv

(* The agent status kept is never older than the one it replaces, so the   *)
(* event main is now done with is covered.                                 *)
LEMMA KeepAgentStatusInv ==
  ASSUME FloorInv, NEW p \in Posts, KeepAgentStatus(p) PROVE FloorInv'
<1>0. FloorTypeOK BY DEF FloorInv
<1>1. PICK i : i = post[p].next OBVIOUS
<1>2. /\ post[p].stage = "keep" /\ NextEvent(p)
      /\ status' = IF log[i].at >= status.at /\ order.status # "deleted"
                   THEN [view |-> log[i].view, at |-> log[i].at] ELSE status
      /\ UNCHANGED <<agentVars, order, seen, roster, hist, faults>>
  BY <1>1 DEF KeepAgentStatus, Keeps, Current
<1>3. PICK q \in PostRow :
         /\ post' = [post EXCEPT ![p] = q]
         /\ q.first = post[p].first /\ q.last = post[p].last /\ q.stage \in {"apply", "reply"}
         /\ i <= q.next /\ q.next <= q.last
         /\ Served(q) \subseteq Served(post[p]) \cup {i}
  BY <1>1, <1>2, NextEventMoves
<1>4. UNCHANGED <<agent, aroster, log, answered, order, seen, roster, hist, faults>> BY <1>2 DEF agentVars
<1>5. post[p].stage # "idle" /\ q.stage # "idle" /\ q.stage # "keep" BY <1>2, <1>3
<1>6. seen' = seen \cup {i} BY <1>1, <1>2 DEF FloorInv, ServedIsSeen
<1>7. /\ i \in 1..Len(log) /\ post' \in [Posts -> PostRow] /\ seen' \subseteq 1..Len(log)
      /\ LogIsTheAgents' /\ PostsAreRanges' /\ ServedIsSeen' /\ SeenIsAPrefix'
  BY <1>1, <1>2, <1>3, <1>5, <1>6, ServeInv
<1>8. log[i] \in Event BY <1>0, <1>7 DEF FloorTypeOK
<1>9. FloorTypeOK'
  <2>1. status' \in [view : View, at : Nat] BY <1>0, <1>2, <1>8 DEF FloorTypeOK, Event
  <2> QED BY <1>0, <1>4, <1>7, <2>1 DEF FloorTypeOK, PostRow
<1>10. HistoryIsSeen' BY <1>4 DEF FloorInv, HistoryIsSeen
<1>11. AppliedOnce' BY <1>4 DEF FloorInv, AppliedOnce, AppliedInOrder
<1>12. OrderIsMirrored'
  BY <1>4 DEF FloorInv, OrderIsMirrored, Mirrors, LogRoster, LogView, LogTime
<1>13. StatusIsNewest'
  <2> SUFFICES ASSUME order.status # "deleted", NEW j \in 1..Len(log), IsOrderEvent(log[j]),
                      j \in answered \/ \E x \in Posts : post'[x].stage # "idle" /\ j \in Served(post'[x])
               PROVE  log[j].at <= status'.at
    BY <1>4 DEF StatusIsNewest, IsOrderEvent, Served
  <2>0. /\ log[i].at \in Nat /\ log[j].at \in Nat /\ status.at \in Nat /\ status'.at \in Nat
    <3>1. log[j] \in Event /\ status \in [view : View, at : Nat] BY <1>0 DEF FloorTypeOK
    <3>2. status' \in [view : View, at : Nat] BY <1>9 DEF FloorTypeOK
    <3> QED BY <1>8, <3>1, <3>2 DEF Event
  <2>1. status.at <= status'.at /\ log[i].at <= status'.at BY <1>2, <2>0
  <2>2. \A x \in Posts : post'[x] = IF x = p THEN q ELSE post[x] BY <1>0, <1>3 DEF FloorTypeOK
  <2>3. CASE j = i BY <2>1, <2>3
  <2>4. CASE j # i
    <3>1. j \in answered \/ \E x \in Posts : post[x].stage # "idle" /\ j \in Served(post[x])
      BY <1>3, <1>5, <2>2, <2>4
    <3>2. log[j].at <= status.at BY <3>1 DEF FloorInv, StatusIsNewest
    <3> QED BY <2>0, <2>1, <3>2
  <2> QED BY <2>3, <2>4
<1> QED BY <1>7, <1>9, <1>10, <1>11, <1>12, <1>13 DEF FloorInv

(* The steps that start and end POSTs.                                     *)
LEMMA StartOrEndInv ==
  ASSUME FloorInv,
         \/ AgentPosts
         \/ \E p \in Posts : PostFails(p) \/ Reply(p) \/ ReplyLost(p)
         \/ MainRestarts
  PROVE  FloorInv'
<1>0. FloorTypeOK BY DEF FloorInv
<1>1. /\ post \in [Posts -> PostRow] /\ Len(log) \in Nat /\ faults \in 0..MaxFaults
  BY <1>0 DEF FloorTypeOK, PostRow
<1>2. Fault => faults' \in 0..MaxFaults BY <1>1, FaultsAssumption DEF Fault
<1>3. NoPost \in PostRow BY <1>1 DEF NoPost, PostRow
<1>4. ASSUME NEW p \in Posts, post' = [post EXCEPT ![p] = NoPost], faults' \in 0..MaxFaults,
             UNCHANGED <<agentVars, mirrorVars>>
      PROVE  FloorInv'
  <2>1. post' \in [Posts -> PostRow] BY <1>1, <1>3, <1>4
  <2>2. \A x \in Posts : post'[x] = post[x] \/ post'[x] = NoPost BY <1>1, <1>4
  <2>3. UNCHANGED <<agent, aroster, log, answered, mirrorVars>> BY <1>4 DEF agentVars
  <2> QED BY <1>4, <2>1, <2>2, <2>3, PostInv
<1>5. ASSUME AgentPosts PROVE FloorInv'
  <2>1. PICK p \in Posts, first \in 1..Len(log) : \E last \in first..Len(log) : StartPost(p, first, last)
    BY <1>5 DEF AgentPosts
  <2>2. PICK last \in first..Len(log) : StartPost(p, first, last) BY <2>1
  <2>3. PICK q : q = [first |-> first, next |-> first, last |-> last, stage |-> "apply"] OBVIOUS
  <2>4. /\ post' = [post EXCEPT ![p] = q]
        /\ Ordered => 1..first - 1 \subseteq answered
        /\ UNCHANGED <<agentVars, mirrorVars, faults>>
    BY <2>2, <2>3 DEF StartPost
  <2>5. q \in PostRow BY <1>1, <2>3 DEF PostRow
  <2>6. post' \in [Posts -> PostRow] BY <1>1, <2>4, <2>5
  <2>7. \A x \in Posts : post'[x] = IF x = p THEN q ELSE post[x] BY <1>1, <2>4
  <2>8. \A x \in Posts :
          \/ post'[x] = post[x]
          \/ /\ post'[x].stage = "apply"
             /\ post'[x].next = post'[x].first
             /\ 1 <= post'[x].first /\ post'[x].first <= post'[x].last
             /\ Ordered => 1..post'[x].first - 1 \subseteq answered
    BY <1>1, <2>3, <2>4, <2>7
  <2>9. UNCHANGED <<agent, aroster, log, answered, mirrorVars>> /\ faults' \in 0..MaxFaults
    BY <1>1, <2>4 DEF agentVars
  <2> QED BY <2>6, <2>8, <2>9, PostInv
<1>6. ASSUME NEW p \in Posts, PostFails(p) \/ ReplyLost(p) PROVE FloorInv'
  BY <1>2, <1>4, <1>6 DEF PostFails, ReplyLost
<1>7. ASSUME NEW p \in Posts, Reply(p) PROVE FloorInv'
  <2>1. /\ post[p].stage = "reply"
        /\ answered' = answered \cup post[p].first..post[p].last
        /\ post' = [post EXCEPT ![p] = NoPost]
        /\ UNCHANGED <<agent, aroster, log, mirrorVars, faults>>
    BY <1>7 DEF Reply
  <2>2. post' \in [Posts -> PostRow] BY <1>1, <1>3, <2>1
  <2>3. \A x \in Posts : post'[x] = post[x] \/ post'[x] = NoPost BY <1>1, <2>1
  <2>4. Served(post[p]) = post[p].first..post[p].last BY <2>1 DEF Served
  <2>5. /\ answered \subseteq answered'
        /\ \A i \in answered' :
             i \in answered \/ \E x \in Posts : post[x].stage # "idle" /\ i \in Served(post[x])
    BY <2>1, <2>4
  <2> QED BY <1>1, <2>1, <2>2, <2>3, <2>5, PostInv
<1>8. ASSUME MainRestarts PROVE FloorInv'
  <2>1. /\ post' = [p \in Posts |-> NoPost] /\ faults' \in 0..MaxFaults
        /\ UNCHANGED <<agentVars, mirrorVars>>
    BY <1>2, <1>8 DEF MainRestarts
  <2>2. post' \in [Posts -> PostRow] /\ \A x \in Posts : post'[x] = NoPost BY <1>3, <2>1
  <2>3. UNCHANGED <<agent, aroster, log, answered, mirrorVars>> BY <2>1 DEF agentVars
  <2> QED BY <2>1, <2>2, <2>3, PostInv
<1> QED BY <1>5, <1>6, <1>7, <1>8

(* A deleted order mirrors nothing any more, and the roster stays.         *)
LEMMA AdminDeletesInv == FloorInv /\ AdminDeletes => FloorInv'
<1> SUFFICES ASSUME FloorInv, AdminDeletes PROVE FloorInv' OBVIOUS
<1>0. FloorTypeOK BY DEF FloorInv
<1>1. UNCHANGED <<agent, aroster, log, answered, post, seen, status, roster, hist, faults>>
  BY DEF AdminDeletes, agentVars
<1>2. PICK os, od, oe, of : order = [status |-> os, driver |-> od, eta |-> oe, floorAt |-> of]
  BY <1>0 DEF FloorTypeOK, OrderRow
<1>3. order' = [order EXCEPT !.status = "deleted"] BY DEF AdminDeletes
<1>4. order' = [status |-> "deleted", driver |-> od, eta |-> oe, floorAt |-> of] BY <1>2, <1>3
<1>5. FloorTypeOK'
  <2>1. order' \in OrderRow BY <1>0, <1>2, <1>4 DEF FloorTypeOK, OrderRow
  <2> QED BY <1>0, <1>1, <2>1 DEF FloorTypeOK
<1>6. LogIsTheAgents' BY <1>1, LogStays DEF FloorInv
<1>7. PostsAreRanges' BY <1>1 DEF FloorInv, PostsAreRanges, PostIsARange, IsOrderEvent
<1>8. ServedIsSeen' BY <1>1 DEF FloorInv, ServedIsSeen, Served
<1>9. HistoryIsSeen' BY <1>1 DEF FloorInv, HistoryIsSeen
<1>10. SeenIsAPrefix' BY <1>1 DEF FloorInv, SeenIsAPrefix
<1>11. AppliedOnce' BY <1>1 DEF FloorInv, AppliedOnce, AppliedInOrder
<1>12. order'.status = "deleted" BY <1>4
<1>13. OrderIsMirrored'
  BY <1>1, <1>12 DEF FloorInv, OrderIsMirrored, LogRoster
<1>14. StatusIsNewest' BY <1>12 DEF StatusIsNewest
<1> QED BY <1>5, <1>6, <1>7, <1>8, <1>9, <1>10, <1>11, <1>13, <1>14 DEF FloorInv

(* FloorInv is inductive.                                                  *)
LEMMA FloorNextInv == FloorInv /\ [FloorNext]_floorVars => FloorInv'
<1> SUFFICES ASSUME FloorInv, [FloorNext]_floorVars PROVE FloorInv' OBVIOUS
<1>1. CASE UNCHANGED floorVars
  <2>1. UNCHANGED <<agent, aroster, log, answered, post, mirrorVars, faults>>
    BY <1>1 DEF floorVars, agentVars
  <2>2. post \in [Posts -> PostRow] /\ faults \in 0..MaxFaults BY DEF FloorInv, FloorTypeOK, PostRow
  <2>3. post' \in [Posts -> PostRow] /\ faults' \in 0..MaxFaults BY <2>1, <2>2
  <2> QED BY <2>1, <2>3, PostInv
<1>2. CASE \/ \E s \in AgentStates, d \in Drivers \cup {None}, t \in Etas \cup {None} : ReportStatus(s, d, t)
           \/ ReportCancelled
           \/ \E a \in {"retry", "cancel"} : ReportNotDelivered(a)
           \/ \E r \in Rosters : ReportRoster(r)
           \/ ReportUnknown
  BY <1>2, AgentInv
<1>3. CASE AgentPosts \/ (\E p \in Posts : PostFails(p) \/ Reply(p) \/ ReplyLost(p)) \/ MainRestarts
  BY <1>3, StartOrEndInv
<1>4. CASE \E p \in Posts : ApplyEvent(p) \/ ApplyRoster(p) \/ ApplySeen(p) \/ KeepAgentStatus(p)
  BY <1>4, ApplyEventInv, RosterOrSeenInv, KeepAgentStatusInv
<1>5. CASE AdminDeletes BY <1>5, AdminDeletesInv
<1> QED BY <1>1, <1>2, <1>3, <1>4, <1>5 DEF FloorNext, ServePost

(* FloorInv holds in every behaviour.                                      *)
LEMMA FloorInvariant == FloorSpec => []FloorInv
<1>1. FloorInit => FloorInv BY FloorInitInv
<1>2. FloorInv /\ [FloorNext]_floorVars => FloorInv' BY FloorNextInv
<1> QED BY <1>1, <1>2, PTL DEF FloorSpec

(* However the POSTs of an agent that starts from its oldest unanswered    *)
(* event overlap, fail and are repeated, an event moves the order at most  *)
(* once, and in the order the agent reported them (floor_repo.go           *)
(* ApplyFloorUpdate).                                                      *)
THEOREM FloorEventsApplyOnce ==
  ASSUME Ordered PROVE FloorSpec => []AppliedInOrder
<1>1. FloorInv => AppliedInOrder BY DEF FloorInv, AppliedOnce
<1> QED BY <1>1, FloorInvariant, PTL

(* When such an agent has an answer for every event, main has its order    *)
(* and its roster, and keeps an agent status no older than any of them,    *)
(* even while a stale POST is still being served (floor.go, service.go     *)
(* Handle).                                                                *)
THEOREM MainMirrorsTheFloor ==
  ASSUME Ordered PROVE FloorSpec => []FloorConverges
<1>1. FloorInv => FloorConverges
  <2> SUFFICES ASSUME FloorInv, answered = 1..Len(log)
               PROVE  /\ roster = aroster
                      /\ order.status # "deleted" =>
                           /\ order.status = FloorStatus(agent.status)
                           /\ order.driver = agent.driver
                           /\ order.eta = agent.eta
                           /\ \A i \in DOMAIN log : IsOrderEvent(log[i]) => log[i].at <= status.at
    BY DEF FloorConverges
  <2>1. log \in Seq(Event) /\ Len(log) \in Nat /\ seen \subseteq 1..Len(log)
    BY DEF FloorInv, FloorTypeOK
  <2>2. seen = 1..Len(log) BY <2>1 DEF FloorInv, ServedIsSeen
  <2>3. agent = LogView(Len(log)) /\ aroster = LogRoster(Len(log)) BY DEF FloorInv, LogIsTheAgents
  <2>4. Len(log) \in 0..Len(log) BY <2>1
  <2>5. /\ roster = aroster
        /\ order.status # "deleted" => Mirrors(order, agent, LogTime(Len(log)))
    BY <2>2, <2>3, <2>4 DEF FloorInv, OrderIsMirrored
  <2>6. order.status # "deleted" => \A i \in DOMAIN log : IsOrderEvent(log[i]) => log[i].at <= status.at
    BY <2>1 DEF FloorInv, StatusIsNewest
  <2> QED BY <2>5, <2>6 DEF Mirrors
<1> QED BY <1>1, FloorInvariant, PTL

(* "Applies updates forward-only (a late or replayed event can't move an   *)
(* order backwards)" (floor.go): whatever order the agent's POSTs arrive   *)
(* in, so without the assumption that it posts its oldest event first.     *)
THEOREM OrderMovesForward == FloorSpec => ForwardOnly
<1> DEFINE Moves == order'.status \notin {order.status, "deleted"} =>
                      /\ order.status # "cancelled"
                      /\ \/ order'.status = "cancelled"
                         \/ floorRank[order'.status] > floorRank[order.status]
                         \/ order'.status = "ready" /\ log[hist'[Len(hist')]].action = "retry"
<1>1. ASSUME FloorInv, NEW p \in Posts, ApplyEvent(p), order'.status \notin {order.status, "deleted"}
      PROVE  /\ order.status # "cancelled"
             /\ \/ order'.status = "cancelled"
                \/ floorRank[order'.status] > floorRank[order.status]
                \/ order'.status = "ready" /\ log[hist'[Len(hist')]].action = "retry"
  <2>0. FloorTypeOK BY <1>1 DEF FloorInv
  <2>1. PICK i : i = post[p].next OBVIOUS
  <2>2. /\ IsOrderEvent(log[i]) /\ order.status # "deleted" /\ post[p].stage = "apply"
        /\ order' = Applied(i)
        /\ hist' = IF order'.status # order.status THEN Append(hist, i) ELSE hist
    BY <1>1, <2>1 DEF ApplyEvent, Applied
  <2>3. /\ i \in 1..Len(log)
    <3>1. post[p] \in PostRow /\ Len(log) \in Nat BY <2>0 DEF FloorTypeOK, PostRow
    <3>2. i \in 0..Len(log) BY <2>1, <3>1 DEF PostRow
    <3>3. 1 <= post[p].first /\ post[p].first <= i BY <1>1, <2>1, <2>2 DEF FloorInv, PostsAreRanges, PostIsARange
    <3>4. post[p].first \in Nat BY <3>1 DEF PostRow
    <3> QED BY <3>1, <3>2, <3>3, <3>4
  <2>4. log[i] \in Event /\ order \in OrderRow BY <2>0, <2>3 DEF FloorTypeOK
  <2>5. hist'[Len(hist')] = i BY <1>1, <2>0, <2>2 DEF FloorTypeOK
  <2>6. i \notin seen BY <1>1, <2>2 DEF Applied, AlreadySeen
  <2>7. CASE log[i].kind = "order.status"
    <3>1. order' = ApplyFloorUpdate(order, log[i]) BY <2>2, <2>6, <2>7 DEF Applied, AlreadySeen
    <3> QED BY <1>1, <2>2, <2>4, <3>1, FloorUpdateFields
  <2>8. CASE log[i].kind # "order.status"
    <3>1. order' = ApplyNotDelivered(order, log[i]) BY <2>2, <2>6, <2>8 DEF Applied, AlreadySeen
    <3>2. CameBack(order, log[i]) BY <1>1, <2>2, <2>4, <3>1, NotDeliveredFields
    <3>3. order'.status = IF log[i].action = "retry" THEN "ready" ELSE "cancelled"
      BY <2>2, <2>4, <3>1, <3>2, NotDeliveredFields
    <3> QED BY <2>5, <3>2, <3>3 DEF CameBack
  <2> QED BY <2>7, <2>8
<1>2. ASSUME FloorInv, AdminDeletes PROVE order'.status = "deleted"
  <2>1. PICK os, od, oe, of : order = [status |-> os, driver |-> od, eta |-> oe, floorAt |-> of]
    BY <1>2 DEF FloorInv, FloorTypeOK, OrderRow
  <2>2. order' = [order EXCEPT !.status = "deleted"] BY <1>2 DEF AdminDeletes
  <2> QED BY <2>1, <2>2
<1>3. ASSUME FloorNext, ~AdminDeletes, \A p \in Posts : ~ApplyEvent(p) PROVE order' = order
  BY <1>3 DEF FloorNext, ReportStatus, ReportCancelled, ReportNotDelivered, ReportRoster, ReportUnknown,
              Report, AgentPosts, StartPost, ServePost, ApplyRoster, ApplySeen, KeepAgentStatus, Reply,
              PostFails, ReplyLost, MainRestarts, mirrorVars
<1>4. FloorInv /\ [FloorNext]_floorVars => [Moves]_floorVars
  BY <1>1, <1>2, <1>3
<1> QED BY <1>4, FloorInvariant, PTL DEF FloorSpec, ForwardOnly

=============================================================================
