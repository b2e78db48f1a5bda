------------------------------ MODULE SqsIngest ------------------------------
(***************************************************************************)
(* Order intake from SQS: infra/sqs/consumer.go (Start, processMessage,    *)
(* deleteMessage) with Service.Create and OrderRepository.Create.          *)
(*                                                                         *)
(* The queue is external: a standard SQS queue delivers a message at least *)
(* once, makes it visible again when its visibility timeout passes before  *)
(* it is deleted (also while a consumer is still working on it), and moves *)
(* it to the dead-letter queue after MaxReceive receives.  Consumers are   *)
(* the loops of the main instances that run at once, as in a deploy.       *)
(*                                                                         *)
(* Faults: failures of the database or of DeleteMessage, restarts and      *)
(* admin deletions.                                                        *)
(***************************************************************************)
EXTENDS Naturals, FiniteSets, Faults

CONSTANTS
  Messages,       \* messages producers send
  Order,          \* the (tenant, source, source_event_id) each one carries
  Uncastable,     \* messages without scope, of an unknown source, or that no caster can read
  Consumers,      \* running instances of main
  MaxMessages,    \* MaxNumberOfMessages of a receive (10 in the code)
  MaxReceive      \* external: the queue's maxReceiveCount

ASSUME IngestAssumption ==
  /\ IsFiniteSet(Messages)
  /\ Uncastable \subseteq Messages
  /\ MaxMessages \in Nat \ {0}
  /\ MaxReceive \in Nat \ {0}

VARIABLES
  queue,      \* external: where each message is
  received,   \* external: how often it has been received
  cpc,        \* per consumer: "poll", "process" or "delete"
  todo,       \* per consumer: messages of the last receive still to process
  current,    \* per consumer: the message whose order was saved or found saved
  orders,     \* the orders table, by unique key
  inserts,    \* ghost: orders rows ever inserted, per key
  deletes     \* ghost: orders rows ever deleted, per key

queueVars == <<queue, received>>
consumerVars == <<cpc, todo, current>>
tableVars == <<orders, inserts, deletes>>
ingestVars == <<queueVars, consumerVars, tableVars, faults>>

OrderKeys == {Order[m] : m \in Messages}

IngestTypeOK ==
  /\ queue \in [Messages -> {"unsent", "visible", "inflight", "deleted", "dlq"}]
  /\ received \in [Messages -> 0..MaxReceive]
  /\ cpc \in [Consumers -> {"poll", "process", "delete"}]
  /\ todo \in [Consumers -> SUBSET Messages]
  /\ \A c \in Consumers : Cardinality(todo[c]) <= MaxMessages
  /\ current \in [Consumers -> SUBSET Messages]
  /\ orders \in SUBSET OrderKeys
  /\ inserts \in [OrderKeys -> Nat]
  /\ deletes \in [OrderKeys -> Nat]
  /\ faults \in 0..MaxFaults

IngestInit ==
  /\ queue = [m \in Messages |-> "unsent"]
  /\ received = [m \in Messages |-> 0]
  /\ cpc = [c \in Consumers |-> "poll"]
  /\ todo = [c \in Consumers |-> {}]
  /\ current = [c \in Consumers |-> {}]
  /\ orders = {}
  /\ inserts = [k \in OrderKeys |-> 0]
  /\ deletes = [k \in OrderKeys |-> 0]
  /\ faults = 0

-----------------------------------------------------------------------------
(* The queue (external)                                                    *)

Send(m) ==
  /\ queue[m] = "unsent"
  /\ queue' = [queue EXCEPT ![m] = "visible"]
  /\ UNCHANGED <<received, consumerVars, tableVars, faults>>

VisibilityTimeout(m) ==
  /\ queue[m] = "inflight"
  /\ queue' = [queue EXCEPT ![m] = IF received[m] < MaxReceive THEN "visible" ELSE "dlq"]
  /\ UNCHANGED <<received, consumerVars, tableVars, faults>>

-----------------------------------------------------------------------------
(* The consumer loop                                                       *)

(* A long poll returns up to MaxMessages messages.                         *)
Receivable(ms) == ms # {} /\ Cardinality(ms) <= MaxMessages

Receive(c) ==
  /\ cpc[c] = "poll"
  /\ \E ms \in SUBSET {m \in Messages : queue[m] = "visible"} :
       /\ Receivable(ms)
       /\ queue' = [m \in Messages |-> IF m \in ms THEN "inflight" ELSE queue[m]]
       /\ received' = [m \in Messages |-> IF m \in ms THEN received[m] + 1 ELSE received[m]]
       /\ todo' = [todo EXCEPT ![c] = ms]
  /\ cpc' = [cpc EXCEPT ![c] = "process"]
  /\ UNCHANGED <<current, tableVars, faults>>

(* A receive that fails or finds nothing only changes how long the loop    *)
(* waits for the next one.                                                 *)
ReceiveNothing(c) == cpc[c] = "poll" /\ UNCHANGED ingestVars

(* On to the next message, or the next receive.                            *)
NextMessage(c, rest) ==
  /\ todo' = [todo EXCEPT ![c] = rest]
  /\ current' = [current EXCEPT ![c] = {}]
  /\ cpc' = [cpc EXCEPT ![c] = IF rest = {} THEN "poll" ELSE "process"]

(* processMessage leaves the message alone: it cannot be cast, or routing  *)
(* or saving it failed.  SQS will redrive it.                              *)
LeaveForRedrive_Deletes(c, m) ==
  /\ cpc[c] = "process" /\ m \in todo[c]
  /\ IF m \in Uncastable THEN NoFault ELSE Fault
  /\ queue' = [queue EXCEPT ![m] = "deleted"]
  /\ NextMessage(c, todo[c] \ {m})
  /\ UNCHANGED <<received, tableVars>>

LeaveForRedrive_Retries(c, m) ==
  /\ cpc[c] = "process" /\ m \in todo[c]
  /\ IF m \in Uncastable THEN NoFault ELSE Fault
  /\ NextMessage(c, todo[c])
  /\ UNCHANGED <<queueVars, tableVars>>

LeaveForRedrive(c, m) ==
  /\ cpc[c] = "process" /\ m \in todo[c]
  /\ IF m \in Uncastable THEN NoFault ELSE Fault
  /\ NextMessage(c, todo[c] \ {m})
  /\ UNCHANGED <<queueVars, tableVars>>

(* Create: one insert per key; ErrDuplicate when the row exists.           *)
Duplicate_Unchecked(m) == FALSE

Duplicate(m) == Order[m] \in orders

Create(c, m) ==
  /\ cpc[c] = "process" /\ m \in todo[c] \ Uncastable
  /\ orders' = orders \cup {Order[m]}
  /\ inserts' = IF Duplicate(m) THEN inserts ELSE [inserts EXCEPT ![Order[m]] = @ + 1]
  /\ current' = [current EXCEPT ![c] = {m}]
  /\ cpc' = [cpc EXCEPT ![c] = "delete"]
  /\ UNCHANGED <<queueVars, todo, deletes, faults>>

(* The commit went through but its confirmation was lost: to the consumer  *)
(* a failed save, so the message stays on the queue.                       *)
CreateUnconfirmed(c, m) ==
  /\ cpc[c] = "process" /\ m \in todo[c] \ Uncastable
  /\ ~Duplicate(m)
  /\ Fault
  /\ orders' = orders \cup {Order[m]}
  /\ inserts' = [inserts EXCEPT ![Order[m]] = @ + 1]
  /\ NextMessage(c, todo[c] \ {m})
  /\ UNCHANGED <<queueVars, deletes>>

(* deleteMessage after a save or a duplicate.  A message that became       *)
(* visible or was received again meanwhile is deleted by its old handle;   *)
(* a failure is only logged.                                               *)
DeleteMessage(c, m) ==
  /\ cpc[c] = "delete" /\ m \in current[c]
  /\ \/ /\ queue' = [queue EXCEPT ![m] = IF @ = "dlq" THEN @ ELSE "deleted"]
        /\ NoFault
     \/ UNCHANGED queue /\ Fault
  /\ NextMessage(c, todo[c] \ {m})
  /\ UNCHANGED <<received, tableVars>>

(* Admin deletion of an order.                                             *)
DeleteOrder(k) ==
  /\ k \in orders
  /\ Fault
  /\ orders' = orders \ {k}
  /\ deletes' = [deletes EXCEPT ![k] = @ + 1]
  /\ UNCHANGED <<queueVars, consumerVars, inserts>>

ConsumerRestarts(c) ==
  /\ Fault
  /\ cpc' = [cpc EXCEPT ![c] = "poll"]
  /\ todo' = [todo EXCEPT ![c] = {}]
  /\ current' = [current EXCEPT ![c] = {}]
  /\ UNCHANGED <<queueVars, tableVars>>

ProcessStep(c) ==
  \E m \in Messages : LeaveForRedrive(c, m) \/ Create(c, m) \/ CreateUnconfirmed(c, m) \/ DeleteMessage(c, m)

IngestNext ==
  \/ \E m \in Messages : Send(m) \/ VisibilityTimeout(m)
  \/ \E c \in Consumers : Receive(c) \/ ReceiveNothing(c) \/ ProcessStep(c) \/ ConsumerRestarts(c)
  \/ \E k \in OrderKeys : DeleteOrder(k)

(* Some consumer keeps polling and SQS answers now and then, a message     *)
(* being processed is processed to its end, visibility timeouts pass.      *)
IngestFairness ==
  /\ WF_ingestVars(\E c \in Consumers : Receive(c))
  /\ \A c \in Consumers : WF_ingestVars(ProcessStep(c))
  /\ \A m \in Messages : WF_ingestVars(VisibilityTimeout(m))

IngestSpec == IngestInit /\ [][IngestNext]_ingestVars /\ IngestFairness

-----------------------------------------------------------------------------
(* A message leaves the queue for good only once its order has been saved: *)
(* no crash, failed cast, failed save, failed delete or overlapping        *)
(* consumer loses an order (consumer.go processMessage).                   *)
DeletedWasSaved ==
  \A m \in Messages : queue[m] = "deleted" => inserts[Order[m]] > 0

(* An order is saved once however often its message is delivered and by    *)
(* however many consumers at once; only an admin's deletion makes room for *)
(* a second row (order_repo.go Create, unique key).                        *)
SavedOnce ==
  \A k \in OrderKeys : inserts[k] = deletes[k] + (IF k \in orders THEN 1 ELSE 0)

(* consumer.go: what cannot be cast "will ... eventually land in the DLQ", *)
(* and everything else is saved and deleted or ends there too: no message  *)
(* circulates for ever.                                                    *)
QueueDrains ==
  \A m \in Messages : queue[m] = "visible" ~> queue[m] \in {"deleted", "dlq"}

=============================================================================
