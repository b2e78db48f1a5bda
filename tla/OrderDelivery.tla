---------------------------- MODULE OrderDelivery ----------------------------
(***************************************************************************)
(* How a persisted order reaches its store's agent: the outbox dispatcher  *)
(* with the SSE handler (dispatch/handlers/sse.go), the broker, the stream *)
(* handlers (transport/handler/sse.go) and the acknowledgement and         *)
(* redelivery loop (app/agentsync/agentsync.go), interleaved with agents   *)
(* that connect, lose their connection and acknowledge, admin deletions    *)
(* and restarts of main.                                                   *)
(*                                                                         *)
(* An order's outbox event, its frame and the order itself are one value:  *)
(* the SSE handler only publishes order.received, one per order.           *)
(*                                                                         *)
(* Faults: database failures, lost acks and restarts of main.              *)
(***************************************************************************)
EXTENDS SseBroker, OutboxDispatcher, Faults

CONSTANTS
  SSE,          \* the SSE handler; the others run beside it in ChannelTracking
  MaxRows,      \* RunRedeliver's LIMIT (200 in the code), over all stores
  Mortal        \* bound: the orders that may be deleted or outlive the 12 h window

ASSUME DeliveryAssumption ==
  /\ Frames = Events
  /\ FrameScope = EventScope
  /\ HandlerSeq = <<SSE>>
  /\ MaxRows \in Nat \ {0}

Orders == Events
OrderScope == EventScope

VARIABLES
  ord,        \* orders rows: status, age since received_at, agent_ack_at set
  conn,       \* per connection: "off", "waking" (inside SubscribeAs), "live", "cut"
  kept,       \* external: the orders each store's agent has stored
  acks,       \* external: order.ack reports on their way to main
  pass,       \* RunRedeliver: a pass over the unacked rows is under way
  scan,       \* RunRedeliver: rows of this pass still to look at
  listed,     \* RunRedeliver: the rows of this pass (seen)
  recent      \* RunRedeliver: lastSent entries younger than RedeliverAfter

redeliverVars == <<pass, scan, listed, recent>>
deliveryVars == <<brokerVars, dispatchVars, ord, conn, kept, acks, redeliverVars, faults>>

NoOrder == [status |-> "none", age |-> "fresh", acked |-> FALSE]

OrderRow == [status : {"none", "received", "advanced", "deleted"},
             age : {"fresh", "due", "expired"},
             acked : BOOLEAN]

DeliveryTypeOK ==
  /\ BrokerTypeOK
  /\ DispatchTypeOK
  /\ ord \in [Orders -> OrderRow]
  /\ conn \in [Conns -> {"off", "waking", "live", "cut"}]
  /\ kept \in [Scopes -> SUBSET Orders]
  /\ acks \in SUBSET Orders
  /\ pass \in BOOLEAN
  /\ scan \in SUBSET Orders
  /\ listed \in SUBSET Orders
  /\ recent \in SUBSET Orders
  /\ faults \in 0..MaxFaults

DeliveryInit ==
  /\ BrokerInit
  /\ DispatchInit
  /\ ord = [o \in Orders |-> NoOrder]
  /\ conn = [c \in Conns |-> "off"]
  /\ kept = [s \in Scopes |-> {}]
  /\ acks = {}
  /\ pass = FALSE
  /\ scan = {}
  /\ listed = {}
  /\ recent = {}
  /\ faults = 0

Exists(o) == ord[o].status \in {"received", "advanced"}

-----------------------------------------------------------------------------
(* Orders                                                                  *)

(* OrderRepository.Create in one transaction, then Service.Create's Wake.  *)
CreateOrder(o) ==
  /\ ord[o].status = "none"
  /\ ord' = [ord EXCEPT ![o].status = "received"]
  /\ Emit(o)
  /\ Wake
  /\ UNCHANGED <<brokerVars, dpc, dh, batch, res, conn, kept, acks, redeliverVars, faults>>

(* Admin deletion of an order with its outbox rows, in one transaction.    *)
DeleteOrder(o) ==
  /\ Exists(o) /\ o \in Mortal
  /\ ord' = [ord EXCEPT ![o].status = "deleted"]
  /\ Purge({o})
  /\ UNCHANGED <<brokerVars, at, wake, dpc, dh, batch, res, conn, kept, acks, redeliverVars, faults>>

(* The agent's floor report moves the order past 'received'; its status    *)
(* may also stamp agent_ack_at (SetAgentStatus).                           *)
FloorUpdate(o) ==
  /\ ord[o].status = "received"
  /\ o \in kept[OrderScope[o]]
  /\ \E a \in {ord[o].acked, TRUE} :
       ord' = [ord EXCEPT ![o].status = "advanced", ![o].acked = a]
  /\ UNCHANGED <<brokerVars, dispatchVars, conn, kept, acks, redeliverVars, faults>>

(* received_at falls out of the RedeliverAfter window, then of the 12 h    *)
(* redelivery window.                                                      *)
BecomeDue(o) ==
  /\ Exists(o) /\ ord[o].age = "fresh"
  /\ ord' = [ord EXCEPT ![o].age = "due"]
  /\ UNCHANGED <<brokerVars, dispatchVars, conn, kept, acks, redeliverVars, faults>>

Expire(o) ==
  /\ Exists(o) /\ ord[o].age = "due" /\ o \in Mortal
  /\ ord' = [ord EXCEPT ![o].age = "expired"]
  /\ UNCHANGED <<brokerVars, dispatchVars, conn, kept, acks, redeliverVars, faults>>

-----------------------------------------------------------------------------
(* Streams                                                                 *)

(* An agent connects to the stream of its own store: StreamOrders reaches  *)
(* SubscribeAs, which registers the channel first ...                      *)
Connect(c, s) ==
  /\ conn[c] = "off"
  /\ SubscribeAs(c, s, NilDevice)
  /\ conn' = [conn EXCEPT ![c] = "waking"]
  /\ UNCHANGED <<dispatchVars, ord, kept, acks, redeliverVars, faults>>

(* ... and then, outside the lock, resets the scope's backoff and wakes.   *)
Woken(c) ==
  /\ conn[c] = "waking"
  /\ \/ WakeScope(handler[c].scope, TRUE) /\ NoFault
     \/ WakeScope(handler[c].scope, FALSE) /\ Fault
  /\ conn' = [conn EXCEPT ![c] = "live"]
  /\ UNCHANGED <<brokerVars, ord, kept, acks, redeliverVars>>

(* The TCP connection dies; main only notices later, and until then counts *)
(* the stream as a subscriber and writes its frames nowhere.               *)
ConnectionLost(c) ==
  /\ conn[c] = "live"
  /\ conn' = [conn EXCEPT ![c] = "cut"]
  /\ UNCHANGED <<brokerVars, dispatchVars, ord, kept, acks, redeliverVars, faults>>

StreamEnds(c) ==
  /\ conn[c] = "cut"
  /\ ClientGone(c)
  /\ conn' = [conn EXCEPT ![c] = "off"]
  /\ UNCHANGED <<dispatchVars, ord, kept, acks, redeliverVars, faults>>

(* The handler writes the next frame (write errors are ignored).  Over a   *)
(* live connection the agent stores the order, again if it had it, and     *)
(* acknowledges it.                                                        *)
WriteFrame_IsAck(c) ==
  /\ conn[c] \in {"live", "cut"}
  /\ Take(c)
  /\ kept' = [kept EXCEPT ![handler[c].scope] = IF conn[c] = "live" THEN @ \cup {Head(buf[c])} ELSE @]
  /\ ord' = [ord EXCEPT ![Head(buf[c])].acked = TRUE]
  /\ UNCHANGED <<dispatchVars, conn, acks, redeliverVars, faults>>

WriteFrame(c) ==
  /\ conn[c] \in {"live", "cut"}
  /\ Take(c)
  /\ IF conn[c] = "live"
     THEN /\ kept' = [kept EXCEPT ![handler[c].scope] = @ \cup {Head(buf[c])}]
          /\ acks' = acks \cup {Head(buf[c])}
     ELSE UNCHANGED <<kept, acks>>
  /\ UNCHANGED <<dispatchVars, ord, conn, redeliverVars, faults>>

(* HandleAck: MarkOrdersAcked stamps the order unless it is gone.          *)
HandleAck(o) ==
  /\ o \in acks
  /\ acks' = acks \ {o}
  /\ ord' = [ord EXCEPT ![o].acked = @ \/ Exists(o)]
  /\ UNCHANGED <<brokerVars, dispatchVars, conn, kept, redeliverVars, faults>>

AckLost(o) ==
  /\ o \in acks
  /\ Fault
  /\ acks' = acks \ {o}
  /\ UNCHANGED <<brokerVars, dispatchVars, ord, conn, kept, redeliverVars>>

-----------------------------------------------------------------------------
(* Dispatcher                                                              *)

unrelated == <<ord, conn, kept, acks, redeliverVars>>

(* Publish an order to its own scope, remembering whether any stream had   *)
(* room for it.                                                            *)
PublishOrder(o) == Publish(OrderScope[o], o)

(* What SSE.Handle returns: transient unless some stream took the frame    *)
(* (no subscriber, or every buffer full).                                  *)
SSEResult(o) == IF Reached(OrderScope[o]) = {} THEN "transient" ELSE "ok"

SSEHandle(o) ==
  /\ H = SSE
  /\ PublishOrder(o)
  /\ Handled(o, SSEResult(o))
  /\ NoFault
  /\ UNCHANGED unrelated

DispatcherStep ==
  \/ \E o \in Orders : SSEHandle(o)
  \/ /\ \/ (Tick \/ Poll) /\ NoFault
        \/ PollFails /\ Fault
        \/ \E o \in Orders : Mark(o) /\ NoFault
        \/ \E o \in Orders : MarkFails(o) /\ Fault
     /\ UNCHANGED <<unrelated, brokerVars>>

RetryDue(o) ==
  /\ \E h \in Handlers : BackoffExpires(o, h)
  /\ UNCHANGED <<unrelated, brokerVars, faults>>

-----------------------------------------------------------------------------
(* Redelivery                                                              *)

Unacked == {o \in Orders : ord[o].status = "received" /\ ~ord[o].acked /\ ord[o].age = "due"}

(* Mutant: without the lower end of the 12 h window.                       *)
ListUnackedOrders_NoWindow ==
  LET old == {o \in Orders : ord[o].status = "received" /\ ~ord[o].acked /\ ord[o].age # "fresh"}
  IN  {o \in old : Cardinality({x \in old : at[x] < at[o]}) < MaxRows}

(* ListUnackedOrders: the MaxRows oldest, whatever store they belong to.   *)
ListUnackedOrders == {o \in Unacked : Cardinality({x \in Unacked : at[x] < at[o]}) < MaxRows}

RedeliverStart ==
  /\ ~pass
  /\ pass' = TRUE
  /\ listed' = ListUnackedOrders
  /\ scan' = listed'
  /\ UNCHANGED <<brokerVars, dispatchVars, ord, conn, kept, acks, recent, faults>>

(* The next row of the pass: skipped when it was sent a moment ago or its  *)
(* store has no stream; otherwise loaded and published again.              *)
Resend_Never(o) == FALSE

Resend(o) == o \notin recent /\ SubscribersFor(OrderScope[o]) # 0 /\ Exists(o)

RedeliverRow(o) ==
  /\ pass /\ o \in scan
  /\ \A x \in scan : at[o] <= at[x]
  /\ IF Resend(o)
     THEN /\ PublishOrder(o)
          /\ recent' = IF Reached(OrderScope[o]) # {} THEN recent \cup {o} ELSE recent
     ELSE UNCHANGED <<brokerVars, recent>>
  /\ scan' = scan \ {o}
  /\ UNCHANGED <<dispatchVars, ord, conn, kept, acks, pass, listed, faults>>

(* The load of the row's order fails: it is left for the next pass.        *)
RedeliverLoadFails(o) ==
  /\ pass /\ o \in scan
  /\ \A x \in scan : at[o] <= at[x]
  /\ Fault
  /\ scan' = scan \ {o}
  /\ UNCHANGED <<brokerVars, dispatchVars, ord, conn, kept, acks, pass, listed, recent>>

(* The end of the pass forgets the orders it did not list.                 *)
RedeliverEnd ==
  /\ pass /\ scan = {}
  /\ pass' = FALSE
  /\ recent' = recent \cap listed
  /\ listed' = {}
  /\ UNCHANGED <<brokerVars, dispatchVars, ord, conn, kept, acks, scan, faults>>

RedeliverStep ==
  \/ RedeliverStart
  \/ \E o \in Orders : RedeliverRow(o) \/ RedeliverLoadFails(o)
  \/ RedeliverEnd

(* RedeliverAfter passes since the last send.                              *)
RecentPasses(o) ==
  /\ o \in recent
  /\ recent' = recent \ {o}
  /\ UNCHANGED <<brokerVars, dispatchVars, ord, conn, kept, acks, pass, scan, listed, faults>>

-----------------------------------------------------------------------------
(* main restarts: streams, dispatcher and redelivery start from nothing;   *)
(* reports in flight may be lost.                                          *)
MainRestarts ==
  /\ Fault
  /\ DispatcherRestart
  /\ BrokerRestart
  /\ conn' = [c \in Conns |-> "off"]
  /\ acks' \in SUBSET acks
  /\ pass' = FALSE /\ scan' = {} /\ listed' = {} /\ recent' = {}
  /\ UNCHANGED <<ord, kept>>

DeliveryNext ==
  \/ \E o \in Orders :
       \/ CreateOrder(o) \/ DeleteOrder(o) \/ FloorUpdate(o) \/ BecomeDue(o) \/ Expire(o)
       \/ HandleAck(o) \/ AckLost(o) \/ RetryDue(o) \/ RecentPasses(o)
  \/ \E c \in Conns :
       \/ \E s \in Scopes : Connect(c, s)
       \/ Woken(c) \/ ConnectionLost(c) \/ StreamEnds(c) \/ WriteFrame(c)
  \/ DispatcherStep
  \/ RedeliverStep
  \/ MainRestarts

(* The goroutines of main run, its timers fire, and reports that are not   *)
(* lost arrive.  Nothing is assumed about agents: they need not connect.   *)
DeliveryFairness ==
  /\ WF_deliveryVars(DispatcherStep)
  /\ WF_deliveryVars(RedeliverStep)
  /\ \A c \in Conns : WF_deliveryVars(Woken(c) \/ WriteFrame(c))
  /\ \A c \in Conns : WF_deliveryVars(StreamEnds(c))
  /\ \A o \in Orders : /\ WF_deliveryVars(RetryDue(o))
                       /\ WF_deliveryVars(BecomeDue(o))
                       /\ WF_deliveryVars(RecentPasses(o))
                       /\ WF_deliveryVars(HandleAck(o))

DeliverySpec == DeliveryInit /\ [][DeliveryNext]_deliveryVars /\ DeliveryFairness

-----------------------------------------------------------------------------
Settled(o) == ord[o].acked \/ ord[o].status \in {"advanced", "deleted"} \/ ord[o].age = "expired"

(* Unacked orders of other stores alone fill the limit of the redelivery   *)
(* query, so that an order may never be listed.                            *)
CrowdedOut(o) == Cardinality({x \in Unacked : OrderScope[x] # OrderScope[o]}) >= MaxRows

(* The delivery guarantee of agentsync.go, as far as it goes: once a       *)
(* store's agent keeps one connection up, and orders of other stores no    *)
(* longer fill the redelivery limit, every order persisted for it is       *)
(* eventually acknowledged (or moved on, deleted, or past the 12 h         *)
(* window), whatever frames and acks were lost on the way.                 *)
DeliveryGuarantee ==
  \A o \in Orders, c \in Conns :
    <>[](c \in clients[OrderScope[o]] /\ conn[c] = "live" /\ ~CrowdedOut(o))
      => <>[](ord[o].status = "received" => Settled(o))

(* Delivery implements its contract: an order is placed once, by a commit; *)
(* its own store's agent holds it only after that and for good; and main   *)
(* takes it for acknowledged only when that agent holds it, once.          *)
Contract == INSTANCE DeliveryContract WITH
  placed <- {o \in Orders : ord[o].status # "none"},
  held <- {o \in Orders : o \in kept[OrderScope[o]]},
  confirmed <- {o \in Orders : ord[o].acked}

MeetsContract == Contract!ContractSpec

=============================================================================
