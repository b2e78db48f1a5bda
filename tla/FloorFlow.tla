------------------------------ MODULE FloorFlow ------------------------------
(***************************************************************************)
(* The floor flow: a store's agent owns an order's life on the floor and   *)
(* pushes every change to main as a floor event, which main mirrors        *)
(* (app/floor/service.go, domain/order/floor.go,                           *)
(* infra/database/repositories/floor_repo.go).                             *)
(*                                                                         *)
(* The agent is external: it numbers its events, stamps them with a clock  *)
(* that never steps back, and POSTs what main has not answered yet, again  *)
(* and again until it is.  A POST it gave up on may still be running in    *)
(* main, next to its retry.  Ordered says whether the agent always starts  *)
(* from its oldest unanswered event, which main cannot enforce.  One order *)
(* and one driver roster are followed.                                     *)
(*                                                                         *)
(* Faults: failed database calls, lost replies, restarts of main.          *)
(***************************************************************************)
EXTENDS Naturals, Sequences, Faults

CONSTANTS
  Drivers,      \* driver names
  Etas,         \* values of the mirrored kitchen number and ready estimate
  Rosters,      \* values of the driver roster
  None,         \* an absent name, estimate or roster
  Reported,     \* bound: the states the agent's order.status events report
  Ordered,      \* does the agent POST from its oldest unanswered event?
  Posts,        \* floor.events POSTs main can be serving at once
  MaxEvents     \* bound: events the agent reports

AgentStates == {"received", "scheduled", "accepted", "ready", "on_delivery", "delivered", "cancelled"}

ASSUME FloorAssumption ==
  /\ None \notin Drivers \cup Etas \cup Rosters
  /\ Reported \subseteq AgentStates
  /\ Ordered \in BOOLEAN
  /\ MaxEvents \in Nat

VARIABLES
  agent,        \* external: the agent's view of the order
  aroster,      \* external: the agent's roster
  log,          \* external: the events it reported; its outbox
  answered,     \* external: which of them main has answered
  post,         \* main: the POSTs being served
  order,        \* main: the orders row
  seen,         \* main: floor_events_seen
  status,       \* main: agent_status and agent_status_at
  roster,       \* main: the drivers table
  hist          \* main: order_status_events, as the events that wrote them

agentVars == <<agent, aroster, log, answered>>
mirrorVars == <<order, seen, status, roster, hist>>
floorVars == <<agentVars, post, mirrorVars, faults>>

floorRank == [received |-> 0, scheduled |-> 2, accepted |-> 3, ready |-> 5,
              on_delivery |-> 6, completed |-> 7]

(* FloorStatus: the agent's state in main's words.                         *)
FloorStatus(s) == IF s = "delivered" THEN "completed" ELSE s

MainStates == {FloorStatus(s) : s \in AgentStates}

View == [status : AgentStates, driver : Drivers \cup {None}, eta : Etas \cup {None}]

Event == [kind : {"order.status", "order.not_delivered", "drivers.roster", "unknown"},
          action : {None, "retry", "cancel"},
          driver : Drivers \cup {None},
          eta : Etas \cup {None},
          at : Nat,
          view : View,
          roster : Rosters \cup {None}]

OrderRow == [status : MainStates \cup {"deleted"}, driver : Drivers \cup {None},
             eta : Etas \cup {None}, floorAt : Nat]

NoPost == [first |-> 0, next |-> 0, last |-> 0, stage |-> "idle"]

NewView == [status |-> "received", driver |-> None, eta |-> None]

FloorTypeOK ==
  /\ agent \in View
  /\ aroster \in Rosters \cup {None}
  /\ log \in Seq(Event)
  /\ Len(log) <= MaxEvents
  /\ answered \in SUBSET (1..Len(log))
  /\ post \in [Posts -> [first : 0..Len(log), next : 0..Len(log), last : 0..Len(log),
                         stage : {"idle", "apply", "keep", "reply"}]]
  /\ order \in OrderRow
  /\ seen \in SUBSET (1..Len(log))
  /\ status \in [view : View, at : Nat]
  /\ roster \in Rosters \cup {None}
  /\ hist \in Seq(1..Len(log))
  /\ faults \in 0..MaxFaults

FloorInit ==
  /\ agent = NewView
  /\ aroster = None
  /\ log = <<>>
  /\ answered = {}
  /\ post = [p \in Posts |-> NoPost]
  /\ order = [status |-> "received", driver |-> None, eta |-> None, floorAt |-> 0]
  /\ seen = {}
  /\ status = [view |-> NewView, at |-> 0]
  /\ roster = None
  /\ hist = <<>>
  /\ faults = 0

-----------------------------------------------------------------------------
(* The agent (external)                                                    *)

Newest == IF log = <<>> THEN 1 ELSE log[Len(log)].at

(* An event enters the agent's log with the state it leaves the agent in.  *)
Report(kind, action, driver, eta) ==
  /\ Len(log) < MaxEvents
  /\ \E t \in {Newest, Newest + 1} :
       log' = Append(log, [kind |-> kind, action |-> action, driver |-> driver, eta |-> eta,
                           at |-> t, view |-> agent', roster |-> aroster'])
  /\ UNCHANGED <<answered, post, mirrorVars, faults>>

(* The order moves on, skipping steps at will, or stays and gets another   *)
(* driver or estimate.                                                     *)
ReportStatus(s, driver, eta) ==
  /\ agent.status # "cancelled"
  /\ s \in Reported \ {"received", "cancelled"}
  /\ floorRank[FloorStatus(s)] >= floorRank[FloorStatus(agent.status)]
  /\ agent' = [status |-> s,
               driver |-> IF driver = None THEN agent.driver ELSE driver,
               eta |-> IF eta = None THEN agent.eta ELSE eta]
  /\ UNCHANGED aroster
  /\ Report("order.status", None, driver, eta)

(* Never accepted: cancelled when the batch is closed.                     *)
ReportCancelled ==
  /\ agent.status \in {"received", "scheduled"}
  /\ "cancelled" \in Reported
  /\ agent' = [agent EXCEPT !.status = "cancelled"]
  /\ UNCHANGED aroster
  /\ Report("order.status", None, None, None)

(* A delivery came back: it goes out again, or is cancelled.               *)
ReportNotDelivered(action) ==
  /\ \/ agent.status \in {"on_delivery", "delivered"}
     \/ agent.status = "ready" /\ (action = "cancel" \/ agent.driver # None)
  /\ agent' = [agent EXCEPT !.status = IF action = "retry" THEN "ready" ELSE "cancelled",
                            !.driver = None]
  /\ UNCHANGED aroster
  /\ Report("order.not_delivered", action, None, None)

ReportRoster(r) ==
  /\ aroster' = r
  /\ UNCHANGED agent
  /\ Report("drivers.roster", None, None, None)

(* An event of a kind this main does not know.                             *)
ReportUnknown ==
  /\ UNCHANGED <<agent, aroster>>
  /\ Report("unknown", None, None, None)

(* The agent POSTs the events first..last, even when an earlier POST it no *)
(* longer waits for is still being served.                                 *)
StartPost(p, first, last) ==
  /\ post[p] = NoPost
  /\ first \notin answered
  /\ Ordered => last = Len(log) /\ 1..first - 1 \subseteq answered
  /\ post' = [post EXCEPT ![p] = [first |-> first, next |-> first, last |-> last, stage |-> "apply"]]
  /\ UNCHANGED <<agentVars, mirrorVars, faults>>

-----------------------------------------------------------------------------
(* Order.ApplyFloorUpdate and Order.ApplyNotDelivered: what the event does *)
(* to the order; an event that does nothing is stale.                      *)

Cancel(o, u) ==
  IF o.status \in {"received", "scheduled"} THEN [o EXCEPT !.status = "cancelled"] ELSE o

(* The status moves forward whatever the event's time ...                  *)
Forward_AnyRank(o, u) == [o EXCEPT !.status = FloorStatus(u.view.status)]

Forward(o, u) ==
  LET s == FloorStatus(u.view.status)
  IN  IF floorRank[s] > floorRank[o.status] THEN [o EXCEPT !.status = s] ELSE o

(* ... the fields only if the event is not older than the newest applied.  *)
MirrorFields(o, u) ==
  [o EXCEPT !.driver = IF u.driver = None THEN @ ELSE u.driver,
            !.eta = IF u.eta = None THEN @ ELSE u.eta]

ApplyFloorUpdate(o, u) ==
  IF u.view.status = "cancelled" THEN Cancel(o, u)
  ELSE IF o.status = "cancelled" THEN o
  ELSE LET fwd == Forward(o, u)
           new == MirrorFields(fwd, u)
       IN  IF u.at < o.floorAt \/ new = o THEN fwd ELSE [new EXCEPT !.floorAt = u.at]

CameBack(o, u) ==
  /\ u.at >= o.floorAt
  /\ o.status \in {"ready", "on_delivery", "completed"}
  /\ u.action = "retry" => o.status # "ready" \/ o.driver # None

ApplyNotDelivered_KeepsDriver(o, u) ==
  IF CameBack(o, u)
  THEN [o EXCEPT !.status = IF u.action = "retry" THEN "ready" ELSE "cancelled", !.floorAt = u.at]
  ELSE o

ApplyNotDelivered(o, u) ==
  IF CameBack(o, u)
  THEN [o EXCEPT !.status = IF u.action = "retry" THEN "ready" ELSE "cancelled",
                 !.driver = None, !.floorAt = u.at]
  ELSE o

-----------------------------------------------------------------------------
(* main serves a POST one event at a time.                                 *)

Current(p) == log[post[p].next]
IsOrderEvent(e) == e.kind \in {"order.status", "order.not_delivered"}

(* The event is answered for: on to the next one, or to the reply.         *)
NextEvent(p) ==
  LET q == post[p]
  IN  post' = [post EXCEPT ![p] = IF q.next < q.last
                                  THEN [q EXCEPT !.next = q.next + 1, !.stage = "apply"]
                                  ELSE [q EXCEPT !.stage = "reply"]]

(* MarkFloorEventSeen's verdict: zero rows inserted, so a duplicate.       *)
AlreadySeen_Never(i) == FALSE

AlreadySeen(i) == i \in seen

(* OrderRepository.ApplyFloorUpdate: the row is locked, the event applied  *)
(* and recorded, and a duplicate rolled back, in one transaction; then the *)
(* agent's status is kept (a step of its own) whatever the result.         *)
ApplyEvent(p) ==
  LET i == post[p].next
      u == log[i]
      new == IF AlreadySeen(i) THEN order
             ELSE IF u.kind = "order.status" THEN ApplyFloorUpdate(order, u)
             ELSE ApplyNotDelivered(order, u)
  IN  /\ post[p].stage = "apply"
      /\ IsOrderEvent(u)
      /\ order.status # "deleted"
      /\ order' = new
      /\ hist' = IF new.status # order.status THEN Append(hist, i) ELSE hist
      /\ seen' = seen \cup {i}
      /\ post' = [post EXCEPT ![p].stage = "keep"]
      /\ UNCHANGED <<agentVars, status, roster, faults>>

(* ReplaceDrivers: the whole roster, in one transaction, once.             *)
ApplyRoster(p) ==
  LET i == post[p].next
  IN  /\ post[p].stage = "apply"
      /\ log[i].kind = "drivers.roster"
      /\ roster' = IF AlreadySeen(i) THEN roster ELSE log[i].roster
      /\ seen' = seen \cup {i}
      /\ NextEvent(p)
      /\ UNCHANGED <<agentVars, order, status, hist, faults>>

(* seen(): an event main cannot apply (unknown, or its order is deleted)   *)
(* is recorded and answered, so that it does not block the ones behind it. *)
ApplySeen_Blocks(p) == FALSE

ApplySeen(p) ==
  LET i == post[p].next
  IN  /\ post[p].stage = "apply"
      /\ log[i].kind = "unknown" \/ (IsOrderEvent(log[i]) /\ order.status = "deleted")
      /\ seen' = seen \cup {i}
      /\ NextEvent(p)
      /\ UNCHANGED <<agentVars, order, status, roster, hist, faults>>

(* SetOrderAgentStatus: an older status does not overwrite a newer one; a  *)
(* deleted order has no row to update.                                     *)
Keeps(u) == u.at >= status.at /\ order.status # "deleted"

KeepAgentStatus(p) ==
  /\ post[p].stage = "keep"
  /\ status' = IF Keeps(Current(p)) THEN [view |-> Current(p).view, at |-> Current(p).at] ELSE status
  /\ NextEvent(p)
  /\ UNCHANGED <<agentVars, order, seen, roster, hist, faults>>

(* Any database call fails: the whole POST fails and the agent retries.    *)
PostFails(p) ==
  /\ post[p].stage \in {"apply", "keep"}
  /\ Fault
  /\ post' = [post EXCEPT ![p] = NoPost]
  /\ UNCHANGED <<agentVars, mirrorVars>>

(* The results reach the agent, or they are lost or come too late for it.  *)
Reply(p) ==
  /\ post[p].stage = "reply"
  /\ answered' = answered \cup post[p].first..post[p].last
  /\ post' = [post EXCEPT ![p] = NoPost]
  /\ UNCHANGED <<agent, aroster, log, mirrorVars, faults>>

ReplyLost(p) ==
  /\ post[p].stage = "reply"
  /\ Fault
  /\ post' = [post EXCEPT ![p] = NoPost]
  /\ UNCHANGED <<agentVars, mirrorVars>>

MainRestarts ==
  /\ Fault
  /\ post' = [p \in Posts |-> NoPost]
  /\ UNCHANGED <<agentVars, mirrorVars>>

(* Admin deletion of the order (its history goes with it).                 *)
AdminDeletes ==
  /\ order.status # "deleted"
  /\ order' = [order EXCEPT !.status = "deleted"]
  /\ UNCHANGED <<agentVars, post, seen, status, roster, hist, faults>>

AgentPosts ==
  \E p \in Posts : \E first \in 1..Len(log) : \E last \in first..Len(log) : StartPost(p, first, last)

ServePost(p) ==
  \/ ApplyEvent(p) \/ ApplyRoster(p) \/ ApplySeen(p) \/ KeepAgentStatus(p)
  \/ Reply(p)

FloorNext ==
  \/ \E s \in AgentStates, d \in Drivers \cup {None}, t \in Etas \cup {None} : ReportStatus(s, d, t)
  \/ ReportCancelled
  \/ \E a \in {"retry", "cancel"} : ReportNotDelivered(a)
  \/ \E r \in Rosters : ReportRoster(r)
  \/ ReportUnknown
  \/ AgentPosts
  \/ \E p \in Posts : ServePost(p) \/ PostFails(p) \/ ReplyLost(p)
  \/ MainRestarts
  \/ AdminDeletes

(* main serves the POSTs it has, and the agent keeps retrying.             *)
FloorFairness ==
  /\ \A p \in Posts : WF_floorVars(ServePost(p))
  /\ WF_floorVars(AgentPosts)

FloorSpec == FloorInit /\ [][FloorNext]_floorVars /\ FloorFairness

-----------------------------------------------------------------------------
(* However POSTs overlap, fail and are repeated, an event moves the order  *)
(* at most once and events move it in the order the agent reported them    *)
(* (floor_repo.go ApplyFloorUpdate: the row lock and floor_events_seen).   *)
AppliedInOrder ==
  \A i, j \in DOMAIN hist : i < j => hist[i] < hist[j]

(* main is a faithful read model: when every event is answered, the order  *)
(* and the roster are the agent's, even while a stale POST is still being  *)
(* served, and what a replacement agent would restore is a newest status.  *)
FloorConverges ==
  answered = 1..Len(log) =>
    /\ roster = aroster
    /\ order.status # "deleted" =>
         /\ order.status = FloorStatus(agent.status)
         /\ order.driver = agent.driver
         /\ order.eta = agent.eta
         /\ \A i \in DOMAIN log : IsOrderEvent(log[i]) => log[i].at <= status.at

(* floor.go: main "applies updates forward-only (a late or replayed event  *)
(* can't move an order backwards)", even when the agent's POSTs arrive in  *)
(* any order: the one backwards step is a delivery that came back, and a   *)
(* cancelled order stays cancelled.                                        *)
ForwardOnly ==
  [][order'.status \notin {order.status, "deleted"} =>
       /\ order.status # "cancelled"
       /\ \/ order'.status = "cancelled"
          \/ floorRank[order'.status] > floorRank[order.status]
          \/ order'.status = "ready" /\ log[hist'[Len(hist')]].action = "retry"]_floorVars

(* Every event the agent reports is eventually answered: nothing main      *)
(* cannot apply, and no finite run of failures, blocks the agent's sync.   *)
FloorSyncs == []<>(answered = 1..Len(log))

=============================================================================
