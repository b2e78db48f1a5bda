--------------------------- MODULE ChannelTracking ---------------------------
(***************************************************************************)
(* How a channel follows its orders: the outbox dispatcher with the        *)
(* channel-tracking handler (dispatch/handlers/tracking.go), the channel's *)
(* stored events (app/tracking/service.go) and its resumable stream        *)
(* (transport/handler/tracking.go), closed by transactions that write and  *)
(* delete events, other handlers that fail, a database that fails and a    *)
(* main that restarts.                                                     *)
(*                                                                         *)
(* One channel and one client of it are followed; every order is the       *)
(* channel's.  The client is external: it keeps the id of the last event   *)
(* it got and resumes with it.                                             *)
(*                                                                         *)
(* Faults: failures of the database or a handler, restarts of main.        *)
(***************************************************************************)
EXTENDS OutboxDispatcher, FiniteSetsExt, Faults

CONSTANTS
  Tracking,     \* the tracking handler's name in HandlerSeq
  Broken,       \* handlers that fail every time
  Limit         \* events a stream reads at once (100 in the code)

ASSUME TrackingAssumption ==
  /\ Tracking \in Handlers
  /\ Broken \subseteq Handlers \ {Tracking}
  /\ Limit \in Nat \ {0}

VARIABLES
  feed,       \* channel_events: the outbox event each stored row was made from
  aged,       \* the first rows of feed that are older than Retention
  pruned,     \* the first rows of feed that have been deleted
  spc,        \* where the stream handler is
  last,       \* the stream handler's cursor
  cursor,     \* external: the client's Last-Event-ID
  from,       \* ghost: what was stored when a fresh or reset stream started
  checked     \* ghost: what had been pruned when the handler last checked its cursor

feedVars == <<feed, aged, pruned>>
streamVars == <<spc, last, cursor, from, checked>>
trackingVars == <<dispatchVars, feedVars, streamVars, faults>>

MaxFeed == Cardinality(Events) + MaxFaults

TrackingTypeOK ==
  /\ DispatchTypeOK
  /\ feed \in Seq(Events)
  /\ aged \in 0..Len(feed)
  /\ pruned \in 0..aged
  /\ spc \in {"off", "start", "look", "read", "reset"}
  /\ last \in 0..Len(feed)
  /\ cursor \in 0..Len(feed)
  /\ from \in 0..Len(feed)
  /\ checked \in 0..pruned
  /\ faults \in 0..MaxFaults

TrackingInit ==
  /\ DispatchInit
  /\ feed = <<>> /\ aged = 0 /\ pruned = 0
  /\ spc = "off" /\ last = 0
  /\ cursor = 0 /\ from = 0 /\ checked = 0
  /\ faults = 0

Deleted(e) == row[e][Tracking] = "gone"

-----------------------------------------------------------------------------
(* The dispatcher and its surroundings                                     *)

(* A committed transaction; Create wakes the dispatcher, floor updates and *)
(* a crash before the Wake do not.                                         *)
EmitAndWake(e) ==
  /\ \A x \in Events : Aggregate[x] = Aggregate[e] => ~Deleted(x)
  /\ Emit(e)
  /\ wake' \in {wake, TRUE}
  /\ UNCHANGED <<dpc, dh, batch, res, feedVars, streamVars, faults>>

DeleteOrder(a) ==
  /\ Purge({x \in Events : Aggregate[x] = a})
  /\ UNCHANGED <<at, wake, dpc, dh, batch, res, feedVars, streamVars, faults>>

(* Record: the order's state at the event becomes a stored stream event; a *)
(* deleted order has no link to a channel any more and is skipped.         *)
Record_Skips(e) == UNCHANGED feed

Record(e) == feed' = IF Deleted(e) THEN feed ELSE Append(feed, e)

(* Every failure is transient, also one after the insert went through.     *)
TrackingHandle(e) ==
  /\ H = Tracking
  /\ \/ Record(e) /\ Handled(e, "ok") /\ NoFault
     \/ UNCHANGED feed /\ Handled(e, "transient") /\ Fault
     \/ Record(e) /\ Handled(e, "transient") /\ Fault
  /\ UNCHANGED <<aged, pruned, streamVars>>

OtherHandle(e, r) ==
  /\ H # Tracking
  /\ H \in Broken => r # "ok"
  /\ Handled(e, r)
  /\ IF r = "ok" \/ H \in Broken THEN NoFault ELSE Fault
  /\ UNCHANGED <<feedVars, streamVars>>

(* One step of the goroutine, the failures of its database calls included. *)
DispatcherStep ==
  \/ \E e \in Events : TrackingHandle(e) \/ \E r \in Result : OtherHandle(e, r)
  \/ /\ \/ (Tick \/ Poll) /\ NoFault
        \/ PollFails /\ Fault
        \/ \E e \in Events : Mark(e) /\ NoFault
        \/ \E e \in Events : MarkFails(e) /\ Fault
     /\ UNCHANGED <<feedVars, streamVars>>

RetryDue(e, h) == BackoffExpires(e, h) /\ UNCHANGED <<feedVars, streamVars, faults>>

-----------------------------------------------------------------------------
(* The stored events                                                       *)

(* Retention passes for the oldest row.  A running stream polls every 2 s, *)
(* so it has sent the row long before that.                                *)
Age ==
  /\ aged < Len(feed)
  /\ spc = "off" \/ aged < last
  /\ aged' = aged + 1
  /\ UNCHANGED <<dispatchVars, feed, pruned, streamVars, faults>>

(* maintain, every minute.                                                 *)
Prune ==
  /\ pruned' = aged
  /\ UNCHANGED <<dispatchVars, feed, aged, streamVars, faults>>

Has(id) == id \in pruned + 1..Len(feed)
Latest == IF pruned = Len(feed) THEN 0 ELSE Len(feed)

-----------------------------------------------------------------------------
(* The stream                                                              *)

stored == <<dispatchVars, feedVars>>

(* The client connects and is subscribed before anything is read.          *)
Open ==
  /\ spc = "off"
  /\ spc' = "start"
  /\ last' = cursor
  /\ UNCHANGED <<stored, cursor, from, checked, faults>>

(* Without an id, the stream starts from now.                              *)
Start ==
  /\ spc = "start"
  /\ last' = IF last = 0 THEN Latest ELSE last
  /\ from' = IF last = 0 THEN Len(feed) ELSE from
  /\ spc' = "look"
  /\ UNCHANGED <<stored, cursor, checked, faults>>

(* Record's wake, the poll or the keepalive, or a full batch just sent:    *)
(* EventsAfter, whose first query checks the cursor: one that is no longer *)
(* kept is a reset, written to the client at once.                         *)
CursorKept_Unchecked == TRUE

CursorKept == last = 0 \/ Has(last)

CheckCursor ==
  /\ spc = "look"
  /\ checked' = pruned
  /\ spc' = IF CursorKept THEN "read" ELSE "reset"
  /\ UNCHANGED <<stored, last, cursor, from, faults>>

(* EventsAfter's second query and the writes: up to Limit events in order. *)
Unread == {id \in last + 1..Len(feed) : Has(id)}
NextUnread == {id \in Unread : Cardinality({x \in Unread : x < id}) < Limit}

ReadEvents ==
  /\ spc = "read"
  /\ IF NextUnread = {}
     THEN UNCHANGED <<last, cursor, from>>
     ELSE /\ last' = Max(NextUnread)
          /\ cursor' = last'
          /\ from' = 0
  /\ checked' = 0
  /\ spc' = "look"
  /\ UNCHANGED <<stored, faults>>

(* After a reset the client reads its orders again and the stream goes on  *)
(* from the newest event.                                                  *)
Reset_Stays ==
  /\ spc = "reset"
  /\ spc' = "look"
  /\ UNCHANGED <<stored, last, cursor, from, checked, faults>>

Reset ==
  /\ spc = "reset"
  /\ last' = Latest
  /\ from' = Len(feed)
  /\ checked' = 0
  /\ spc' = "look"
  /\ UNCHANGED <<stored, cursor, faults>>

(* The client is gone, or a query failed.  What main still writes before   *)
(* it notices that the client is gone is read by nobody.                   *)
StreamEnds ==
  /\ spc # "off"
  /\ spc' = "off"
  /\ last' = 0
  /\ from' = 0
  /\ checked' = 0
  /\ UNCHANGED <<stored, cursor, faults>>

StreamStep == Start \/ CheckCursor \/ ReadEvents \/ Reset

-----------------------------------------------------------------------------
(* main restarts: the outbox and the stored events survive.                *)
MainRestarts ==
  /\ Fault
  /\ DispatcherRestart
  /\ spc' = "off" /\ last' = 0 /\ from' = 0 /\ checked' = 0
  /\ UNCHANGED <<feedVars, cursor>>

TrackingNext ==
  \/ \E e \in Events : EmitAndWake(e) \/ DeleteOrder(Aggregate[e])
  \/ \E e \in Events, h \in Handlers : RetryDue(e, h)
  \/ DispatcherStep
  \/ Age \/ Prune
  \/ Open \/ StreamStep \/ StreamEnds
  \/ MainRestarts

(* The goroutines run, tickers fire and retry times pass.  Nothing is      *)
(* assumed about the client.                                               *)
TrackingFairness ==
  /\ WF_trackingVars(DispatcherStep)
  /\ \A e \in Events, h \in Handlers : WF_trackingVars(RetryDue(e, h))
  /\ WF_trackingVars(StreamStep)

TrackingSpec == TrackingInit /\ [][TrackingNext]_trackingVars /\ TrackingFairness

-----------------------------------------------------------------------------
(* A tracking row is marked dispatched only after the order's state was    *)
(* stored for the channel (or the order deleted): a failed, skipped or     *)
(* interrupted Handle never consumes the row, whatever polls, restarts and *)
(* backoff resets come in between (dispatcher.go dispatchOne).             *)
DoneWasRecorded ==
  \A e \in Events : row[e][Tracking] = "done" => \E i \in DOMAIN feed : feed[i] = e

(* A handler that keeps failing cannot starve the others (dispatcher.go:   *)
(* "a slow handler can't starve the others"): every row of a handler that  *)
(* works is eventually dispatched or deleted, even when another handler    *)
(* fails for ever on every event and a batch holds a single row.           *)
HandlerDrains ==
  \A e \in Events, h \in Handlers \ Broken : Written(e) ~> row[e][h] \in {"done", "gone"}

(* A resumed stream has no silent gap: when the client's Last-Event-ID     *)
(* moves on, it has received every event since the one it resumed from or  *)
(* was reset to, except one pruned while the resume was being read; one    *)
(* pruned before is announced by a reset (handler/tracking.go Events).     *)
NoSilentGap ==
  [][\A id \in 1..cursor' : id > cursor /\ id > from => id \in NextUnread \/ id \in checked + 1..pruned]_trackingVars

(* A client that stays connected is sent every stored event, whatever      *)
(* resets, prunings and full batches come in between.                      *)
StreamCatchesUp ==
  \A id \in 1..MaxFeed : spc # "off" /\ Len(feed) >= id ~> last >= id \/ pruned >= id \/ spc = "off"

=============================================================================
