--------------------------- MODULE OutboxDispatcher ---------------------------
(***************************************************************************)
(* The transactional outbox and its one dispatcher goroutine:              *)
(* backend/internal/dispatch/dispatcher.go over                            *)
(* infra/database/repositories/outbox_repo.go and the outbox queries of    *)
(* sql/query.sql.                                                          *)
(*                                                                         *)
(* An event is written with one dispatch row per handler, in the           *)
(* transaction of the aggregate change.  Each tick runs the handlers in    *)
(* registration order; each takes a batch of due rows, oldest event first, *)
(* calls Handle and marks the row.  Time is abstracted: a row that failed  *)
(* is backed off until BackoffExpires makes it due, and the ticker may     *)
(* fire whenever the dispatcher is idle.                                   *)
(***************************************************************************)
EXTENDS Naturals, Sequences, FiniteSets

CONSTANTS
  Events,       \* outbox events
  EventScope,   \* the (tenant, location) of each event
  Aggregate,    \* the order each event is about
  HandlerSeq,   \* the handlers' names in registration order
  Batch         \* batchSize (50 in the code)

Handlers == {HandlerSeq[i] : i \in DOMAIN HandlerSeq}

ASSUME DispatcherAssumption ==
  /\ Batch \in Nat \ {0}
  /\ IsFiniteSet(Events)
  /\ HandlerSeq \in Seq(Handlers)
  /\ HandlerSeq # <<>>
  /\ \A i, j \in DOMAIN HandlerSeq : HandlerSeq[i] = HandlerSeq[j] => i = j

VARIABLES
  at,       \* outbox_events.occurred_at as a rank; 0 = not written yet
  row,      \* outbox_dispatches: event -> handler -> state
  wake,     \* the capacity-1 wake channel holds a token
  dpc,      \* where the dispatcher goroutine is
  dh,       \* index of the handler being run
  batch,    \* the PendingEvents still to dispatch for that handler
  res       \* what Handle returned for the oldest of them

dispatchVars == <<at, row, wake, dpc, dh, batch, res>>

RowState == {"none", "due", "backoff", "done", "gone"}
Result == {"ok", "transient", "permanent"}

DispatchTypeOK ==
  /\ at \in [Events -> Nat]
  /\ row \in [Events -> [Handlers -> RowState]]
  /\ wake \in BOOLEAN
  /\ dpc \in {"idle", "poll", "handle", "mark"}
  /\ dh \in DOMAIN HandlerSeq
  /\ batch \in SUBSET Events
  /\ res \in Result

DispatchInit ==
  /\ at = [e \in Events |-> 0]
  /\ row = [e \in Events |-> [h \in Handlers |-> "none"]]
  /\ wake = FALSE
  /\ dpc = "poll"     \* Run ticks once on entry
  /\ dh = 1
  /\ batch = {}
  /\ res = "ok"

H == HandlerSeq[dh]

Written(e) == at[e] # 0

-----------------------------------------------------------------------------
(* The outbox writes of a committed transaction: the event and one row per *)
(* handler (insertOutboxEvent).  Whether a Wake follows is the caller's    *)
(* business.                                                               *)
Emit(e) ==
  /\ ~Written(e)
  /\ at' = [at EXCEPT ![e] = 1 + Cardinality({x \in Events : Written(x)})]
  /\ row' = [row EXCEPT ![e] = [h \in Handlers |-> "due"]]

(* Deleting orders deletes their events; the dispatch rows cascade.        *)
Purge(es) ==
  row' = [e \in Events |-> IF e \in es /\ Written(e) THEN [h \in Handlers |-> "gone"] ELSE row[e]]

(* Wake: a non-blocking send, so concurrent wakes coalesce.                *)
Wake == wake' = TRUE

(* ResetDispatchBackoffForScope: every backed-off row of the scope is due  *)
(* now, for all handlers.                                                  *)
ResetBackoffForScope(s) ==
  row' = [e \in Events |-> [h \in Handlers |->
            IF EventScope[e] = s /\ row[e][h] = "backoff" THEN "due" ELSE row[e][h]]]

(* WakeScope: a failed reset is only logged; the Wake always happens.      *)
WakeScope(s, resetOK) ==
  /\ IF resetOK THEN ResetBackoffForScope(s) ELSE UNCHANGED row
  /\ Wake
  /\ UNCHANGED <<at, dpc, dh, batch, res>>

(* A backed-off row's next_attempt_at passes.                              *)
BackoffExpires(e, h) ==
  /\ row[e][h] = "backoff"
  /\ row' = [row EXCEPT ![e][h] = "due"]
  /\ UNCHANGED <<at, wake, dpc, dh, batch, res>>

-----------------------------------------------------------------------------
(* The select of Run: the ticker, or the wake token.                       *)
Tick ==
  /\ dpc = "idle"
  /\ wake' \in {wake, FALSE}
  /\ dpc' = "poll"
  /\ dh' = 1
  /\ UNCHANGED <<at, row, batch, res>>

(* The end of runHandler: the next handler, or back to the select.         *)
NextHandler_Return ==
  dpc' = "idle" /\ dh' = dh

NextHandler ==
  IF dh < Len(HandlerSeq)
  THEN dpc' = "poll" /\ dh' = dh + 1
  ELSE dpc' = "idle" /\ dh' = dh

(* PendingEventsForHandler: the Batch oldest events with a due row.        *)
Due(h) == {e \in Events : row[e][h] = "due"}

Pending(h) == {e \in Due(h) : Cardinality({x \in Due(h) : at[x] < at[e]}) < Batch}

Poll ==
  /\ dpc = "poll"
  /\ batch' = Pending(H)
  /\ IF batch' = {} THEN NextHandler ELSE dpc' = "handle" /\ UNCHANGED dh
  /\ UNCHANGED <<at, row, wake, res>>

(* The query fails: the handler is skipped until the next tick.            *)
PollFails ==
  /\ dpc = "poll"
  /\ NextHandler
  /\ UNCHANGED <<at, row, wake, batch, res>>

(* dispatchOne goes through the batch oldest event first.                  *)
IsNext(e) == e \in batch /\ \A x \in batch : at[e] <= at[x]

(* Handle returned r for event e.                                          *)
Handled(e, r) ==
  /\ dpc = "handle"
  /\ IsNext(e)
  /\ res' = r
  /\ dpc' = "mark"
  /\ UNCHANGED <<at, row, wake, dh, batch>>

(* The row MarkDispatched or MarkFailed writes; an UPDATE of a deleted row *)
(* touches nothing.                                                        *)
Marked(st) ==
  CASE st = "gone" -> "gone"
    [] st # "gone" /\ res = "ok" -> "done"
    [] st # "gone" /\ res # "ok" -> "backoff"

AfterMark(e) ==
  /\ batch' = batch \ {e}
  /\ IF batch' = {} THEN NextHandler ELSE dpc' = "handle" /\ UNCHANGED dh
  /\ res' = "ok"
  /\ UNCHANGED <<at, wake>>

Mark(e) ==
  /\ dpc = "mark"
  /\ IsNext(e)
  /\ row' = [row EXCEPT ![e][H] = Marked(@)]
  /\ AfterMark(e)

(* The write fails: the row stays due, so an event that was handled will   *)
(* be handled once more.                                                   *)
MarkFails(e) ==
  /\ dpc = "mark"
  /\ IsNext(e)
  /\ UNCHANGED row
  /\ AfterMark(e)

(* main restarts: the outbox survives, the goroutine's state does not.     *)
DispatcherRestart ==
  /\ wake' = FALSE
  /\ dpc' = "poll"
  /\ dh' = 1
  /\ batch' = {}
  /\ res' = "ok"
  /\ UNCHANGED <<at, row>>

=============================================================================
