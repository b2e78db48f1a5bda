------------------------ MODULE ChannelTrackingProofs ------------------------
(* What the outbox dispatcher and the channel's stream promise, for any      *)
(* number of events, handlers, streams and restarts: no tracking row is used *)
(* up before its state is stored, and no resumed stream skips an event       *)
(* silently.                                                                 *)
EXTENDS ChannelTracking, FiniteSetTheorems, WellFoundedInduction, TLAPS

WrittenEvents == {x \in Events : Written(x)}

(* The ranks of the events order them: no two are equal, none is above their *)
(* number, and only a written event has rows or is in a batch.               *)
RanksAreBounded == \A x \in Events : at[x] <= Cardinality(WrittenEvents)
RanksDiffer == \A x, y \in Events : Written(x) /\ at[x] = at[y] => x = y
RowsAreWritten == \A x \in Events : \A h \in Handlers : row[x][h] # "none" => Written(x)
BatchIsWritten == \A x \in batch : Written(x)

IsStored(e) == \E i \in DOMAIN feed : feed[i] = e

(* The event whose row is about to be marked dispatched has been stored,     *)
(* unless its order is gone.                                                 *)
HandledWasStored ==
  dpc = "mark" /\ H = Tracking /\ res = "ok" =>
    \A e \in Events : IsNext(e) => Deleted(e) \/ IsStored(e)

(* The handler's cursor is not ahead of the client but for a fresh start,    *)
(* what such a start has left out includes all that can be pruned while the  *)
(* stream has no cursor, and a cursor that passed the check was kept.        *)
CursorIsTheClients == spc # "off" => last <= cursor \/ last <= from
FreshSkipsPruned == spc \in {"look", "read", "reset"} /\ last = 0 => aged <= from
ReadIsChecked == spc = "read" => last = 0 \/ last > checked

TrackingInv ==
  /\ TrackingTypeOK
  /\ RanksAreBounded
  /\ RanksDiffer
  /\ RowsAreWritten
  /\ BatchIsWritten
  /\ HandledWasStored
  /\ DoneWasRecorded
  /\ CursorIsTheClients
  /\ FreshSkipsPruned
  /\ ReadIsChecked

-----------------------------------------------------------------------------
(* A non-empty set of naturals that has a bound has a greatest element, and  *)
(* Max is it.                                                                *)
LEMMA MaxIsGreatest ==
  ASSUME NEW S \in SUBSET Nat, NEW n \in Nat, \A s \in S : s <= n, S # {}
  PROVE  Max(S) \in S /\ \A y \in S : y <= Max(S)
<1> DEFINE T == {n - s : s \in S}
<1>1. T \in SUBSET Nat BY Z3
<1>2. T # {}
  <2>1. PICK s \in S : TRUE OBVIOUS
  <2>2. n - s \in T OBVIOUS
  <2> QED BY <2>2
<1>3. PICK t \in T : \A u \in T : ~(<<u, t>> \in OpToRel(<, Nat))
  BY <1>1, <1>2, NatLessThanWellFounded, WFMin
<1>4. PICK x \in S : t = n - x BY <1>3
<1>5. \A y \in S : x >= y
  <2>1. SUFFICES ASSUME NEW y \in S, ~(x >= y) PROVE FALSE OBVIOUS
  <2>2. n - y \in T /\ n - y \in Nat /\ n - x \in Nat BY <1>4
  <2>3. n - y < n - x BY <2>1, <1>4
  <2> QED BY <1>3, <1>4, <2>2, <2>3 DEF OpToRel
<1>6. \E m \in S : \A y \in S : m >= y BY <1>4, <1>5
<1>7. Max(S) \in S /\ \A y \in S : Max(S) >= y BY <1>6 DEF Max
<1> QED BY <1>7

-----------------------------------------------------------------------------
(* A row that Mark writes is in one of the states of a row; it is done only  *)
(* when Handle succeeded, and a deleted row stays deleted.                   *)
LEMMA MarkedFacts ==
  ASSUME NEW st \in RowState
  PROVE  /\ Marked(st) \in RowState
         /\ Marked(st) = "done" => st # "gone" /\ res = "ok"
         /\ st = "gone" => Marked(st) = "gone"
         /\ Marked(st) # "none"
<1>1. CASE st = "gone"
  <2>1. Marked(st) = "gone" BY <1>1, Zenon DEF Marked
  <2> QED BY <1>1, <2>1 DEF RowState
<1>2. CASE st # "gone" /\ res = "ok"
  <2>1. Marked(st) = "done" BY <1>2, Zenon DEF Marked
  <2> QED BY <1>2, <2>1 DEF RowState
<1>3. CASE st # "gone" /\ res # "ok"
  <2>1. Marked(st) = "backoff" BY <1>3, Zenon DEF Marked
  <2> QED BY <1>3, <2>1 DEF RowState
<1> QED BY <1>1, <1>2, <1>3

(* The handler being run is registered, and so is the one after it.          *)
LEMMA NextHandlerTypes ==
  ASSUME dh \in DOMAIN HandlerSeq, NextHandler
  PROVE  dh' \in DOMAIN HandlerSeq /\ dpc' \in {"idle", "poll"}
<1>1. HandlerSeq \in Seq(Handlers) BY DispatcherAssumption
<1>2. DOMAIN HandlerSeq = 1..Len(HandlerSeq) /\ Len(HandlerSeq) \in Nat BY <1>1
<1> QED BY <1>2 DEF NextHandler

(* What one Mark does to the rows: only row (e, H) changes.                  *)
LEMMA MarkRows ==
  ASSUME DispatchTypeOK, NEW e \in Events, Mark(e)
  PROVE  /\ row' \in [Events -> [Handlers -> RowState]]
         /\ H \in Handlers
         /\ row'[e][H] = Marked(row[e][H])
         /\ \A x \in Events, h \in Handlers : x # e \/ h # H => row'[x][h] = row[x][h]
<1>1. H \in Handlers BY DEF DispatchTypeOK, H, Handlers
<1>2. row[e] \in [Handlers -> RowState] /\ row[e][H] \in RowState BY <1>1 DEF DispatchTypeOK
<1>3. Marked(row[e][H]) \in RowState BY <1>2, MarkedFacts
<1> DEFINE r == Marked(row[e][H])
<1>4. row' = [row EXCEPT ![e][H] = r] BY DEF Mark
<1> HIDE DEF r
<1>5. r \in RowState BY <1>3 DEF r
<1>6. row'[e] = [row[e] EXCEPT ![H] = r] BY <1>4, <1>2 DEF DispatchTypeOK
<1>7. \A x \in Events : x # e => row'[x] = row[x] BY <1>4 DEF DispatchTypeOK
<1>8. row'[e] \in [Handlers -> RowState] BY <1>2, <1>5, <1>6
<1>9. \A x \in Events : row'[x] \in [Handlers -> RowState] BY <1>7, <1>8 DEF DispatchTypeOK
<1>10. row' = [x \in Events |-> row'[x]] BY <1>4 DEF DispatchTypeOK
<1>11. row' \in [Events -> [Handlers -> RowState]] BY <1>9, <1>10
<1>12. row'[e][H] = r BY <1>1, <1>2, <1>6
<1>13. \A h \in Handlers : h # H => row'[e][h] = row[e][h] BY <1>1, <1>2, <1>6
<1> QED BY <1>1, <1>7, <1>11, <1>12, <1>13 DEF r

(* What one backoff that passes does to the rows.                            *)
LEMMA RetryRows ==
  ASSUME DispatchTypeOK, NEW e \in Events, NEW h \in Handlers, BackoffExpires(e, h)
  PROVE  /\ row' \in [Events -> [Handlers -> RowState]]
         /\ row[e][h] = "backoff" /\ row'[e][h] = "due"
         /\ \A x \in Events, g \in Handlers : x # e \/ g # h => row'[x][g] = row[x][g]
<1>1. row[e] \in [Handlers -> RowState] BY DEF DispatchTypeOK
<1>2. row' = [row EXCEPT ![e][h] = "due"] /\ row[e][h] = "backoff" BY DEF BackoffExpires
<1>3. row'[e] = [row[e] EXCEPT ![h] = "due"] BY <1>1, <1>2 DEF DispatchTypeOK
<1>4. \A x \in Events : x # e => row'[x] = row[x] BY <1>2 DEF DispatchTypeOK
<1>5. row'[e] \in [Handlers -> RowState] BY <1>1, <1>3 DEF RowState
<1>6. \A x \in Events : row'[x] \in [Handlers -> RowState] BY <1>4, <1>5 DEF DispatchTypeOK
<1>7. row' = [x \in Events |-> row'[x]] BY <1>2 DEF DispatchTypeOK
<1>8. row' \in [Events -> [Handlers -> RowState]] BY <1>6, <1>7
<1> QED BY <1>1, <1>2, <1>3, <1>4, <1>8

(* What the deletion of an order does to the rows: those of its events that  *)
(* were written are gone, the others stay.                                   *)
LEMMA PurgeRows ==
  ASSUME DispatchTypeOK, NEW a, DeleteOrder(a)
  PROVE  /\ row' \in [Events -> [Handlers -> RowState]]
         /\ \A x \in Events, h \in Handlers :
              row'[x][h] = row[x][h] \/ (Written(x) /\ row'[x][h] = "gone")
<1> DEFINE es == {x \in Events : Aggregate[x] = a}
<1>1. row' = [e \in Events |-> IF e \in es /\ Written(e) THEN [h \in Handlers |-> "gone"] ELSE row[e]]
  BY DEF DeleteOrder, Purge
<1> HIDE DEF es
<1>2. [h \in Handlers |-> "gone"] \in [Handlers -> RowState] BY DEF RowState
<1>3. \A x \in Events : row[x] \in [Handlers -> RowState] BY DEF DispatchTypeOK
<1> QED BY <1>1, <1>2, <1>3

-----------------------------------------------------------------------------
(* The highest id a read hands out is a stored one after the cursor.         *)
LEMMA NextUnreadMax ==
  ASSUME TrackingTypeOK, NextUnread # {}
  PROVE  /\ Max(NextUnread) \in NextUnread
         /\ \A y \in NextUnread : y <= Max(NextUnread)
         /\ Max(NextUnread) \in last + 1..Len(feed)
<1>1. Len(feed) \in Nat /\ last \in Nat BY DEF TrackingTypeOK
<1>2. NextUnread \subseteq last + 1..Len(feed) BY DEF NextUnread, Unread
<1>3. NextUnread \in SUBSET Nat /\ \A y \in NextUnread : y <= Len(feed) BY <1>1, <1>2
<1>4. Max(NextUnread) \in NextUnread /\ \A y \in NextUnread : y <= Max(NextUnread)
  BY <1>1, <1>3, MaxIsGreatest
<1> QED BY <1>2, <1>4

(* Record appends at most one row to the stored events.                      *)
LEMMA RecordFacts ==
  ASSUME feed \in Seq(Events), NEW e \in Events, Record(e)
  PROVE  /\ feed' \in Seq(Events)
         /\ Len(feed') >= Len(feed)
         /\ \A x \in Events : IsStored(x) => IsStored(x)'
         /\ Deleted(e) \/ IsStored(e)'
<1>1. CASE Deleted(e) BY <1>1 DEF Record, IsStored
<1>2. CASE ~Deleted(e)
  <2>1. feed' = Append(feed, e) BY <1>2 DEF Record
  <2>2. Len(feed') = Len(feed) + 1 /\ feed' \in Seq(Events) /\ Len(feed) \in Nat
        /\ DOMAIN feed = 1..Len(feed) /\ DOMAIN feed' = 1..Len(feed')
    BY <2>1
  <2>3. feed'[Len(feed')] = e /\ \A i \in DOMAIN feed : feed'[i] = feed[i] BY <2>1, <2>2
  <2>4. \A i \in DOMAIN feed : i \in DOMAIN feed' BY <2>2
  <2>5. Len(feed') \in DOMAIN feed' BY <2>2
  <2> QED BY <2>2, <2>3, <2>4, <2>5 DEF IsStored
<1> QED BY <1>1, <1>2

(* Every kind of step, one by one: the proofs below go through them.         *)
LEMMA TrackingSteps ==
  ASSUME [TrackingNext]_trackingVars
  PROVE  \/ UNCHANGED trackingVars
         \/ \E e \in Events : EmitAndWake(e)
         \/ \E e \in Events : DeleteOrder(Aggregate[e])
         \/ \E e \in Events, h \in Handlers : RetryDue(e, h)
         \/ \E e \in Events : TrackingHandle(e)
         \/ \E e \in Events, r \in Result : OtherHandle(e, r)
         \/ Tick /\ NoFault /\ UNCHANGED <<feedVars, streamVars>>
         \/ Poll /\ NoFault /\ UNCHANGED <<feedVars, streamVars>>
         \/ PollFails /\ Fault /\ UNCHANGED <<feedVars, streamVars>>
         \/ \E e \in Events : Mark(e) /\ NoFault /\ UNCHANGED <<feedVars, streamVars>>
         \/ \E e \in Events : MarkFails(e) /\ Fault /\ UNCHANGED <<feedVars, streamVars>>
         \/ Age \/ Prune
         \/ Open \/ StreamEnds
         \/ Start \/ CheckCursor \/ ReadEvents \/ Reset
         \/ MainRestarts
BY Zenon DEF TrackingNext, DispatcherStep, StreamStep

(* The steps that change a row: all others leave the outbox tables alone.    *)
LEMMA RowSteps ==
  ASSUME [TrackingNext]_trackingVars
  PROVE  \/ UNCHANGED <<at, row>>
         \/ \E e \in Events : EmitAndWake(e)
         \/ \E e \in Events : DeleteOrder(Aggregate[e])
         \/ \E e \in Events, h \in Handlers : BackoffExpires(e, h)
         \/ \E e \in Events : Mark(e)
<1>1. ASSUME \/ UNCHANGED trackingVars
             \/ \E e \in Events : TrackingHandle(e)
             \/ \E e \in Events, r \in Result : OtherHandle(e, r)
             \/ Tick \/ Poll \/ PollFails
             \/ \E e \in Events : MarkFails(e)
             \/ MainRestarts
      PROVE  UNCHANGED <<at, row>>
  BY <1>1 DEF trackingVars, dispatchVars, TrackingHandle, OtherHandle, Handled, Tick, Poll,
     PollFails, MarkFails, AfterMark, MainRestarts, DispatcherRestart
<1>2. ASSUME Age \/ Prune \/ Open \/ StreamEnds \/ Start \/ CheckCursor \/ ReadEvents \/ Reset
      PROVE  UNCHANGED <<at, row>>
  BY <1>2 DEF Age, Prune, Open, StreamEnds, Start, CheckCursor, ReadEvents, Reset, stored, dispatchVars
<1>3. ASSUME NEW e \in Events, NEW h \in Handlers, RetryDue(e, h) PROVE BackoffExpires(e, h)
  BY <1>3 DEF RetryDue
<1> QED BY <1>1, <1>2, <1>3, TrackingSteps

(* The dispatcher's state keeps its types.                                   *)
LEMMA DispatchTypesStep ==
  ASSUME TrackingInv, [TrackingNext]_trackingVars
  PROVE  DispatchTypeOK'
<1>0. DispatchTypeOK BY DEF TrackingInv, TrackingTypeOK
<1>1. CASE UNCHANGED dispatchVars
  BY <1>0, <1>1 DEF DispatchTypeOK, dispatchVars
<1>2. ASSUME NEW e \in Events, EmitAndWake(e) PROVE DispatchTypeOK'
  <2>1. IsFiniteSet({x \in Events : Written(x)}) BY DispatcherAssumption, FS_Subset
  <2>2. Cardinality({x \in Events : Written(x)}) \in Nat BY <2>1, FS_CardinalityType
  <2>3. [h \in Handlers |-> "due"] \in [Handlers -> RowState] BY DEF RowState
  <2>4. at' \in [Events -> Nat] /\ row' \in [Events -> [Handlers -> RowState]]
    BY <1>0, <1>2, <2>2, <2>3 DEF EmitAndWake, Emit, DispatchTypeOK
  <2> QED BY <1>0, <1>2, <2>4 DEF EmitAndWake, DispatchTypeOK
<1>3. ASSUME NEW e \in Events, DeleteOrder(Aggregate[e]) PROVE DispatchTypeOK'
  BY <1>0, <1>3, PurgeRows DEF DeleteOrder, DispatchTypeOK
<1>4. ASSUME NEW e \in Events, NEW h \in Handlers, RetryDue(e, h) PROVE DispatchTypeOK'
  BY <1>0, <1>4, RetryRows DEF RetryDue, BackoffExpires, DispatchTypeOK
<1>5. ASSUME NEW e \in Events, NEW r \in Result, Handled(e, r) PROVE DispatchTypeOK'
  BY <1>0, <1>5 DEF Handled, DispatchTypeOK
<1>6. ASSUME NEW e \in Events, TrackingHandle(e) PROVE DispatchTypeOK'
  <2>1. Handled(e, "ok") \/ Handled(e, "transient") BY <1>6 DEF TrackingHandle
  <2>2. "ok" \in Result /\ "transient" \in Result BY DEF Result
  <2> QED BY <2>1, <2>2, <1>5
<1>7. ASSUME NEW e \in Events, NEW r \in Result, OtherHandle(e, r) PROVE DispatchTypeOK'
  BY <1>5, <1>7 DEF OtherHandle
<1>8. CASE Tick
  <2>1. 1 \in DOMAIN HandlerSeq
    <3>1. HandlerSeq \in Seq(Handlers) /\ HandlerSeq # <<>> BY DispatcherAssumption
    <3> QED BY <3>1
  <2> QED BY <1>0, <1>8, <2>1 DEF Tick, DispatchTypeOK
<1>9. CASE Poll
  <2>1. Pending(H) \in SUBSET Events BY DEF Pending, Due
  <2>2. dpc' \in {"idle", "poll", "handle"} /\ dh' \in DOMAIN HandlerSeq
    BY <1>0, <1>9, NextHandlerTypes DEF Poll, DispatchTypeOK
  <2> QED BY <1>0, <1>9, <2>1, <2>2 DEF Poll, DispatchTypeOK
<1>10. CASE PollFails
  BY <1>0, <1>10, NextHandlerTypes DEF PollFails, DispatchTypeOK
<1>11. ASSUME NEW e \in Events, AfterMark(e), row' \in [Events -> [Handlers -> RowState]]
       PROVE  DispatchTypeOK'
  <2>1. dpc' \in {"idle", "poll", "handle"} /\ dh' \in DOMAIN HandlerSeq
    BY <1>0, <1>11, NextHandlerTypes DEF AfterMark, DispatchTypeOK
  <2> QED BY <1>0, <1>11, <2>1 DEF AfterMark, DispatchTypeOK, Result
<1>12. ASSUME NEW e \in Events, Mark(e) PROVE DispatchTypeOK'
  BY <1>0, <1>11, <1>12, MarkRows DEF Mark
<1>13. ASSUME NEW e \in Events, MarkFails(e) PROVE DispatchTypeOK'
  BY <1>0, <1>11, <1>13 DEF MarkFails, DispatchTypeOK
<1>14. CASE MainRestarts
  <2>1. 1 \in DOMAIN HandlerSeq
    <3>1. HandlerSeq \in Seq(Handlers) /\ HandlerSeq # <<>> BY DispatcherAssumption
    <3> QED BY <3>1
  <2> QED BY <1>0, <1>14, <2>1 DEF MainRestarts, DispatcherRestart, DispatchTypeOK, Result
<1>15. CASE Age \/ Prune \/ Open \/ StreamEnds \/ Start \/ CheckCursor \/ ReadEvents \/ Reset
  BY <1>1, <1>15 DEF Age, Prune, Open, StreamEnds, Start, CheckCursor, ReadEvents, Reset, stored
<1>16. CASE UNCHANGED trackingVars BY <1>1, <1>16 DEF trackingVars
<1> QED BY <1>2, <1>3, <1>4, <1>6, <1>7, <1>8, <1>9, <1>10, <1>12, <1>13, <1>14, <1>15, <1>16,
           TrackingSteps

(* What the steps that do not touch the stored events or the stream leave.   *)
Elsewhere == UNCHANGED <<feedVars, streamVars>>

(* The stored events and the stream keep their types.                        *)
LEMMA StreamTypesStep ==
  ASSUME TrackingInv, [TrackingNext]_trackingVars
  PROVE  /\ feed' \in Seq(Events)
         /\ aged' \in 0..Len(feed')
         /\ pruned' \in 0..aged'
         /\ spc' \in {"off", "start", "look", "read", "reset"}
         /\ last' \in 0..Len(feed')
         /\ cursor' \in 0..Len(feed')
         /\ from' \in 0..Len(feed')
         /\ checked' \in 0..pruned'
         /\ faults' \in 0..MaxFaults
<1> DEFINE Goal == /\ feed' \in Seq(Events)
                   /\ aged' \in 0..Len(feed')
                   /\ pruned' \in 0..aged'
                   /\ spc' \in {"off", "start", "look", "read", "reset"}
                   /\ last' \in 0..Len(feed')
                   /\ cursor' \in 0..Len(feed')
                   /\ from' \in 0..Len(feed')
                   /\ checked' \in 0..pruned'
<1>0. TrackingTypeOK BY DEF TrackingInv
<1>1. Len(feed) \in Nat /\ MaxFaults \in Nat BY <1>0, TrackingAssumption, FaultsAssumption DEF TrackingTypeOK
<1>2. ASSUME Elsewhere PROVE Goal BY <1>0, <1>2 DEF Elsewhere, TrackingTypeOK, feedVars, streamVars
<1>3. ASSUME NEW e \in Events, TrackingHandle(e) PROVE Goal
  <2>1. feed' \in Seq(Events) /\ Len(feed') >= Len(feed) /\ Len(feed') \in Nat
    <3>1. CASE Record(e) BY <1>0, <3>1, RecordFacts DEF TrackingTypeOK
    <3>2. CASE UNCHANGED feed BY <1>0, <1>1, <3>2 DEF TrackingTypeOK
    <3> QED BY <1>3, <3>1, <3>2 DEF TrackingHandle
  <2>2. UNCHANGED <<aged, pruned, streamVars>> BY <1>3 DEF TrackingHandle
  <2> QED BY <1>0, <1>1, <2>1, <2>2 DEF TrackingTypeOK, streamVars
<1>4. ASSUME Age PROVE Goal BY <1>0, <1>1, <1>4 DEF Age, TrackingTypeOK, streamVars
<1>5. ASSUME Prune PROVE Goal BY <1>0, <1>1, <1>5 DEF Prune, TrackingTypeOK, streamVars
<1>6. ASSUME Open \/ StreamEnds PROVE Goal
  BY <1>0, <1>1, <1>6 DEF Open, StreamEnds, stored, TrackingTypeOK, feedVars
<1>7. ASSUME Start \/ Reset PROVE Goal
  BY <1>0, <1>1, <1>7 DEF Start, Reset, Latest, stored, TrackingTypeOK, feedVars
<1>8. ASSUME CheckCursor PROVE Goal
  BY <1>0, <1>1, <1>8 DEF CheckCursor, stored, TrackingTypeOK, feedVars
<1>9. ASSUME ReadEvents PROVE Goal
  <2>1. CASE NextUnread = {}
    BY <1>0, <1>1, <1>9, <2>1 DEF ReadEvents, stored, TrackingTypeOK, feedVars
  <2>2. CASE NextUnread # {}
    <3>1. Max(NextUnread) \in 0..Len(feed) BY <1>0, <1>1, <2>2, NextUnreadMax DEF TrackingTypeOK
    <3> QED BY <1>0, <1>1, <1>9, <2>2, <3>1 DEF ReadEvents, stored, TrackingTypeOK, feedVars
  <2> QED BY <2>1, <2>2
<1>10. ASSUME MainRestarts PROVE Goal
  BY <1>0, <1>1, <1>10 DEF MainRestarts, TrackingTypeOK, feedVars
<1>11. Goal
  <2>1. CASE \/ UNCHANGED trackingVars
             \/ \E e \in Events : EmitAndWake(e) \/ DeleteOrder(Aggregate[e])
             \/ \E e \in Events, h \in Handlers : RetryDue(e, h)
             \/ \E e \in Events, r \in Result : OtherHandle(e, r)
             \/ UNCHANGED <<feedVars, streamVars>>
    BY <1>2, <2>1 DEF Elsewhere, EmitAndWake, DeleteOrder, RetryDue, OtherHandle, trackingVars
  <2> HIDE DEF Goal
  <2> QED BY <1>3, <1>4, <1>5, <1>6, <1>7, <1>8, <1>9, <1>10, <2>1, TrackingSteps
<1>12. faults' \in 0..MaxFaults
  <2>1. UNCHANGED faults \/ Fault
    BY TrackingSteps DEF trackingVars, EmitAndWake, DeleteOrder, RetryDue, TrackingHandle, OtherHandle,
       NoFault, Age, Prune, Open, StreamEnds, Start, CheckCursor, ReadEvents, Reset, MainRestarts
  <2> QED BY <1>0, <1>1, <2>1 DEF Fault, TrackingTypeOK
<1> QED BY <1>11, <1>12

-----------------------------------------------------------------------------
(* The ranks order the written events, and only those have rows: Emit hands  *)
(* out a rank above all others, and every other step leaves the ranks.       *)
RanksInv == RanksAreBounded /\ RanksDiffer /\ RowsAreWritten

(* A new event is ranked above every written one.                          *)
LEMMA EmitRanks ==
  ASSUME TrackingInv, NEW e \in Events, EmitAndWake(e)
  PROVE  RanksInv'
<1>0. DispatchTypeOK /\ RanksAreBounded /\ RanksDiffer /\ RowsAreWritten
  BY DEF TrackingInv, TrackingTypeOK
<1>1. ~Written(e) /\ at' = [at EXCEPT ![e] = 1 + Cardinality(WrittenEvents)]
      /\ row' = [row EXCEPT ![e] = [h \in Handlers |-> "due"]]
  BY DEF EmitAndWake, Emit, WrittenEvents
<1>2. IsFiniteSet(WrittenEvents) BY DispatcherAssumption, FS_Subset DEF WrittenEvents
<1> DEFINE n == Cardinality(WrittenEvents)
<1>3. n \in Nat BY <1>2, FS_CardinalityType
<1>4. at'[e] = 1 + n /\ at'[e] # 0 /\ \A x \in Events : x # e => at'[x] = at[x]
  BY <1>0, <1>1, <1>3 DEF DispatchTypeOK
<1>5. WrittenEvents' = WrittenEvents \cup {e} BY <1>4 DEF WrittenEvents, Written
<1>6. Cardinality(WrittenEvents') = n + 1
  <2>1. e \notin WrittenEvents BY <1>1 DEF WrittenEvents
  <2> QED BY <1>2, <1>5, <2>1, FS_AddElement
<1>7. RanksAreBounded'
  BY <1>0, <1>3, <1>4, <1>6 DEF RanksAreBounded, DispatchTypeOK
<1>8. RanksDiffer'
  <2>1. \A x \in Events : at[x] \in Nat /\ at[x] <= n BY <1>0 DEF RanksAreBounded, DispatchTypeOK
  <2> HIDE DEF n
  <2> QED BY <1>0, <1>3, <1>4, <2>1 DEF RanksDiffer, Written
<1>9. RowsAreWritten'
  BY <1>0, <1>1, <1>4 DEF RowsAreWritten, Written, DispatchTypeOK
<1> QED BY <1>7, <1>8, <1>9 DEF RanksInv

(* Every other step leaves the ranks as they are.                          *)
LEMMA RanksStep ==
  ASSUME TrackingInv, [TrackingNext]_trackingVars
  PROVE  RanksInv'
<1>0. DispatchTypeOK /\ RanksAreBounded /\ RanksDiffer /\ RowsAreWritten
  BY DEF TrackingInv, TrackingTypeOK
<1>1. ASSUME UNCHANGED at, \A x \in Events, h \in Handlers : row'[x][h] # "none" => Written(x)
      PROVE  RanksInv'
  <2>1. WrittenEvents' = WrittenEvents BY <1>1 DEF WrittenEvents, Written
  <2> QED BY <1>0, <1>1, <2>1 DEF RanksInv, RanksAreBounded, RanksDiffer, RowsAreWritten, Written
<1>2. ASSUME UNCHANGED <<at, row>> PROVE RanksInv'
  BY <1>0, <1>1, <1>2 DEF RowsAreWritten
<1>3. ASSUME NEW e \in Events, EmitAndWake(e) PROVE RanksInv' BY <1>3, EmitRanks
<1>4. ASSUME NEW e \in Events, DeleteOrder(Aggregate[e]) PROVE RanksInv'
  BY <1>0, <1>1, <1>4, PurgeRows DEF DeleteOrder, RowsAreWritten
<1>5. ASSUME NEW e \in Events, NEW h \in Handlers, BackoffExpires(e, h) PROVE RanksInv'
  BY <1>0, <1>1, <1>5, RetryRows DEF BackoffExpires, RowsAreWritten
<1>6. ASSUME NEW e \in Events, Mark(e) PROVE RanksInv'
  <2>1. Written(e) BY <1>6 DEF TrackingInv, BatchIsWritten, Mark, IsNext
  <2>2. UNCHANGED at BY <1>6 DEF Mark, AfterMark
  <2> QED BY <1>0, <1>1, <1>6, <2>1, <2>2, MarkRows DEF RowsAreWritten
<1> QED BY <1>2, <1>3, <1>4, <1>5, <1>6, RowSteps

(* A batch holds only rows that were due, so events that were written.       *)
LEMMA BatchStep ==
  ASSUME TrackingInv, [TrackingNext]_trackingVars
  PROVE  BatchIsWritten'
<1>0. DispatchTypeOK /\ BatchIsWritten /\ RowsAreWritten
  BY DEF TrackingInv, TrackingTypeOK
<1>1. ASSUME batch' \subseteq batch, UNCHANGED at PROVE BatchIsWritten'
  BY <1>0, <1>1 DEF BatchIsWritten, Written
<1>2. ASSUME NEW e \in Events, EmitAndWake(e) PROVE BatchIsWritten'
  <2>1. \A x \in batch : x # e BY <1>0, <1>2 DEF EmitAndWake, Emit, BatchIsWritten
  <2>2. batch' = batch BY <1>2 DEF EmitAndWake
  <2>3. \A x \in Events : x # e => at'[x] = at[x] BY <1>0, <1>2 DEF EmitAndWake, Emit, DispatchTypeOK
  <2> QED BY <1>0, <2>1, <2>2, <2>3 DEF BatchIsWritten, Written, DispatchTypeOK
<1>3. ASSUME Poll PROVE BatchIsWritten'
  <2>1. H \in Handlers BY <1>0 DEF DispatchTypeOK, H, Handlers
  <2>2. \A x \in batch' : x \in Events /\ row[x][H] = "due" BY <1>3 DEF Poll, Pending, Due
  <2>3. \A x \in batch' : Written(x) BY <1>0, <2>1, <2>2 DEF RowsAreWritten
  <2> QED BY <1>3, <2>3 DEF Poll, BatchIsWritten, Written
<1>4. ASSUME \/ \E e \in Events : DeleteOrder(Aggregate[e])
             \/ \E e \in Events, h \in Handlers : RetryDue(e, h)
             \/ \E e \in Events : TrackingHandle(e)
             \/ \E e \in Events, r \in Result : OtherHandle(e, r)
             \/ Tick \/ PollFails
             \/ \E e \in Events : Mark(e) \/ MarkFails(e)
             \/ MainRestarts
      PROVE  batch' \subseteq batch /\ UNCHANGED at
  BY <1>4 DEF DeleteOrder, RetryDue, BackoffExpires, TrackingHandle, OtherHandle, Handled, Tick,
     PollFails, Mark, MarkFails, AfterMark, MainRestarts, DispatcherRestart
<1>5. ASSUME UNCHANGED dispatchVars PROVE BatchIsWritten' BY <1>1, <1>5 DEF dispatchVars
<1>6. ASSUME \/ UNCHANGED trackingVars
             \/ Age \/ Prune \/ Open \/ StreamEnds \/ Start \/ CheckCursor \/ ReadEvents \/ Reset
      PROVE  UNCHANGED dispatchVars
  BY <1>6 DEF trackingVars, Age, Prune, Open, StreamEnds, Start, CheckCursor, ReadEvents, Reset, stored
<1> QED BY <1>1, <1>2, <1>3, <1>4, <1>5, <1>6, TrackingSteps

-----------------------------------------------------------------------------
(* What is stored stays stored, and a deleted order's row stays deleted.     *)
LEMMA StoredStays ==
  ASSUME TrackingInv, [TrackingNext]_trackingVars
  PROVE  \A x \in Events : (IsStored(x) => IsStored(x)') /\ (Deleted(x) => Deleted(x)')
<1>0. DispatchTypeOK /\ RowsAreWritten /\ feed \in Seq(Events) /\ Tracking \in Handlers
  BY TrackingAssumption DEF TrackingInv, TrackingTypeOK
<1>1. \A x \in Events : IsStored(x) => IsStored(x)'
  <2>1. ASSUME UNCHANGED feed PROVE \A x \in Events : IsStored(x) => IsStored(x)' BY <2>1 DEF IsStored
  <2>2. ASSUME NEW e \in Events, Record(e) PROVE \A x \in Events : IsStored(x) => IsStored(x)'
    BY <1>0, <2>2, RecordFacts
  <2>3. UNCHANGED feed \/ \E e \in Events : Record(e)
    BY TrackingSteps DEF trackingVars, feedVars, EmitAndWake, DeleteOrder, RetryDue, TrackingHandle,
       OtherHandle, Age, Prune, Open, StreamEnds, Start, CheckCursor, ReadEvents, Reset, MainRestarts, stored
  <2> QED BY <2>1, <2>2, <2>3
<1>2. \A x \in Events : Deleted(x) => Deleted(x)'
  <2>1. ASSUME UNCHANGED row PROVE \A x \in Events : Deleted(x) => Deleted(x)' BY <2>1 DEF Deleted
  <2>2. ASSUME NEW e \in Events, EmitAndWake(e) PROVE \A x \in Events : Deleted(x) => Deleted(x)'
    <3>1. row[e][Tracking] = "none" BY <1>0, <2>2 DEF EmitAndWake, Emit, RowsAreWritten
    <3>2. \A x \in Events : x # e => row'[x] = row[x] BY <1>0, <2>2 DEF EmitAndWake, Emit, DispatchTypeOK
    <3> QED BY <3>1, <3>2 DEF Deleted
  <2>3. ASSUME NEW e \in Events, DeleteOrder(Aggregate[e])
        PROVE  \A x \in Events : Deleted(x) => Deleted(x)'
    BY <1>0, <2>3, PurgeRows DEF Deleted
  <2>4. ASSUME NEW e \in Events, NEW h \in Handlers, BackoffExpires(e, h)
        PROVE  \A x \in Events : Deleted(x) => Deleted(x)'
    BY <1>0, <2>4, RetryRows DEF Deleted
  <2>5. ASSUME NEW e \in Events, Mark(e) PROVE \A x \in Events : Deleted(x) => Deleted(x)'
    <3>1. row[e][Tracking] = "gone" => Marked(row[e][Tracking]) = "gone"
      <4>1. row[e][Tracking] \in RowState BY <1>0 DEF DispatchTypeOK
      <4> QED BY <4>1, MarkedFacts
    <3> QED BY <1>0, <2>5, <3>1, MarkRows DEF Deleted
  <2> QED BY <2>1, <2>2, <2>3, <2>4, <2>5, RowSteps
<1> QED BY <1>1, <1>2

(* Between a successful Handle and the mark of its row, the event is stored  *)
(* or gone: only the event Handle was called for can be next.                *)
LEMMA HandledStep ==
  ASSUME TrackingInv, [TrackingNext]_trackingVars
  PROVE  HandledWasStored'
<1>0. /\ DispatchTypeOK /\ HandledWasStored /\ BatchIsWritten /\ RanksDiffer
      /\ feed \in Seq(Events) /\ Tracking \in Handlers
  BY TrackingAssumption DEF TrackingInv, TrackingTypeOK
<1>1. \A x \in Events : (IsStored(x) => IsStored(x)') /\ (Deleted(x) => Deleted(x)')
  BY StoredStays
<1>2. ASSUME dpc' # "mark" PROVE HandledWasStored' BY <1>2 DEF HandledWasStored
<1>3. ASSUME UNCHANGED <<at, dpc, dh, batch, res>> PROVE HandledWasStored'
  <2>1. H' = H /\ \A x \in Events : IsNext(x)' => IsNext(x) BY <1>3 DEF H, IsNext
  <2> QED BY <1>0, <1>1, <1>3, <2>1 DEF HandledWasStored
<1>4. ASSUME NEW e \in Events, EmitAndWake(e) PROVE HandledWasStored'
  <2>1. UNCHANGED <<dpc, dh, batch, res>> BY <1>4 DEF EmitAndWake
  <2>2. \A x \in batch : at'[x] = at[x]
    <3>1. \A x \in batch : x \in Events /\ x # e
      BY <1>0, <1>4 DEF EmitAndWake, Emit, BatchIsWritten, DispatchTypeOK
    <3> QED BY <1>0, <1>4, <3>1 DEF EmitAndWake, Emit, DispatchTypeOK
  <2>3. H' = H /\ \A x \in Events : IsNext(x)' => IsNext(x) BY <2>1, <2>2 DEF H, IsNext
  <2> QED BY <1>0, <1>1, <2>1, <2>3 DEF HandledWasStored
<1>5. ASSUME NEW e \in Events, TrackingHandle(e) PROVE HandledWasStored'
  <2>1. UNCHANGED <<at, row, dh, batch>> /\ IsNext(e) BY <1>5 DEF TrackingHandle, Handled
  <2>2. CASE res' # "ok" BY <2>2 DEF HandledWasStored
  <2>3. CASE res' = "ok"
    <3>1. Record(e) BY <1>5, <2>3 DEF TrackingHandle, Handled
    <3>2. Deleted(e) \/ IsStored(e)' BY <1>0, <3>1, RecordFacts
    <3>3. \A x \in Events : IsNext(x)' => x = e
      <4>1. SUFFICES ASSUME NEW x \in Events, IsNext(x)' PROVE x = e OBVIOUS
      <4>2. x \in batch /\ at[x] <= at[e] /\ at[e] <= at[x] BY <2>1, <4>1 DEF IsNext
      <4>3. at[x] = at[e] /\ Written(x) BY <1>0, <4>2 DEF BatchIsWritten, DispatchTypeOK
      <4> QED BY <1>0, <4>3 DEF RanksDiffer
    <3> QED BY <1>1, <3>2, <3>3 DEF HandledWasStored
  <2> QED BY <2>2, <2>3
<1>6. ASSUME NEW e \in Events, NEW r \in Result, OtherHandle(e, r) PROVE HandledWasStored'
  BY <1>6 DEF OtherHandle, Handled, HandledWasStored, H
<1>7. ASSUME NextHandler \/ dpc' = "handle" PROVE dpc' # "mark" BY <1>7 DEF NextHandler
<1>8. ASSUME \/ Tick \/ Poll \/ PollFails
             \/ \E e \in Events : Mark(e) \/ MarkFails(e)
             \/ MainRestarts
      PROVE  HandledWasStored'
  <2>1. dpc' # "mark"
    BY <1>7, <1>8 DEF Tick, Poll, PollFails, Mark, MarkFails, AfterMark, MainRestarts, DispatcherRestart
  <2> QED BY <1>2, <2>1
<1>9. ASSUME \/ \E e \in Events : DeleteOrder(Aggregate[e])
             \/ \E e \in Events, h \in Handlers : RetryDue(e, h)
             \/ UNCHANGED trackingVars
      PROVE  HandledWasStored'
  BY <1>3, <1>9 DEF DeleteOrder, RetryDue, BackoffExpires, trackingVars, dispatchVars
<1>10. ASSUME Age \/ Prune \/ Open \/ StreamEnds \/ Start \/ CheckCursor \/ ReadEvents \/ Reset
       PROVE  HandledWasStored'
  BY <1>3, <1>10 DEF Age, Prune, Open, StreamEnds, Start, CheckCursor, ReadEvents, Reset, stored, dispatchVars
<1> QED BY <1>4, <1>5, <1>6, <1>8, <1>9, <1>10, TrackingSteps

(* Only a mark makes a row done, and it finds the event stored.              *)
LEMMA DoneStep ==
  ASSUME TrackingInv, [TrackingNext]_trackingVars
  PROVE  DoneWasRecorded'
<1>0. /\ DispatchTypeOK /\ HandledWasStored /\ DoneWasRecorded /\ Tracking \in Handlers
  BY TrackingAssumption DEF TrackingInv, TrackingTypeOK
<1>1. \A x \in Events : (IsStored(x) => IsStored(x)')
  BY StoredStays
<1>2. ASSUME \A x \in Events : row'[x][Tracking] = "done" => row[x][Tracking] = "done" \/ IsStored(x)
      PROVE  DoneWasRecorded'
  <2>1. \A x \in Events : row'[x][Tracking] = "done" => IsStored(x)
    BY <1>0, <1>2 DEF DoneWasRecorded, IsStored
  <2>2. \A x \in Events : row'[x][Tracking] = "done" => IsStored(x)' BY <1>1, <2>1
  <2> QED BY <2>2 DEF DoneWasRecorded, IsStored
<1>3. ASSUME UNCHANGED row PROVE DoneWasRecorded' BY <1>2, <1>3
<1>4. ASSUME NEW e \in Events, EmitAndWake(e) PROVE DoneWasRecorded'
  <2>1. row' = [row EXCEPT ![e] = [h \in Handlers |-> "due"]] BY <1>4 DEF EmitAndWake, Emit
  <2>2. \A x \in Events : row'[x][Tracking] = "done" => row[x][Tracking] = "done"
    BY <1>0, <2>1 DEF DispatchTypeOK
  <2> QED BY <1>2, <2>2
<1>5. ASSUME NEW e \in Events, DeleteOrder(Aggregate[e]) PROVE DoneWasRecorded'
  BY <1>0, <1>2, <1>5, PurgeRows
<1>6. ASSUME NEW e \in Events, NEW h \in Handlers, BackoffExpires(e, h) PROVE DoneWasRecorded'
  <2>1. \A x \in Events : row'[x][Tracking] = "done" => row[x][Tracking] = "done"
    BY <1>0, <1>6, RetryRows
  <2> QED BY <1>2, <2>1
<1>7. ASSUME NEW e \in Events, Mark(e) PROVE DoneWasRecorded'
  <2>1. ASSUME H = Tracking, Marked(row[e][H]) = "done" PROVE IsStored(e)
    <3>1. row[e][H] \in RowState BY <1>0, <2>1 DEF DispatchTypeOK
    <3>2. row[e][H] # "gone" /\ res = "ok" BY <2>1, <3>1, MarkedFacts
    <3>3. dpc = "mark" /\ IsNext(e) BY <1>7 DEF Mark
    <3> QED BY <1>0, <2>1, <3>2, <3>3 DEF HandledWasStored, Deleted
  <2>2. \A x \in Events : row'[x][Tracking] = "done" => row[x][Tracking] = "done" \/ IsStored(x)
    BY <1>0, <1>7, <2>1, MarkRows
  <2> QED BY <1>2, <2>2
<1> QED BY <1>3, <1>4, <1>5, <1>6, <1>7, RowSteps

-----------------------------------------------------------------------------
(* The stream's cursor: Age is held back by a running stream that has no     *)
(* cursor, so what such a stream left out covers all that can be pruned.     *)
StreamInv == CursorIsTheClients /\ FreshSkipsPruned /\ ReadIsChecked

(* Every step of the stream, and every ageing and pruning, keeps what the  *)
(* cursor stands for.                                                      *)
LEMMA StreamInvStep ==
  ASSUME TrackingInv, [TrackingNext]_trackingVars
  PROVE  StreamInv'
<1>0. TrackingTypeOK /\ CursorIsTheClients /\ FreshSkipsPruned /\ ReadIsChecked BY DEF TrackingInv
<1>1. Len(feed) \in Nat BY <1>0 DEF TrackingTypeOK
<1>2. ASSUME UNCHANGED <<aged, streamVars>> PROVE StreamInv'
  BY <1>0, <1>2 DEF StreamInv, CursorIsTheClients, FreshSkipsPruned, ReadIsChecked, streamVars
<1>3. ASSUME Age PROVE StreamInv'
  BY <1>0, <1>1, <1>3 DEF Age, StreamInv, CursorIsTheClients, FreshSkipsPruned, ReadIsChecked, streamVars,
     TrackingTypeOK
<1>4. ASSUME Open \/ StreamEnds \/ MainRestarts PROVE StreamInv'
  BY <1>0, <1>1, <1>4 DEF Open, StreamEnds, MainRestarts, StreamInv, CursorIsTheClients, FreshSkipsPruned,
     ReadIsChecked, TrackingTypeOK
<1>5. ASSUME Start \/ Reset PROVE StreamInv'
  BY <1>0, <1>1, <1>5 DEF Start, Reset, Latest, stored, feedVars, StreamInv, CursorIsTheClients,
     FreshSkipsPruned, ReadIsChecked, TrackingTypeOK
<1>6. ASSUME CheckCursor PROVE StreamInv'
  BY <1>0, <1>1, <1>6 DEF CheckCursor, CursorKept, Has, stored, feedVars, StreamInv, CursorIsTheClients,
     FreshSkipsPruned, ReadIsChecked, TrackingTypeOK
<1>7. ASSUME ReadEvents PROVE StreamInv'
  <2>1. spc' = "look" /\ UNCHANGED aged /\ spc = "read" BY <1>7 DEF ReadEvents, stored, feedVars
  <2>2. CASE NextUnread = {}
    BY <1>0, <1>7, <2>1, <2>2 DEF ReadEvents, StreamInv, CursorIsTheClients, FreshSkipsPruned, ReadIsChecked
  <2>3. CASE NextUnread # {}
    <3>1. last' = Max(NextUnread) /\ cursor' = last' BY <1>7, <2>3 DEF ReadEvents
    <3>2. last' \in last + 1..Len(feed) BY <1>0, <2>3, <3>1, NextUnreadMax
    <3>3. last' # 0 /\ last' \in Nat BY <1>0, <1>1, <3>2 DEF TrackingTypeOK
    <3> QED BY <2>1, <3>1, <3>3 DEF StreamInv, CursorIsTheClients, FreshSkipsPruned, ReadIsChecked
  <2> QED BY <2>2, <2>3
<1>8. ASSUME \/ UNCHANGED trackingVars
             \/ \E e \in Events : EmitAndWake(e) \/ DeleteOrder(Aggregate[e]) \/ TrackingHandle(e)
             \/ \E e \in Events, h \in Handlers : RetryDue(e, h)
             \/ \E e \in Events, r \in Result : OtherHandle(e, r)
             \/ UNCHANGED <<feedVars, streamVars>>
             \/ Prune
      PROVE  UNCHANGED <<aged, streamVars>>
  BY <1>8 DEF EmitAndWake, DeleteOrder, TrackingHandle, RetryDue, OtherHandle, Prune, trackingVars, feedVars
<1> QED BY <1>2, <1>3, <1>4, <1>5, <1>6, <1>7, <1>8, TrackingSteps

-----------------------------------------------------------------------------
(* The invariant holds when main starts.                                     *)
LEMMA TrackingInitInv == TrackingInit => TrackingInv
<1> SUFFICES ASSUME TrackingInit PROVE TrackingInv OBVIOUS
<1>1. 1 \in DOMAIN HandlerSeq
  <2>1. HandlerSeq \in Seq(Handlers) /\ HandlerSeq # <<>> BY DispatcherAssumption
  <2> QED BY <2>1
<1>2. \A x \in Events : at[x] = 0 /\ ~Written(x) BY DEF TrackingInit, DispatchInit, Written
<1>3. DispatchTypeOK
  BY <1>1 DEF TrackingInit, DispatchInit, DispatchTypeOK, RowState, Result
<1>4. TrackingTypeOK BY <1>3, TrackingAssumption, FaultsAssumption DEF TrackingInit, TrackingTypeOK
<1>5. RanksAreBounded
  <2>1. IsFiniteSet(WrittenEvents) BY DispatcherAssumption, FS_Subset DEF WrittenEvents
  <2>2. Cardinality(WrittenEvents) \in Nat BY <2>1, FS_CardinalityType
  <2> QED BY <1>2, <2>2 DEF RanksAreBounded
<1>6. RanksDiffer /\ BatchIsWritten BY <1>2 DEF RanksDiffer, BatchIsWritten, TrackingInit, DispatchInit
<1>7. RowsAreWritten BY DEF RowsAreWritten, TrackingInit, DispatchInit
<1>8. HandledWasStored BY DEF HandledWasStored, TrackingInit, DispatchInit
<1>9. DoneWasRecorded BY TrackingAssumption DEF DoneWasRecorded, TrackingInit, DispatchInit
<1>10. CursorIsTheClients /\ FreshSkipsPruned /\ ReadIsChecked
  BY DEF CursorIsTheClients, FreshSkipsPruned, ReadIsChecked, TrackingInit
<1> QED BY <1>4, <1>5, <1>6, <1>7, <1>8, <1>9, <1>10 DEF TrackingInv

(* No step breaks it.                                                        *)
LEMMA TrackingNextInv == TrackingInv /\ [TrackingNext]_trackingVars => TrackingInv'
<1> SUFFICES ASSUME TrackingInv, [TrackingNext]_trackingVars PROVE TrackingInv' OBVIOUS
<1>1. DispatchTypeOK' BY DispatchTypesStep
<1>2. TrackingTypeOK' BY <1>1, StreamTypesStep DEF TrackingTypeOK
<1>3. RanksInv' BY RanksStep
<1>4. BatchIsWritten' BY BatchStep
<1>5. HandledWasStored' BY HandledStep
<1>6. DoneWasRecorded' BY DoneStep
<1>7. StreamInv' BY StreamInvStep
<1> QED BY <1>2, <1>3, <1>4, <1>5, <1>6, <1>7 DEF TrackingInv, RanksInv, StreamInv

(* It holds in every state the program reaches.                              *)
LEMMA TrackingInvariant == TrackingSpec => []TrackingInv
BY TrackingInitInv, TrackingNextInv, PTL DEF TrackingSpec

(* dispatchOne: a tracking row is marked dispatched only after its state was *)
(* stored for the channel, through every failed Handle, failed mark, backoff *)
(* reset, deleted order and restart of main, for any number of events and    *)
(* handlers.                                                                 *)
THEOREM NoTrackingRowIsLost == TrackingSpec => []DoneWasRecorded
<1>1. TrackingInv => DoneWasRecorded BY DEF TrackingInv
<1> QED BY <1>1, TrackingInvariant, PTL

-----------------------------------------------------------------------------
(* A read hands out all the stored events after its cursor up to the highest *)
(* one it sends.                                                             *)
LEMMA NextUnreadIsDense ==
  ASSUME TrackingTypeOK, NextUnread # {},
         NEW id \in Nat, id > last, id > pruned, id <= Max(NextUnread)
  PROVE  id \in NextUnread
<1> DEFINE top == Max(NextUnread)
           below(n) == {x \in Unread : x < n}
<1>1. top \in NextUnread /\ top \in last + 1..Len(feed) BY NextUnreadMax
<1>2. Len(feed) \in Nat /\ last \in Nat /\ pruned \in Nat BY DEF TrackingTypeOK
<1>3. Cardinality(below(top)) < Limit BY <1>1 DEF NextUnread
<1>4. top \in Nat /\ top <= Len(feed) BY <1>1, <1>2
<1>5. id \in Unread
  <2> HIDE DEF top
  <2>1. id <= top BY DEF top
  <2>2. id \in last + 1..Len(feed) /\ id \in pruned + 1..Len(feed) BY <1>2, <1>4, <2>1
  <2> QED BY <2>2 DEF Unread, Has
<1>6. IsFiniteSet(Unread)
  <2>1. IsFiniteSet(last + 1..Len(feed)) BY <1>2, FS_Interval
  <2> QED BY <2>1, FS_Subset DEF Unread
<1>7. IsFiniteSet(below(top)) /\ Cardinality(below(top)) \in Nat BY <1>6, FS_Subset, FS_CardinalityType
<1>8. below(id) \subseteq below(top)
  <2>1. \A x \in Unread : x \in Nat BY <1>2 DEF Unread
  <2> QED BY <2>1, <1>4
<1>9. IsFiniteSet(below(id)) /\ Cardinality(below(id)) <= Cardinality(below(top)) BY <1>7, <1>8, FS_Subset
<1>10. Cardinality(below(id)) \in Nat BY <1>9, FS_CardinalityType
<1>11. Limit \in Nat BY TrackingAssumption
<1>12. Cardinality(below(id)) < Limit
  <2> HIDE DEF below, top
  <2> QED BY <1>3, <1>7, <1>9, <1>10, <1>11
<1> QED BY <1>5, <1>12 DEF NextUnread

(* One step of the stream: what the client is not sent was left out by its   *)
(* fresh start or pruned between the two queries.                            *)
LEMMA NoGapStep ==
  ASSUME TrackingInv, [TrackingNext]_trackingVars,
         NEW id \in 1..cursor', id > cursor, id > from
  PROVE  id \in NextUnread \/ id \in checked + 1..pruned
<1>0. TrackingTypeOK /\ CursorIsTheClients /\ FreshSkipsPruned /\ ReadIsChecked BY DEF TrackingInv
<1>1. Len(feed) \in Nat /\ cursor \in Nat /\ cursor' \in Nat
  BY <1>0, StreamTypesStep DEF TrackingTypeOK
<1>2. ReadEvents
  <2>1. cursor' # cursor BY <1>1
  <2>2. ASSUME \/ UNCHANGED trackingVars
               \/ \E e \in Events : EmitAndWake(e) \/ DeleteOrder(Aggregate[e]) \/ TrackingHandle(e)
               \/ \E e \in Events, h \in Handlers : RetryDue(e, h)
               \/ \E e \in Events, r \in Result : OtherHandle(e, r)
               \/ UNCHANGED <<feedVars, streamVars>>
               \/ Prune \/ Age
        PROVE  cursor' = cursor
    BY <2>2 DEF EmitAndWake, DeleteOrder, TrackingHandle, RetryDue, OtherHandle, Prune, Age, trackingVars,
       streamVars
  <2>3. ASSUME Open \/ StreamEnds \/ Start \/ CheckCursor \/ Reset \/ MainRestarts
        PROVE  cursor' = cursor
    BY <2>3 DEF Open, StreamEnds, Start, CheckCursor, Reset, MainRestarts
  <2> QED BY <2>1, <2>2, <2>3, TrackingSteps
<1>3. NextUnread # {} /\ cursor' = Max(NextUnread) BY <1>1, <1>2 DEF ReadEvents
<1>4. spc = "read" BY <1>2 DEF ReadEvents
<1>5. id \in Nat /\ id <= Max(NextUnread) BY <1>1, <1>3
<1>6. id > last BY <1>0, <1>1, <1>4, <1>5 DEF CursorIsTheClients, TrackingTypeOK
<1>7. CASE id > pruned BY <1>0, <1>3, <1>5, <1>6, <1>7, NextUnreadIsDense
<1>8. CASE id <= pruned
  <2>1. id > checked
    BY <1>0, <1>1, <1>4, <1>5, <1>6, <1>8 DEF FreshSkipsPruned, ReadIsChecked, TrackingTypeOK
  <2> QED BY <1>0, <1>5, <1>8, <2>1 DEF TrackingTypeOK
<1> QED BY <1>0, <1>5, <1>7, <1>8 DEF TrackingTypeOK

(* handler/tracking.go Events: a stream that goes on from a Last-Event-ID    *)
(* sends every stored event after it, in batches of any size, whatever is    *)
(* written, pruned and reset meanwhile; an event pruned before the resume is *)
(* announced by a reset, never skipped in silence.                           *)
THEOREM ResumeHasNoGap == TrackingSpec => NoSilentGap
<1>1. TrackingInv /\ [TrackingNext]_trackingVars =>
        [\A id \in 1..cursor' : id > cursor /\ id > from =>
           id \in NextUnread \/ id \in checked + 1..pruned]_trackingVars
  BY NoGapStep
<1> QED BY <1>1, TrackingInvariant, PTL DEF TrackingSpec, NoSilentGap

=============================================================================
