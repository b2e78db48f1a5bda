--------------------------- MODULE SellingProofs ---------------------------
(* Selling, for any hours, menus, requests and interleavings of the two:     *)
(* placing an order once, giving its money back and keeping it               *)
(* (OrderPlacement), and the promises, the status, the restocking and the    *)
(* prices of a store (Storefront).                                           *)
EXTENDS OrderPlacement, Storefront, FiniteSetTheorems, NaturalsInduction, SequenceTheorems, WellFoundedInduction, TLAPS

-----------------------------------------------------------------------------
(* Placing orders.                                                           *)


(* What the variables hold, without the bounds of the model checker.       *)
PlacementTypes ==
  /\ req \in [Requests -> {NoRequest} \cup [at : Steps, key : Keys]]
  /\ orders \in [Keys -> {"none", "saved", "deleted"}]
  /\ charges \in [Keys -> Nat]
  /\ refunds \in [Keys -> Nat]
  /\ answers \in [Keys -> SUBSET {"created", "existing", "refused", "error"}]
  /\ inserts \in [Keys -> Nat]
  /\ deletes \in [Keys -> Nat]
  /\ stranded \in SUBSET Keys
  /\ crossed \in SUBSET Keys
  /\ spoilt \in SUBSET Keys
  /\ faults \in Nat

(* r is a running Place call with key k.                                   *)
Runs(r, k) == req[r] # NoRequest /\ req[r].key = k

(* The rows of a key are the inserts no admin has deleted.                 *)
RowsBalance ==
  \A k \in Keys : inserts[k] = deletes[k] + (IF orders[k] = "saved" THEN 1 ELSE 0)

(* What was answered as an order was one.                                  *)
AnsweredWasSaved ==
  \A k \in Keys : answers[k] \cap {"created", "existing"} # {} => inserts[k] > 0

(* Cash orders have no charge.                                             *)
CashIsNotCharged == \A k \in Cash : charges[k] = 0

(* A charge without an order has been refunded or is stranded, or the call *)
(* that will save the order or refund the charge is still running.         *)
ChargeIsOwed ==
  \A k \in Keys :
    charges[k] > 0 /\ inserts[k] = 0 /\ k \notin stranded /\ refunds[k] = 0 =>
      \E r \in Requests : Runs(r, k) /\ req[r].at \in {"create", "refund"}

(* Two calls run with one key only when the key has crossed.               *)
OneCallPerKey ==
  \A k \in Keys \ crossed : \A r, s \in Requests : Runs(r, k) /\ Runs(s, k) => r = s

(* The one call of a key that never crossed: past the lookup it is the     *)
(* only one that could have saved the order, so no save of its meets a     *)
(* duplicate, and only a failed save gives the charge back.                *)
CalmKeys ==
  \A k \in Keys \ crossed :
    /\ k \notin spoilt => refunds[k] = 0
    /\ \A r \in Requests :
         Runs(r, k) => \/ req[r].at \in {"lookup", "refund"}
                       \/ req[r].at \in {"check", "charge", "create"} /\ orders[k] # "saved"

PlacementInv ==
  /\ PlacementTypes
  /\ RowsBalance
  /\ AnsweredWasSaved
  /\ CashIsNotCharged
  /\ ChargeIsOwed
  /\ OneCallPerKey
  /\ CalmKeys

-----------------------------------------------------------------------------
(* A running call has a step and a key.                                    *)
LEMMA RunningCall ==
  ASSUME PlacementTypes, NEW r \in Requests, req[r] # NoRequest
  PROVE  req[r] \in [at : Steps, key : Keys]
BY DEF PlacementTypes

(* Going on to the next step changes one call's place and no answer.       *)
LEMMA GotoMoves ==
  ASSUME PlacementTypes, NEW r \in Requests, req[r] # NoRequest,
         NEW step \in Steps, Goto(r, step)
  PROVE  /\ req' \in [Requests -> {NoRequest} \cup [at : Steps, key : Keys]]
         /\ req'[r] # NoRequest /\ req'[r].at = step /\ req'[r].key = req[r].key
         /\ \A s \in Requests \ {r} : req'[s] = req[s]
         /\ answers' = answers
<1>1. req[r] \in [at : Steps, key : Keys] BY RunningCall
<1>2. req' = [req EXCEPT ![r].at = step] /\ answers' = answers BY DEF Goto
<1>3. req'[r] = [at |-> step, key |-> req[r].key]
  BY <1>1, <1>2 DEF PlacementTypes
<1>4. req'[r] # NoRequest
  <2>1. step # "idle" BY DEF Steps
  <2>2. req'[r].at # NoRequest.at BY <1>3, <2>1 DEF NoRequest
  <2> QED BY <2>2
<1> QED BY <1>1, <1>2, <1>3, <1>4 DEF PlacementTypes

(* An answer frees the call and is added to its key's answers.             *)
LEMMA AnswerEnds ==
  ASSUME PlacementTypes, NEW r \in Requests, req[r] # NoRequest,
         NEW a \in {"created", "existing", "refused", "error"}, Answer(r, a)
  PROVE  /\ req' \in [Requests -> {NoRequest} \cup [at : Steps, key : Keys]]
         /\ req'[r] = NoRequest
         /\ \A s \in Requests \ {r} : req'[s] = req[s]
         /\ answers' \in [Keys -> SUBSET {"created", "existing", "refused", "error"}]
         /\ \A k \in Keys : answers'[k] = IF k = req[r].key THEN answers[k] \cup {a} ELSE answers[k]
<1>1. req[r].key \in Keys BY RunningCall
<1> QED BY <1>1 DEF PlacementTypes, Answer

(* A step of one call: it moves on or ends, the others stay where they are. *)
OneCallMoves(r) ==
  /\ req[r] # NoRequest
  /\ \A s \in Requests \ {r} : req'[s] = req[s]
  /\ req'[r] # NoRequest => req'[r].key = req[r].key

(* What is left to show of a step that moves one call: a charge it leaves  *)
(* without an order was owed by another call before, or is owed by this    *)
(* one now, and a calm key stays calm.                                     *)
LEMMA OneCallKeeps ==
  ASSUME PlacementInv, NEW r \in Requests, OneCallMoves(r), UNCHANGED crossed,
         PlacementTypes', RowsBalance', AnsweredWasSaved', CashIsNotCharged',
         \A k \in Keys :
           charges'[k] > 0 /\ inserts'[k] = 0 /\ k \notin stranded' /\ refunds'[k] = 0 =>
             \/ /\ charges[k] > 0 /\ inserts[k] = 0 /\ k \notin stranded /\ refunds[k] = 0
                /\ ~(Runs(r, k) /\ req[r].at \in {"create", "refund"})
             \/ Runs(r, k)' /\ req'[r].at \in {"create", "refund"},
         spoilt \subseteq spoilt',
         \A k \in Keys \ {req[r].key} : orders'[k] = orders[k] /\ refunds'[k] = refunds[k],
         req[r].key \notin crossed =>
           /\ req[r].key \notin spoilt' => refunds'[req[r].key] = 0
           /\ req'[r] # NoRequest =>
                \/ req'[r].at \in {"lookup", "refund"}
                \/ req'[r].at \in {"check", "charge", "create"} /\ orders'[req[r].key] # "saved"
  PROVE  PlacementInv'
<1>0. PlacementTypes /\ ChargeIsOwed /\ OneCallPerKey /\ CalmKeys BY DEF PlacementInv
<1>1. ChargeIsOwed'
  <2> SUFFICES ASSUME NEW k \in Keys,
                      charges'[k] > 0 /\ inserts'[k] = 0 /\ k \notin stranded' /\ refunds'[k] = 0
               PROVE  \E s \in Requests : Runs(s, k)' /\ req'[s].at \in {"create", "refund"}
    BY DEF ChargeIsOwed
  <2>1. CASE Runs(r, k)' /\ req'[r].at \in {"create", "refund"} BY <2>1
  <2>2. CASE /\ charges[k] > 0 /\ inserts[k] = 0 /\ k \notin stranded /\ refunds[k] = 0
             /\ ~(Runs(r, k) /\ req[r].at \in {"create", "refund"})
    <3>1. PICK s \in Requests : Runs(s, k) /\ req[s].at \in {"create", "refund"}
      BY <1>0, <2>2 DEF ChargeIsOwed
    <3>2. s # r BY <2>2, <3>1
    <3>3. req'[s] = req[s] BY <3>2 DEF OneCallMoves
    <3> QED BY <3>1, <3>3 DEF Runs
  <2> QED BY <2>1, <2>2
<1>2. \A k \in Keys, s \in Requests : Runs(s, k)' => Runs(s, k)
  BY DEF Runs, OneCallMoves
<1>3. OneCallPerKey' BY <1>0, <1>2 DEF OneCallPerKey
<1>4. CalmKeys'
  <2> SUFFICES ASSUME NEW k \in Keys \ crossed
               PROVE  /\ k \notin spoilt' => refunds'[k] = 0
                      /\ \A s \in Requests :
                           Runs(s, k)' => \/ req'[s].at \in {"lookup", "refund"}
                                          \/ req'[s].at \in {"check", "charge", "create"} /\ orders'[k] # "saved"
    BY DEF CalmKeys
  <2>1. CASE k = req[r].key
    <3>1. \A s \in Requests : Runs(s, k)' => s = r
      BY <1>0, <1>2, <2>1 DEF OneCallPerKey, Runs, OneCallMoves
    <3> QED BY <2>1, <3>1 DEF Runs
  <2>2. CASE k # req[r].key
    <3>1. \A s \in Requests : Runs(s, k)' => s # r BY <1>2, <2>2 DEF Runs
    <3>2. \A s \in Requests : Runs(s, k)' => req'[s] = req[s] /\ Runs(s, k)
      BY <1>2, <3>1 DEF OneCallMoves
    <3>3. refunds'[k] = refunds[k] /\ orders'[k] = orders[k] BY <2>2
    <3> QED BY <1>0, <3>2, <3>3 DEF CalmKeys
  <2> QED BY <2>1, <2>2
<1> QED BY <1>1, <1>3, <1>4 DEF PlacementInv

-----------------------------------------------------------------------------
(* Nothing is placed, charged or saved at the start.                       *)
LEMMA PlacementInitInv == PlacementInit => PlacementInv
<1> SUFFICES ASSUME PlacementInit PROVE PlacementInv OBVIOUS
<1>1. PlacementTypes BY DEF PlacementInit, PlacementTypes
<1>2. \A r \in Requests, k \in Keys : ~Runs(r, k) BY DEF PlacementInit, Runs
<1>3. RowsBalance /\ AnsweredWasSaved BY DEF PlacementInit, RowsBalance, AnsweredWasSaved
<1>4. CashIsNotCharged BY PlacementAssumption DEF PlacementInit, CashIsNotCharged
<1>5. ChargeIsOwed BY DEF PlacementInit, ChargeIsOwed
<1>6. OneCallPerKey BY <1>2 DEF OneCallPerKey
<1>7. CalmKeys BY <1>2 DEF PlacementInit, CalmKeys
<1> QED BY <1>1, <1>3, <1>4, <1>5, <1>6, <1>7 DEF PlacementInv

(* A new call of a key that is not quiet crosses it.                       *)
LEMMA PlaceInv ==
  ASSUME PlacementInv, NEW r \in Requests, NEW k \in Keys, Place(r, k)
  PROVE  PlacementInv'
<1>0. /\ PlacementTypes /\ RowsBalance /\ AnsweredWasSaved /\ CashIsNotCharged
      /\ ChargeIsOwed /\ OneCallPerKey /\ CalmKeys
  BY DEF PlacementInv
<1>1. UNCHANGED <<orders, charges, refunds, answers, inserts, deletes, stranded, spoilt, faults>>
  BY DEF Place, gatewayVars
<1>2. /\ req[r] = NoRequest
      /\ req'[r] = [at |-> "lookup", key |-> k]
      /\ \A s \in Requests \ {r} : req'[s] = req[s]
  BY <1>0 DEF Place, PlacementTypes
<1>3. PlacementTypes' BY <1>0, <1>1 DEF Place, PlacementTypes, Steps
<1>4. crossed \subseteq crossed' /\ (k \notin crossed' => Quiet(k)) BY DEF Place
<1>5. RowsBalance' /\ AnsweredWasSaved' /\ CashIsNotCharged'
  BY <1>0, <1>1 DEF RowsBalance, AnsweredWasSaved, CashIsNotCharged
<1>6. \A s \in Requests, j \in Keys : Runs(s, j)' => (Runs(s, j) /\ s # r) \/ (s = r /\ j = k)
  BY <1>2 DEF Runs
<1>7. ChargeIsOwed'
  <2>1. \A s \in Requests, j \in Keys : Runs(s, j) => s # r /\ Runs(s, j)' /\ req'[s] = req[s]
    BY <1>2 DEF Runs
  <2> QED BY <1>0, <1>1, <2>1 DEF ChargeIsOwed
<1>8. OneCallPerKey'
  <2> SUFFICES ASSUME NEW j \in Keys, j \notin crossed', NEW s \in Requests, NEW t \in Requests,
                      Runs(s, j)', Runs(t, j)'
               PROVE  s = t
    BY DEF OneCallPerKey
  <2>1. CASE j = k
    <3>1. \A x \in Requests : ~Runs(x, j) BY <1>4, <2>1 DEF Quiet, Runs
    <3> QED BY <1>6, <3>1
  <2>2. CASE j # k BY <1>0, <1>4, <1>6, <2>2 DEF OneCallPerKey
  <2> QED BY <2>1, <2>2
<1>9. CalmKeys'
  <2> SUFFICES ASSUME NEW j \in Keys, j \notin crossed'
               PROVE  /\ j \notin spoilt' => refunds'[j] = 0
                      /\ \A s \in Requests :
                           Runs(s, j)' => \/ req'[s].at \in {"lookup", "refund"}
                                          \/ req'[s].at \in {"check", "charge", "create"} /\ orders'[j] # "saved"
    BY DEF CalmKeys
  <2>1. j \notin crossed BY <1>4
  <2>2. req'[r].at = "lookup" BY <1>2
  <2>3. \A s \in Requests : s # r => req'[s] = req[s] BY <1>2
  <2> QED BY <1>0, <1>1, <1>6, <2>1, <2>2, <2>3 DEF CalmKeys
<1> QED BY <1>3, <1>5, <1>7, <1>8, <1>9 DEF PlacementInv

(* Lookup, Check and Reread write nothing but their call and its answer.   *)
LEMMA ReadingStepInv ==
  ASSUME PlacementInv, NEW r \in Requests, Lookup(r) \/ Check(r) \/ Reread(r)
  PROVE  PlacementInv'
<1> DEFINE k == req[r].key
<1>0. /\ PlacementTypes /\ RowsBalance /\ AnsweredWasSaved /\ CashIsNotCharged
      /\ OneCallPerKey /\ CalmKeys
  BY DEF PlacementInv
<1>1. UNCHANGED <<orders, charges, refunds, inserts, deletes, stranded, crossed, spoilt>>
  BY DEF Lookup, Check, Reread, gatewayVars
<1>2. req[r] # NoRequest /\ req[r].at \in {"lookup", "check", "reread"}
  BY DEF Lookup, Check, Reread, At
<1>3. k \in Keys /\ Runs(r, k) BY <1>0, <1>2, RunningCall DEF Runs
<1>4. faults' \in Nat BY <1>0 DEF PlacementTypes, Lookup, Check, Reread, Fault, NoFault
<1>5. \/ req[r].at = "lookup" /\ orders[k] # "saved" /\ Goto(r, "check")
      \/ req[r].at = "check" /\ Goto(r, "charge")
      \/ Answer(r, "refused") \/ Answer(r, "error")
      \/ orders[k] = "saved" /\ Answer(r, "existing")
  BY DEF Lookup, Check, Reread, At
<1>6. ASSUME NEW step \in {"check", "charge"}, Goto(r, step),
             step = "charge" => req[r].at = "check",
             step = "check" => orders[k] # "saved"
      PROVE  PlacementInv'
  <2>1. /\ req' \in [Requests -> {NoRequest} \cup [at : Steps, key : Keys]]
        /\ req'[r] # NoRequest /\ req'[r].at = step /\ req'[r].key = k
        /\ \A s \in Requests \ {r} : req'[s] = req[s]
        /\ answers' = answers
    BY <1>0, <1>2, <1>6, GotoMoves DEF Steps
  <2>2. OneCallMoves(r) BY <1>2, <2>1 DEF OneCallMoves
  <2>3. PlacementTypes' BY <1>0, <1>1, <1>4, <2>1 DEF PlacementTypes
  <2>4. RowsBalance' /\ AnsweredWasSaved' /\ CashIsNotCharged'
    BY <1>0, <1>1, <2>1 DEF RowsBalance, AnsweredWasSaved, CashIsNotCharged
  <2>5. k \notin crossed =>
          (k \notin spoilt => refunds[k] = 0) /\ (req[r].at = "check" => orders[k] # "saved")
    BY <1>0, <1>3 DEF CalmKeys
  <2> QED BY <1>1, <1>2, <1>4, <1>6, <2>1, <2>2, <2>3, <2>4, <2>5, OneCallKeeps
<1>7. ASSUME NEW a \in {"existing", "refused", "error"}, Answer(r, a),
             a = "existing" => orders[k] = "saved"
      PROVE  PlacementInv'
  <2>1. /\ req' \in [Requests -> {NoRequest} \cup [at : Steps, key : Keys]]
        /\ req'[r] = NoRequest
        /\ \A s \in Requests \ {r} : req'[s] = req[s]
        /\ answers' \in [Keys -> SUBSET {"created", "existing", "refused", "error"}]
        /\ \A j \in Keys : answers'[j] = IF j = k THEN answers[j] \cup {a} ELSE answers[j]
    <3>1. a \in {"created", "existing", "refused", "error"} OBVIOUS
    <3> QED BY <1>0, <1>2, <1>7, <3>1, AnswerEnds
  <2>2. OneCallMoves(r) BY <1>2, <2>1 DEF OneCallMoves
  <2>3. PlacementTypes' BY <1>0, <1>1, <1>4, <2>1 DEF PlacementTypes
  <2>4. RowsBalance' /\ CashIsNotCharged'
    BY <1>0, <1>1 DEF RowsBalance, CashIsNotCharged
  <2>5. a = "existing" => inserts[k] > 0
    BY <1>0, <1>3, <1>7 DEF RowsBalance, PlacementTypes
  <2>6. AnsweredWasSaved' BY <1>0, <1>1, <2>1, <2>5 DEF AnsweredWasSaved
  <2>7. k \notin crossed \cup spoilt => refunds[k] = 0 BY <1>0, <1>3 DEF CalmKeys
  <2> QED BY <1>1, <1>2, <1>4, <2>1, <2>2, <2>3, <2>4, <2>6, <2>7, OneCallKeeps
<1> QED BY <1>5, <1>6, <1>7

(* A charge the gateway confirms is owed by the call that goes on to       *)
(* create; one it does not confirm is stranded.                            *)
LEMMA ChargeInv ==
  ASSUME PlacementInv, NEW r \in Requests, Charge(r)
  PROVE  PlacementInv'
<1> DEFINE k == req[r].key
<1>0. /\ PlacementTypes /\ RowsBalance /\ AnsweredWasSaved /\ CashIsNotCharged
      /\ OneCallPerKey /\ CalmKeys
  BY DEF PlacementInv
<1>1. UNCHANGED <<orders, refunds, inserts, deletes, crossed, spoilt>> BY DEF Charge
<1>2. req[r] # NoRequest /\ req[r].at = "charge" BY DEF Charge, At
<1>3. k \in Keys /\ Runs(r, k) BY <1>0, <1>2, RunningCall DEF Runs
<1>4. faults' \in Nat BY <1>0 DEF PlacementTypes, Charge, Fault, NoFault
<1>5. \/ charges' = Charged(k) /\ Goto(r, "create") /\ UNCHANGED stranded
      \/ Answer(r, "refused") /\ UNCHANGED <<charges, stranded>>
      \/ Answer(r, "error") /\ UNCHANGED <<charges, stranded>>
      \/ charges' = Charged(k) /\ Answer(r, "error") /\ stranded' = stranded \cup {k}
  BY DEF Charge
<1>6. /\ Charged(k) \in [Keys -> Nat]
      /\ \A j \in Keys \ {k} : Charged(k)[j] = charges[j]
      /\ k \in Cash => Charged(k) = charges
  BY <1>0, <1>3 DEF PlacementTypes, Charged
<1>7. k \notin crossed => (k \notin spoilt => refunds[k] = 0) /\ orders[k] # "saved"
  BY <1>0, <1>2, <1>3 DEF CalmKeys
<1>8. RowsBalance' BY <1>0, <1>1 DEF RowsBalance
<1>9. CASE charges' = Charged(k) /\ Goto(r, "create") /\ UNCHANGED stranded
  <2>1. /\ req' \in [Requests -> {NoRequest} \cup [at : Steps, key : Keys]]
        /\ req'[r] # NoRequest /\ req'[r].at = "create" /\ req'[r].key = k
        /\ \A s \in Requests \ {r} : req'[s] = req[s]
        /\ answers' = answers
    BY <1>0, <1>2, <1>9, GotoMoves DEF Steps
  <2>2. OneCallMoves(r) BY <1>2, <2>1 DEF OneCallMoves
  <2>3. PlacementTypes' BY <1>0, <1>1, <1>4, <1>6, <1>9, <2>1 DEF PlacementTypes
  <2>4. AnsweredWasSaved' BY <1>0, <1>1, <2>1 DEF AnsweredWasSaved
  <2>5. CashIsNotCharged'
    BY <1>0, <1>6, <1>9, PlacementAssumption DEF CashIsNotCharged
  <2>6. Runs(r, k)' BY <2>1 DEF Runs
  <2>7. \A j \in Keys \ {k} : charges'[j] = charges[j] /\ ~Runs(r, j)
    BY <1>6, <1>9 DEF Runs
  <2> QED BY <1>1, <1>4, <1>7, <1>8, <1>9, <2>1, <2>2, <2>3, <2>4, <2>5, <2>6, <2>7, OneCallKeeps
<1>10. ASSUME NEW a \in {"refused", "error"}, Answer(r, a),
              \/ UNCHANGED <<charges, stranded>>
              \/ charges' = Charged(k) /\ stranded' = stranded \cup {k}
       PROVE  PlacementInv'
  <2>1. /\ req' \in [Requests -> {NoRequest} \cup [at : Steps, key : Keys]]
        /\ req'[r] = NoRequest
        /\ \A s \in Requests \ {r} : req'[s] = req[s]
        /\ answers' \in [Keys -> SUBSET {"created", "existing", "refused", "error"}]
        /\ \A j \in Keys : answers'[j] = IF j = k THEN answers[j] \cup {a} ELSE answers[j]
    BY <1>0, <1>2, <1>10, AnswerEnds
  <2>2. OneCallMoves(r) BY <1>2, <2>1 DEF OneCallMoves
  <2>3. PlacementTypes' BY <1>0, <1>1, <1>3, <1>4, <1>6, <1>10, <2>1 DEF PlacementTypes
  <2>4. AnsweredWasSaved' BY <1>0, <1>1, <2>1 DEF AnsweredWasSaved
  <2>5. CashIsNotCharged'
    BY <1>0, <1>6, <1>10, PlacementAssumption DEF CashIsNotCharged
  <2>6. \A j \in Keys : charges'[j] > 0 /\ j \notin stranded' =>
          charges[j] > 0 /\ j \notin stranded
    BY <1>6, <1>10
  <2>7. \A j \in Keys : ~(Runs(r, j) /\ req[r].at \in {"create", "refund"}) BY <1>2
  <2> QED BY <1>1, <1>4, <1>7, <1>8, <2>1, <2>2, <2>3, <2>4, <2>5, <2>6, <2>7, OneCallKeeps
<1> QED BY <1>5, <1>9, <1>10

(* A save answers, or hands the charge to the call's refund; the duplicate *)
(* has an order, and is met by no call of a calm key.                      *)
LEMMA CreateInv ==
  ASSUME PlacementInv, NEW r \in Requests, Create(r)
  PROVE  PlacementInv'
<1> DEFINE k == req[r].key
<1>0. /\ PlacementTypes /\ RowsBalance /\ AnsweredWasSaved /\ CashIsNotCharged
      /\ OneCallPerKey /\ CalmKeys
  BY DEF PlacementInv
<1>1. UNCHANGED <<charges, refunds, deletes, stranded, crossed, spoilt>> BY DEF Create, gatewayVars
<1>2. req[r] # NoRequest /\ req[r].at = "create" BY DEF Create, At
<1>3. k \in Keys /\ Runs(r, k) BY <1>0, <1>2, RunningCall DEF Runs
<1>4. faults' \in Nat BY <1>0 DEF PlacementTypes, Create, Fault, NoFault
<1>5. \/ /\ orders[k] # "saved"
         /\ orders' = [orders EXCEPT ![k] = "saved"]
         /\ inserts' = [inserts EXCEPT ![k] = @ + 1]
      \/ UNCHANGED <<orders, inserts>>
  BY DEF Create
<1>6. \/ Answer(r, "created") /\ inserts' = [inserts EXCEPT ![k] = @ + 1]
      \/ Goto(r, "refund")
      \/ Goto(r, "refund_dup") /\ orders[k] = "saved" /\ UNCHANGED inserts
  BY DEF Create
<1>7. k \notin crossed => (k \notin spoilt => refunds[k] = 0) /\ orders[k] # "saved"
  BY <1>0, <1>2, <1>3 DEF CalmKeys
<1>8. /\ orders' \in [Keys -> {"none", "saved", "deleted"}]
      /\ inserts' \in [Keys -> Nat]
      /\ \A j \in Keys \ {k} : orders'[j] = orders[j] /\ inserts'[j] = inserts[j]
      /\ \A j \in Keys : inserts'[j] = 0 => inserts[j] = 0
  BY <1>0, <1>3, <1>5 DEF PlacementTypes
<1>9. RowsBalance' BY <1>0, <1>1, <1>3, <1>5 DEF RowsBalance, PlacementTypes
<1>10. CashIsNotCharged' BY <1>0, <1>1 DEF CashIsNotCharged
<1>11. CASE Answer(r, "created") /\ inserts' = [inserts EXCEPT ![k] = @ + 1]
  <2>1. /\ req' \in [Requests -> {NoRequest} \cup [at : Steps, key : Keys]]
        /\ req'[r] = NoRequest
        /\ \A s \in Requests \ {r} : req'[s] = req[s]
        /\ answers' \in [Keys -> SUBSET {"created", "existing", "refused", "error"}]
        /\ \A j \in Keys : answers'[j] = IF j = k THEN answers[j] \cup {"created"} ELSE answers[j]
    BY <1>0, <1>2, <1>11, AnswerEnds
  <2>2. OneCallMoves(r) BY <1>2, <2>1 DEF OneCallMoves
  <2>3. PlacementTypes' BY <1>0, <1>1, <1>4, <1>8, <2>1 DEF PlacementTypes
  <2>4. inserts'[k] > 0 BY <1>0, <1>3, <1>11 DEF PlacementTypes
  <2>5. AnsweredWasSaved' BY <1>0, <1>8, <2>1, <2>4 DEF AnsweredWasSaved
  <2>6. \A j \in Keys : inserts'[j] = 0 => j # k /\ ~Runs(r, j) BY <2>4 DEF Runs
  <2> QED BY <1>1, <1>4, <1>7, <1>8, <1>9, <1>10, <2>1, <2>2, <2>3, <2>5, <2>6, OneCallKeeps
<1>12. ASSUME NEW step \in {"refund", "refund_dup"}, Goto(r, step),
              \/ step = "refund"
              \/ step = "refund_dup" /\ orders[k] = "saved" /\ UNCHANGED inserts
       PROVE  PlacementInv'
  <2>1. /\ req' \in [Requests -> {NoRequest} \cup [at : Steps, key : Keys]]
        /\ req'[r] # NoRequest /\ req'[r].at = step /\ req'[r].key = k
        /\ \A s \in Requests \ {r} : req'[s] = req[s]
        /\ answers' = answers
    BY <1>0, <1>2, <1>12, GotoMoves DEF Steps
  <2>2. OneCallMoves(r) BY <1>2, <2>1 DEF OneCallMoves
  <2>3. PlacementTypes' BY <1>0, <1>1, <1>4, <1>8, <2>1 DEF PlacementTypes
  <2>4. \A j \in Keys : inserts[j] > 0 => inserts'[j] > 0
    BY <1>0, <1>8 DEF PlacementTypes
  <2>5. AnsweredWasSaved' BY <1>0, <2>1, <2>4 DEF AnsweredWasSaved
  <2>6. step = "refund_dup" => inserts'[k] > 0
    BY <1>0, <1>3, <1>12 DEF RowsBalance, PlacementTypes
  <2>7. Runs(r, k)' /\ \A j \in Keys : Runs(r, j) => j = k BY <2>1 DEF Runs
  <2>8. \A j \in Keys :
          charges'[j] > 0 /\ inserts'[j] = 0 /\ j \notin stranded' /\ refunds'[j] = 0 =>
             \/ /\ charges[j] > 0 /\ inserts[j] = 0 /\ j \notin stranded /\ refunds[j] = 0
                /\ ~(Runs(r, j) /\ req[r].at \in {"create", "refund"})
             \/ Runs(r, j)' /\ req'[r].at \in {"create", "refund"}
    BY <1>1, <1>8, <2>1, <2>6, <2>7
  <2>9. k \notin crossed => step = "refund" BY <1>7, <1>12
  <2> QED BY <1>1, <1>4, <1>7, <1>8, <1>9, <1>10, <2>1, <2>2, <2>3, <2>5, <2>8, <2>9, OneCallKeeps
<1> QED BY <1>6, <1>11, <1>12

(* A refund gives the charge back, or leaves it stranded and says so.      *)
LEMMA RefundInv ==
  ASSUME PlacementInv, NEW r \in Requests, Refund(r)
  PROVE  PlacementInv'
<1> DEFINE k == req[r].key
<1>0. /\ PlacementTypes /\ RowsBalance /\ AnsweredWasSaved /\ CashIsNotCharged
      /\ OneCallPerKey /\ CalmKeys
  BY DEF PlacementInv
<1>1. UNCHANGED <<orders, charges, inserts, deletes, crossed>> BY DEF Refund
<1>2. req[r] # NoRequest /\ req[r].at \in {"refund", "refund_dup"} BY DEF Refund, At
<1>3. k \in Keys /\ Runs(r, k) BY <1>0, <1>2, RunningCall DEF Runs
<1>4. faults' \in Nat BY <1>0 DEF PlacementTypes, Refund, Fault, NoFault
<1>5. \/ /\ refunds' = IF k \in Cash THEN refunds ELSE [refunds EXCEPT ![k] = @ + 1]
         /\ spoilt' = IF req[r].at = "refund" THEN spoilt \cup {k} ELSE spoilt
         /\ UNCHANGED stranded
      \/ stranded' = stranded \cup {k} /\ UNCHANGED <<refunds, spoilt>>
  BY <1>2 DEF Refund, At
<1>6. /\ refunds' \in [Keys -> Nat] /\ stranded' \in SUBSET Keys /\ spoilt' \in SUBSET Keys
      /\ stranded \subseteq stranded' /\ spoilt \subseteq spoilt'
      /\ \A j \in Keys \ {k} : refunds'[j] = refunds[j] /\ (j \in stranded' <=> j \in stranded)
  BY <1>0, <1>3, <1>5 DEF PlacementTypes
<1>7. charges[k] > 0 => k \in stranded' \/ refunds'[k] > 0
  <2>1. charges[k] > 0 => k \notin Cash BY <1>0 DEF CashIsNotCharged
  <2> QED BY <1>0, <1>3, <1>5, <2>1 DEF PlacementTypes
<1>8. k \notin crossed => req[r].at = "refund" /\ (k \notin spoilt' => refunds'[k] = 0)
  <2>1. k \notin crossed => req[r].at = "refund" /\ (k \notin spoilt => refunds[k] = 0)
    BY <1>0, <1>2, <1>3 DEF CalmKeys
  <2> QED BY <1>5, <2>1
<1>9. RowsBalance' /\ CashIsNotCharged' BY <1>0, <1>1 DEF RowsBalance, CashIsNotCharged
<1>10. \A j \in Keys :
         charges'[j] > 0 /\ inserts'[j] = 0 /\ j \notin stranded' /\ refunds'[j] = 0 =>
            /\ charges[j] > 0 /\ inserts[j] = 0 /\ j \notin stranded /\ refunds[j] = 0
            /\ ~(Runs(r, j) /\ req[r].at \in {"create", "refund"})
  BY <1>1, <1>6, <1>7 DEF Runs
<1>11. CASE Goto(r, "reread") /\ req[r].at = "refund_dup"
  <2>1. /\ req' \in [Requests -> {NoRequest} \cup [at : Steps, key : Keys]]
        /\ req'[r].key = k
        /\ \A s \in Requests \ {r} : req'[s] = req[s]
        /\ answers' = answers
    BY <1>0, <1>2, <1>11, GotoMoves DEF Steps
  <2>2. OneCallMoves(r) BY <1>2, <2>1 DEF OneCallMoves
  <2>3. PlacementTypes' BY <1>0, <1>1, <1>4, <1>6, <2>1 DEF PlacementTypes
  <2>4. AnsweredWasSaved' BY <1>0, <1>1, <2>1 DEF AnsweredWasSaved
  <2> QED BY <1>1, <1>4, <1>6, <1>8, <1>9, <1>10, <1>11, <2>1, <2>2, <2>3, <2>4, OneCallKeeps
<1>12. CASE Answer(r, "error")
  <2>1. /\ req' \in [Requests -> {NoRequest} \cup [at : Steps, key : Keys]]
        /\ req'[r] = NoRequest
        /\ \A s \in Requests \ {r} : req'[s] = req[s]
        /\ answers' \in [Keys -> SUBSET {"created", "existing", "refused", "error"}]
        /\ \A j \in Keys : answers'[j] = IF j = k THEN answers[j] \cup {"error"} ELSE answers[j]
    BY <1>0, <1>2, <1>12, AnswerEnds
  <2>2. OneCallMoves(r) BY <1>2, <2>1 DEF OneCallMoves
  <2>3. PlacementTypes' BY <1>0, <1>1, <1>4, <1>6, <2>1 DEF PlacementTypes
  <2>4. AnsweredWasSaved' BY <1>0, <1>1, <2>1 DEF AnsweredWasSaved
  <2> QED BY <1>1, <1>4, <1>6, <1>8, <1>9, <1>10, <2>1, <2>2, <2>3, <2>4, OneCallKeeps
<1> QED BY <1>11, <1>12 DEF Refund, At

(* An admin's deletion changes no call and no money.                       *)
LEMMA DeleteOrderInv ==
  ASSUME PlacementInv, NEW k \in Keys, DeleteOrder(k)
  PROVE  PlacementInv'
<1>0. /\ PlacementTypes /\ RowsBalance /\ AnsweredWasSaved /\ CashIsNotCharged
      /\ ChargeIsOwed /\ OneCallPerKey /\ CalmKeys
  BY DEF PlacementInv
<1>1. UNCHANGED <<req, charges, refunds, answers, inserts, stranded, crossed, spoilt, faults>>
  BY DEF DeleteOrder, gatewayVars
<1>2. /\ orders[k] = "saved"
      /\ orders' = [orders EXCEPT ![k] = "deleted"]
      /\ deletes' = [deletes EXCEPT ![k] = @ + 1]
  BY DEF DeleteOrder
<1>3. PlacementTypes' BY <1>0, <1>1, <1>2 DEF PlacementTypes
<1>4. RowsBalance' BY <1>0, <1>1, <1>2 DEF RowsBalance, PlacementTypes
<1>5. AnsweredWasSaved' /\ CashIsNotCharged' /\ ChargeIsOwed' /\ OneCallPerKey'
  BY <1>0, <1>1 DEF AnsweredWasSaved, CashIsNotCharged, ChargeIsOwed, OneCallPerKey, Runs
<1>6. \A j \in Keys : orders'[j] = "saved" => orders[j] = "saved"
  BY <1>0, <1>2 DEF PlacementTypes
<1>7. CalmKeys' BY <1>0, <1>1, <1>6 DEF CalmKeys, Runs
<1> QED BY <1>3, <1>4, <1>5, <1>7 DEF PlacementInv

(* A restart ends the calls and forgets the gateway's charges.             *)
LEMMA MainRestartsInv ==
  ASSUME PlacementInv, MainRestarts
  PROVE  PlacementInv'
<1>0. PlacementTypes /\ RowsBalance /\ AnsweredWasSaved BY DEF PlacementInv
<1>1. UNCHANGED <<orders, answers, inserts, deletes, crossed>> BY DEF MainRestarts
<1>2. /\ req' = [r \in Requests |-> NoRequest]
      /\ charges' = [k \in Keys |-> 0]
      /\ refunds' = [k \in Keys |-> 0]
      /\ stranded' = {}
      /\ spoilt' = {}
  BY DEF MainRestarts
<1>3. faults' \in Nat BY <1>0 DEF MainRestarts, Fault, PlacementTypes
<1>4. \A r \in Requests, k \in Keys : ~Runs(r, k)' BY <1>2 DEF Runs
<1>5. PlacementTypes' BY <1>0, <1>1, <1>2, <1>3 DEF PlacementTypes
<1>6. RowsBalance' /\ AnsweredWasSaved' BY <1>0, <1>1 DEF RowsBalance, AnsweredWasSaved
<1>7. CashIsNotCharged' BY <1>2, PlacementAssumption DEF CashIsNotCharged
<1>8. ChargeIsOwed' BY <1>2 DEF ChargeIsOwed
<1>9. OneCallPerKey' BY <1>4 DEF OneCallPerKey
<1>10. CalmKeys' BY <1>2, <1>4 DEF CalmKeys
<1> QED BY <1>5, <1>6, <1>7, <1>8, <1>9, <1>10 DEF PlacementInv

-----------------------------------------------------------------------------
(* PlacementInv is inductive.                                              *)
LEMMA PlacementNextInv == PlacementInv /\ [PlacementNext]_placementVars => PlacementInv'
<1> SUFFICES ASSUME PlacementInv, [PlacementNext]_placementVars PROVE PlacementInv' OBVIOUS
<1>1. CASE UNCHANGED placementVars
  BY <1>1 DEF placementVars, PlacementInv, PlacementTypes, RowsBalance, AnsweredWasSaved,
              CashIsNotCharged, ChargeIsOwed, OneCallPerKey, CalmKeys, Runs
<1>2. ASSUME NEW r \in Requests, NEW k \in Keys, Place(r, k) PROVE PlacementInv' BY <1>2, PlaceInv
<1>3. ASSUME NEW r \in Requests, Lookup(r) \/ Check(r) \/ Reread(r) PROVE PlacementInv'
  BY <1>3, ReadingStepInv
<1>4. ASSUME NEW r \in Requests, Charge(r) PROVE PlacementInv' BY <1>4, ChargeInv
<1>5. ASSUME NEW r \in Requests, Create(r) PROVE PlacementInv' BY <1>5, CreateInv
<1>6. ASSUME NEW r \in Requests, Refund(r) PROVE PlacementInv' BY <1>6, RefundInv
<1>7. ASSUME NEW k \in Keys, DeleteOrder(k) PROVE PlacementInv' BY <1>7, DeleteOrderInv
<1>8. CASE MainRestarts BY <1>8, MainRestartsInv
<1> QED BY <1>1, <1>2, <1>3, <1>4, <1>5, <1>6, <1>7, <1>8 DEF PlacementNext

(* PlacementInv holds in every behaviour.                                  *)
LEMMA PlacementInvariant == PlacementSpec => []PlacementInv
<1>1. PlacementInit => PlacementInv BY PlacementInitInv
<1>2. PlacementInv /\ [PlacementNext]_placementVars => PlacementInv' BY PlacementNextInv
<1> QED BY <1>1, <1>2, PTL DEF PlacementSpec

(* orderport Place is idempotent on client_order_id: however calls with    *)
(* one key race, fail and are repeated, a second row needs an admin's      *)
(* deletion of the first, and only a saved order is answered as one.       *)
THEOREM PlaceIsIdempotent == PlacementSpec => []PlacedOnce
<1>1. PlacementInv => PlacedOnce
  BY DEF PlacementInv, PlacedOnce, RowsBalance, AnsweredWasSaved, PlacementTypes
<1> QED BY PlacementInvariant, <1>1, PTL

(* A charge without an order is refunded by the call that made it, unless  *)
(* the refund failed or the gateway never confirmed the charge.            *)
THEOREM ChargesAreGivenBack == PlacementSpec => []MoneyBack
<1>1. PlacementInv => MoneyBack
  BY DEF PlacementInv, MoneyBack, ChargeIsOwed, Quiet, Runs, PlacementTypes
<1> QED BY PlacementInvariant, <1>1, PTL

(* Through any failures, retries, deletions and restarts a saved card      *)
(* order keeps its money, unless two calls with its key overlapped or a    *)
(* failed save had given its charge back.                                  *)
THEOREM PaidOrdersStayPaid == PlacementSpec => []PaidStaysPaid
<1>1. PlacementInv => PaidStaysPaid BY DEF PlacementInv, PaidStaysPaid, CalmKeys
<1> QED BY PlacementInvariant, <1>1, PTL

-----------------------------------------------------------------------------
(* The store's hours.                                                        *)

(* A set of numbers has a least member.                                      *)
LEMMA LeastExists ==
  ASSUME NEW S \in SUBSET Nat, S # {}
  PROVE  \E m \in S : \A y \in S : m <= y
<1>1. PICK t \in S : \A u \in S : ~(<<u, t>> \in OpToRel(<, Nat))
  BY NatLessThanWellFounded, WFMin
<1>2. \A y \in S : t <= y
  <2>1. SUFFICES ASSUME NEW y \in S, ~(t <= y) PROVE FALSE OBVIOUS
  <2>2. y < t /\ y \in Nat /\ t \in Nat BY <2>1
  <2> QED BY <1>1, <2>2 DEF OpToRel
<1> QED BY <1>2

(* Division with a remainder.                                                *)
LEMMA DivIs ==
  ASSUME NEW n \in Int, NEW d \in Nat \ {0}
  PROVE  /\ n \div d \in Int /\ n % d \in 0..d - 1
         /\ n = ((n \div d) * d) + (n % d)
OBVIOUS

(* CeilSlot is never before the time it rounds.                              *)
LEMMA CeilUp ==
  ASSUME NEW t \in Int
  PROVE  CeilSlot(t) \in Int /\ CeilSlot(t) >= t
<1> DEFINE n == t + SlotLen - 1
           q == n \div SlotLen
<1>1. SlotLen \in Nat \ {0} BY HoursAssumption
<1>2. n \in Int BY <1>1
<1> HIDE DEF n
<1>3. q \in Int /\ (n % SlotLen) \in 0..SlotLen - 1 /\ n = (q * SlotLen) + (n % SlotLen) BY <1>1, <1>2, DivIs
<1>4. q * SlotLen \in Int BY <1>1, <1>3
<1>5. CeilSlot(t) = q * SlotLen BY DEF CeilSlot, n
<1> HIDE DEF q
<1> QED BY <1>1, <1>3, <1>4, <1>5 DEF n

(* Midnights are a day apart.                                                *)
LEMMA MidnightIs ==
  ASSUME NEW d \in Int
  PROVE  /\ Midnight(d) \in Int
         /\ Midnight(d + 1) = Midnight(d) + DayLen
         /\ Midnight(d - 1) = Midnight(d) - DayLen
<1>1. DayLen \in Nat \ {0} BY HoursAssumption
<1> QED BY <1>1 DEF Midnight

(* The midnight of a later date is a day later at least.                     *)
LEMMA MidnightsInOrder ==
  ASSUME NEW d \in Int, NEW e \in Int, d < e
  PROVE  Midnight(d) + DayLen <= Midnight(e)
<1>1. DayLen \in Nat \ {0} BY HoursAssumption
<1> DEFINE k == e - d - 1
<1>2. k \in Nat OBVIOUS
<1>3. k * DayLen >= 0 BY <1>1, <1>2
<1>4. e = d + 1 + k OBVIOUS
<1> HIDE DEF k
<1>5. e * DayLen = (d * DayLen) + DayLen + (k * DayLen) BY <1>1, <1>2, <1>4
<1> QED BY <1>1, <1>3, <1>5 DEF Midnight

(* The date of an instant is the one whose day holds it.                     *)
LEMMA DateIs ==
  ASSUME NEW t \in Int
  PROVE  /\ Date(t) \in Int
         /\ Midnight(Date(t)) <= t /\ t < Midnight(Date(t)) + DayLen
         /\ \A d \in Int : Midnight(d) <= t /\ t < Midnight(d) + DayLen => d = Date(t)
         /\ t % DayLen = t - Midnight(Date(t))
<1>1. DayLen \in Nat \ {0} BY HoursAssumption
<1>2. Date(t) \in Int /\ (t % DayLen) \in 0..DayLen - 1 /\ t = (Date(t) * DayLen) + (t % DayLen)
  BY <1>1, DivIs DEF Date
<1>3. Midnight(Date(t)) \in Int BY <1>2, MidnightIs
<1>4. t = Midnight(Date(t)) + (t % DayLen) BY <1>2 DEF Midnight
<1>5. Midnight(Date(t)) <= t /\ t < Midnight(Date(t)) + DayLen BY <1>1, <1>2, <1>3, <1>4
<1>6. ASSUME NEW d \in Int, Midnight(d) <= t, t < Midnight(d) + DayLen PROVE d = Date(t)
  <2>1. Midnight(d) \in Int BY MidnightIs
  <2>2. CASE d < Date(t) BY <1>1, <1>2, <1>3, <1>5, <1>6, <2>1, <2>2, MidnightsInOrder
  <2>3. CASE d > Date(t) BY <1>1, <1>2, <1>3, <1>5, <1>6, <2>1, <2>3, MidnightsInOrder
  <2> QED BY <1>2, <2>2, <2>3
<1> QED BY <1>1, <1>2, <1>3, <1>4, <1>5, <1>6

(* A later instant has no earlier date.                                      *)
LEMMA DatesInOrder ==
  ASSUME NEW t \in Int, NEW u \in Int, t <= u
  PROVE  Date(t) <= Date(u)
<1>1. DayLen \in Nat \ {0} BY HoursAssumption
<1>2. Date(t) \in Int /\ Date(u) \in Int /\ Midnight(Date(t)) \in Int /\ Midnight(Date(u)) \in Int BY DateIs, MidnightIs
<1>3. Midnight(Date(t)) <= t /\ u < Midnight(Date(u)) + DayLen BY DateIs
<1>4. SUFFICES ASSUME Date(u) < Date(t) PROVE FALSE BY <1>2
<1>5. Midnight(Date(u)) + DayLen <= Midnight(Date(t)) BY <1>2, <1>4, MidnightsInOrder
<1> QED BY <1>1, <1>2, <1>3, <1>5

(* Integers of a set without a least or a greatest one.                      *)
LEMMA MinIs ==
  ASSUME NEW S \in SUBSET Int, S # {}, NEW b \in Int, \A x \in S : b <= x
  PROVE  Min(S) \in S /\ \A x \in S : Min(S) <= x
<1> DEFINE T == {n \in Nat : b + n \in S}
<1>1. T # {}
  <2> PICK x \in S : TRUE OBVIOUS
  <2>1. x - b \in T OBVIOUS
  <2> QED BY <2>1
<1>2. PICK n \in T : \A m \in T : n <= m
  <2> HIDE DEF T
  <2>1. T \in SUBSET Nat BY DEF T
  <2> QED BY <1>1, <2>1, LeastExists
<1>3. b + n \in S /\ \A x \in S : b + n <= x
  <2>1. ASSUME NEW x \in S PROVE x - b \in T OBVIOUS
  <2> QED BY <1>2, <2>1
<1> QED BY <1>3 DEF Min

LEMMA MaxIs ==
  ASSUME NEW S \in SUBSET Int, S # {}, NEW b \in Int, \A x \in S : x <= b
  PROVE  Max(S) \in S /\ \A x \in S : x <= Max(S)
<1> DEFINE T == {n \in Nat : b - n \in S}
<1>1. T # {}
  <2> PICK x \in S : TRUE OBVIOUS
  <2>1. b - x \in T OBVIOUS
  <2> QED BY <2>1
<1>2. PICK n \in T : \A m \in T : n <= m
  <2> HIDE DEF T
  <2>1. T \in SUBSET Nat BY DEF T
  <2> QED BY <1>1, <2>1, LeastExists
<1>3. b - n \in S /\ \A x \in S : x <= b - n
  <2>1. ASSUME NEW x \in S PROVE b - x \in T OBVIOUS
  <2> QED BY <1>2, <2>1
<1> QED BY <1>3 DEF Max

(* Well-formed hours and exceptions.                                         *)
ScheduleOK(s) ==
  s.weekly \in OpeningHours /\ s.exc \in [DOMAIN s.exc -> Exception]

(* The ranges of a day are times of a day.                                   *)
LEMMA DayHoursIn ==
  ASSUME NEW s, ScheduleOK(s), NEW day \in Int
  PROVE  \A r \in DayHours(s, day) : r.open \in 0..DayLen - 1 /\ r.close \in 0..DayLen - 1
<1>1. WeekLen \in Nat \ {0} BY HoursAssumption
<1>2. (day % WeekLen) \in 0..WeekLen - 1 BY <1>1, DivIs
<1>3. CASE day \in DOMAIN s.exc
  <2>1. s.exc[day] \in Exception BY <1>3 DEF ScheduleOK
  <2> QED BY <1>3, <2>1 DEF DayHours, Exception, HoursRange
<1>4. CASE day \notin DOMAIN s.exc
  <2>1. s.weekly[day % WeekLen] \in SUBSET HoursRange BY <1>2 DEF ScheduleOK, OpeningHours
  <2> QED BY <1>4, <2>1 DEF DayHours, HoursRange
<1> QED BY <1>3, <1>4

(* A stretch starts on its date and ends by the end of the next.             *)
LEMMA PeriodIs ==
  ASSUME NEW s, ScheduleOK(s), NEW day \in Int, NEW p \in Periods(s, day)
  PROVE  /\ p.start \in Int /\ p.end \in Int /\ p.start < p.end
         /\ Midnight(day) <= p.start /\ p.start < Midnight(day) + DayLen
         /\ p.end < Midnight(day) + DayLen + DayLen
<1>1. DayLen \in Nat \ {0} BY HoursAssumption
<1>2. Midnight(day) \in Int /\ Midnight(day + 1) = Midnight(day) + DayLen BY MidnightIs
<1>3. CASE ~HoursSet(s) /\ day \notin DOMAIN s.exc BY <1>1, <1>2, <1>3 DEF Periods
<1>4. CASE ~(~HoursSet(s) /\ day \notin DOMAIN s.exc)
  <2>1. PICK r \in DayHours(s, day) :
           p = [start |-> Midnight(day) + r.open,
                end |-> Midnight(IF r.close <= r.open THEN day + 1 ELSE day) + r.close]
    BY <1>4 DEF Periods
  <2>2. r.open \in 0..DayLen - 1 /\ r.close \in 0..DayLen - 1 BY DayHoursIn
  <2>3. CASE r.close <= r.open BY <1>1, <1>2, <2>1, <2>2, <2>3
  <2>4. CASE ~(r.close <= r.open) BY <1>1, <1>2, <2>1, <2>2, <2>4
  <2> QED BY <2>3, <2>4
<1> QED BY <1>3, <1>4

(* The instants of the stretches are the open ones.                          *)
LEMMA HoldsIsOpen ==
  ASSUME ScheduleOK(sch), NEW t \in Int, NEW day \in Int
  PROVE  /\ \A p \in Periods(sch, day) : Holds(p, t) => OpenInstant(t) /\ day \in {Date(t) - 1, Date(t)}
         /\ OpenInstant(t) => \E d \in {Date(t) - 1, Date(t)} : \E p \in Periods(sch, d) : Holds(p, t)
<1> PICK D : D = Date(t) OBVIOUS
<1> PICK s : s = sch OBVIOUS
<1> PICK m : m = t % DayLen OBVIOUS
<1>1. DayLen \in Nat \ {0} BY HoursAssumption
<1>2. D \in Int /\ Midnight(D) <= t /\ t < Midnight(D) + DayLen /\ m = t - Midnight(D) BY DateIs
<1>3. /\ Midnight(D) \in Int /\ Midnight(D + 1) = Midnight(D) + DayLen
      /\ Midnight(D - 1) = Midnight(D) - DayLen /\ Midnight(day) \in Int
  BY <1>2, MidnightIs
<1> DEFINE always(d) == ~HoursSet(s) /\ d \notin DOMAIN s.exc
           today == \E r \in DayHours(s, D) : m >= r.open /\ (m < r.close \/ r.close <= r.open)
           overnight == \E r \in DayHours(s, D - 1) : r.close <= r.open /\ m < r.close
<1>4. OpenInstant(t) <=> (always(D) \/ (~always(D) /\ today) \/ (~always(D - 1) /\ overnight))
  BY DEF OpenInstant
<1>5. (\E p \in Periods(s, D) : Holds(p, t)) <=> (always(D) \/ (~always(D) /\ today))
  <2>1. CASE always(D)
    <3>1. Periods(s, D) = {[start |-> Midnight(D), end |-> Midnight(D + 1)]} BY <2>1 DEF Periods
    <3>2. Holds([start |-> Midnight(D), end |-> Midnight(D + 1)], t) BY <1>2, <1>3 DEF Holds
    <3> QED BY <2>1, <3>1, <3>2
  <2>2. CASE ~always(D)
    <3> DEFINE per(r) == [start |-> Midnight(D) + r.open, end |-> Midnight(IF r.close <= r.open THEN D + 1 ELSE D) + r.close]
    <3>1. Periods(s, D) = {per(r) : r \in DayHours(s, D)} BY <2>2 DEF Periods
    <3>2. \A r \in DayHours(s, D) : Holds(per(r), t) <=> (m >= r.open /\ (m < r.close \/ r.close <= r.open))
      <4>1. SUFFICES ASSUME NEW r \in DayHours(s, D)
                     PROVE  Holds(per(r), t) <=> (m >= r.open /\ (m < r.close \/ r.close <= r.open))
        OBVIOUS
      <4>2. r.open \in 0..DayLen - 1 /\ r.close \in 0..DayLen - 1 BY <1>2, DayHoursIn
      <4>3. CASE r.close <= r.open
        <5>1. per(r).start = Midnight(D) + r.open /\ per(r).end = Midnight(D) + DayLen + r.close BY <1>3, <4>3
        <5>2. t = Midnight(D) + m /\ m \in Int /\ 0 <= m /\ m < DayLen BY <1>1, <1>2, <1>3
        <5>3. r.open \in Int /\ r.close \in Nat BY <1>1, <4>2
        <5> HIDE DEF per
        <5>4. per(r).start <= t <=> m >= r.open BY <1>3, <5>1, <5>2, <5>3
        <5>5. t < per(r).end BY <1>1, <1>3, <5>1, <5>2, <5>3
        <5> QED BY <4>3, <5>4, <5>5 DEF Holds
      <4>4. CASE ~(r.close <= r.open)
        <5>1. per(r).start = Midnight(D) + r.open /\ per(r).end = Midnight(D) + r.close BY <4>4
        <5>2. t = Midnight(D) + m /\ m \in Int BY <1>1, <1>2, <1>3
        <5>3. r.open \in Int /\ r.close \in Int BY <4>2
        <5> HIDE DEF per
        <5>4. per(r).start <= t <=> m >= r.open BY <1>3, <5>1, <5>2, <5>3
        <5>5. t < per(r).end <=> m < r.close BY <1>3, <5>1, <5>2, <5>3
        <5> QED BY <4>4, <5>4, <5>5 DEF Holds
      <4> QED BY <4>3, <4>4
    <3> HIDE DEF per
    <3>3. (\E p \in Periods(s, D) : Holds(p, t)) <=> \E r \in DayHours(s, D) : Holds(per(r), t) BY <3>1
    <3>4. (\E r \in DayHours(s, D) : Holds(per(r), t)) <=> today BY <3>2
    <3> HIDE DEF always, today
    <3> QED BY <2>2, <3>3, <3>4
  <2> QED BY <2>1, <2>2
<1>6. (\E p \in Periods(s, D - 1) : Holds(p, t)) <=> (~always(D - 1) /\ overnight)
  <2>1. CASE always(D - 1)
    <3>1. \A p \in Periods(s, D - 1) : ~Holds(p, t) BY <1>1, <1>2, <1>3, <2>1, MidnightIs DEF Periods, Holds
    <3> QED BY <2>1, <3>1
  <2>2. CASE ~always(D - 1)
    <3> DEFINE per(r) == [start |-> Midnight(D - 1) + r.open,
                          end |-> Midnight(IF r.close <= r.open THEN D - 1 + 1 ELSE D - 1) + r.close]
    <3>1. Periods(s, D - 1) = {per(r) : r \in DayHours(s, D - 1)} BY <2>2 DEF Periods
    <3>2. \A r \in DayHours(s, D - 1) : Holds(per(r), t) <=> (r.close <= r.open /\ m < r.close)
      <4>1. SUFFICES ASSUME NEW r \in DayHours(s, D - 1)
                     PROVE  Holds(per(r), t) <=> (r.close <= r.open /\ m < r.close)
        OBVIOUS
      <4>2. r.open \in 0..DayLen - 1 /\ r.close \in 0..DayLen - 1 BY <1>2, DayHoursIn
      <4>3. D - 1 + 1 = D BY <1>2
      <4>4. CASE r.close <= r.open BY <1>1, <1>2, <1>3, <4>2, <4>3, <4>4 DEF Holds
      <4>5. CASE ~(r.close <= r.open) BY <1>1, <1>2, <1>3, <4>2, <4>5 DEF Holds
      <4> QED BY <4>4, <4>5
    <3> QED BY <2>2, <3>1, <3>2
  <2> QED BY <2>1, <2>2
<1> HIDE DEF always, today, overnight
<1>7. ASSUME NEW p \in Periods(sch, day), Holds(p, t) PROVE day \in {D - 1, D}
  <2>1. /\ p.start \in Int /\ p.end \in Int /\ Midnight(day) <= p.start
        /\ p.end < Midnight(day) + DayLen + DayLen
    BY PeriodIs
  <2>2. Midnight(day) <= t /\ t < Midnight(day) + DayLen + DayLen BY <1>1, <1>3, <1>7, <2>1 DEF Holds
  <2>3. CASE day > D
    <3>1. Midnight(D) + DayLen <= Midnight(day) BY <1>2, <2>3, MidnightsInOrder
    <3> QED BY <1>1, <1>2, <1>3, <2>2, <3>1
  <2>4. CASE day < D - 1
    <3>1. Midnight(day) + DayLen <= Midnight(D - 1) BY <1>2, <2>4, MidnightsInOrder
    <3> QED BY <1>1, <1>2, <1>3, <2>2, <3>1
  <2> QED BY <1>2, <2>3, <2>4
<1> QED BY <1>4, <1>5, <1>6, <1>7

(* The stretches around an instant are those of the dates around it.         *)
LEMMA AroundIs ==
  ASSUME NEW s, ScheduleOK(s), NEW t \in Int, NEW days \in Nat
  PROVE  /\ \A p \in PeriodsAround(s, t, days) :
              \E d \in Date(t) - 1..Date(t) + days : p \in Periods(s, d)
         /\ \A d \in Date(t) - 1..Date(t) + days : Periods(s, d) \subseteq PeriodsAround(s, t, days)
<1>1. Date(t) \in Int BY DateIs
<1>2. ASSUME NEW d \in Date(t) - 1..Date(t) + days PROVE Periods(s, d) \subseteq PeriodsAround(s, t, days)
  <2>1. d - Date(t) \in -1..days /\ Date(t) + (d - Date(t)) = d BY <1>1
  <2> QED BY <2>1 DEF PeriodsAround
<1>3. ASSUME NEW p \in PeriodsAround(s, t, days) PROVE \E d \in Date(t) - 1..Date(t) + days : p \in Periods(s, d)
  <2>1. PICK i \in -1..days : p \in Periods(s, Date(t) + i) BY DEF PeriodsAround
  <2>2. Date(t) + i \in Date(t) - 1..Date(t) + days BY <1>1
  <2> QED BY <2>1, <2>2
<1> QED BY <1>2, <1>3

(* What the loops over the stretches around an instant find.                 *)
LEMMA AroundInts ==
  ASSUME NEW s, ScheduleOK(s), NEW t \in Int, NEW days \in Nat
  PROVE  \E b \in Int, c \in Int : \A p \in PeriodsAround(s, t, days) :
           p.start \in Int /\ p.end \in Int /\ p.start < p.end /\ b <= p.start /\ p.end <= c
<1>1. DayLen \in Nat \ {0} /\ Date(t) \in Int BY HoursAssumption, DateIs
<1> PICK lo \in Int : lo = Date(t) - 1 BY <1>1
<1> PICK hi \in Int : hi = Date(t) + days BY <1>1
<1> PICK b \in Int : b = Midnight(lo) BY MidnightIs
<1> PICK c \in Int : c = Midnight(hi) + DayLen + DayLen BY <1>1, MidnightIs
<1>2. ASSUME NEW p \in PeriodsAround(s, t, days)
      PROVE  p.start \in Int /\ p.end \in Int /\ p.start < p.end /\ b <= p.start /\ p.end <= c
  <2>1. PICK d \in lo..hi : p \in Periods(s, d) BY AroundIs
  <2>2. Midnight(d) \in Int /\ Midnight(lo) \in Int /\ Midnight(hi) \in Int BY MidnightIs
  <2>3. /\ p.start \in Int /\ p.end \in Int /\ p.start < p.end
        /\ Midnight(d) <= p.start /\ p.end < Midnight(d) + DayLen + DayLen
    BY <2>1, PeriodIs
  <2>4. Midnight(lo) <= Midnight(d) BY <1>1, <2>2, MidnightsInOrder
  <2>5. Midnight(d) <= Midnight(hi) BY <1>1, <2>2, MidnightsInOrder
  <2> QED BY <1>1, <2>2, <2>3, <2>4, <2>5
<1> QED BY <1>2

(* OpenAt, which looks at the stretches, is right about the instant.         *)
LEMMA OpenAtIsOpen ==
  ASSUME ScheduleOK(sch), NEW t \in Int
  PROVE  OpenAt(sch, t) <=> OpenInstant(t)
<1>1. Date(t) \in Int BY DateIs
<1>2. ASSUME OpenAt(sch, t) PROVE OpenInstant(t)
  <2>1. PICK p \in PeriodsAround(sch, t, 0) : Holds(p, t) BY <1>2 DEF OpenAt
  <2>2. PICK d \in Date(t) - 1..Date(t) + 0 : p \in Periods(sch, d) BY <2>1, AroundIs
  <2> QED BY <1>1, <2>1, <2>2, HoldsIsOpen
<1>3. ASSUME OpenInstant(t) PROVE OpenAt(sch, t)
  <2>1. PICK d \in {Date(t) - 1, Date(t)} : \E p \in Periods(sch, d) : Holds(p, t) BY <1>1, <1>3, HoldsIsOpen
  <2>2. d \in Date(t) - 1..Date(t) + 0 BY <1>1
  <2> QED BY <2>1, <2>2, AroundIs DEF OpenAt
<1> QED BY <1>2, <1>3

(* There is a first stretch that holds an open instant.                      *)
LEMMA CurrentIs ==
  ASSUME NEW s, ScheduleOK(s), NEW t \in Int, OpenAt(s, t)
  PROVE  Current(s, t) \in PeriodsAround(s, t, 0) /\ Holds(Current(s, t), t)
<1> DEFINE P == {p \in PeriodsAround(s, t, 0) : Holds(p, t)}
           S == {p.start : p \in P}
<1>1. PICK b \in Int, c \in Int : \A p \in PeriodsAround(s, t, 0) :
         p.start \in Int /\ p.end \in Int /\ p.start < p.end /\ b <= p.start /\ p.end <= c
  BY AroundInts
<1>2. S \in SUBSET Int /\ S # {} /\ \A x \in S : b <= x BY <1>1 DEF OpenAt
<1> HIDE DEF S
<1>3. Min(S) \in S /\ \A x \in S : Min(S) <= x BY <1>2, MinIs
<1>4. PICK p \in P : p.start = Min(S) BY <1>3 DEF S
<1>5. \A o \in PeriodsAround(s, t, 0) : Holds(o, t) => p.start <= o.start BY <1>3, <1>4 DEF S
<1> QED BY <1>4, <1>5 DEF Current

(* LastEnd is as late as the stretches that meet reach, and no later.        *)
LEMMA LastEndIs ==
  ASSUME NEW end \in Int, NEW ps, NEW c \in Int, \A p \in ps : p.start \in Int /\ p.end \in Int /\ p.end <= c
  PROVE  /\ LastEnd(end, ps) \in Int /\ end <= LastEnd(end, ps)
         /\ \A t \in end..LastEnd(end, ps) - 1 : \E p \in ps : Holds(p, t)
<1> DEFINE E == {end} \cup {p.end : p \in ps}
           S == {e \in E : e >= end /\ \A p \in ps : p.start <= e => p.end <= e}
<1> PICK top \in Int : end <= top /\ c <= top BY end <= c \/ c <= end
<1>1. E \in SUBSET Int /\ E # {} /\ \A x \in E : x <= top OBVIOUS
<1> HIDE DEF E
<1>2. Max(E) \in E /\ \A x \in E : x <= Max(E) BY <1>1, MaxIs
<1>3. Max(E) \in S BY <1>1, <1>2 DEF E
<1>4. S \in SUBSET Int /\ S # {} /\ \A x \in S : end <= x BY <1>1, <1>3
<1> HIDE DEF S
<1>5. Min(S) \in S /\ \A x \in S : Min(S) <= x BY <1>4, MinIs
<1>6. LastEnd(end, ps) = Min(S) BY DEF LastEnd, S, E
<1> PICK last \in Int : last = Min(S) BY <1>4, <1>5
<1>7. ASSUME NEW t \in end..last - 1, \A p \in ps : ~Holds(p, t) PROVE FALSE
  <2> DEFINE B == {e \in E : e <= t}
  <2>0. t \in Int /\ end <= t /\ t < last OBVIOUS
  <2>1. B \in SUBSET Int /\ B # {} /\ \A x \in B : x <= t BY <1>1, <1>4, <1>5 DEF E
  <2> HIDE DEF B
  <2> PICK e : e = Max(B) OBVIOUS
  <2>2. e \in B /\ \A x \in B : x <= e BY <2>0, <2>1, MaxIs
  <2>9. e \in Int /\ e <= t BY <2>1, <2>2
  <2>3. end \in B BY <1>4, <1>5 DEF B, E
  <2>4. ASSUME NEW p \in ps, p.start <= e PROVE p.end <= e
    <3>1. p.start <= t BY <2>0, <2>9, <2>4
    <3>2. p.end <= t BY <1>7, <2>0, <3>1 DEF Holds
    <3>3. p.end \in B BY <3>2 DEF B, E
    <3> QED BY <2>2, <3>3
  <2>5. e \in S BY <2>1, <2>2, <2>3, <2>4 DEF S, B
  <2>6. last <= e BY <1>5, <2>5
  <2> QED BY <2>0, <2>9, <2>6
<1> QED BY <1>4, <1>5, <1>6, <1>7

(* The store stays open until the close ClosesAt names.                      *)
LEMMA ClosesAtIs ==
  ASSUME ScheduleOK(sch), NEW t \in Int, ClosesAt(sch, t) # NONE
  PROVE  /\ ClosesAt(sch, t) \in Int /\ t < ClosesAt(sch, t)
         /\ \A u \in t..ClosesAt(sch, t) - 1 : OpenInstant(u)
<1> PICK cur : cur = Current(sch, t) OBVIOUS
<1> PICK s : s = sch OBVIOUS
<1>1. OpenAt(s, t) /\ ClosesAt(s, t) = LastEnd(cur.end, PeriodsAround(s, cur.end, 1)) BY DEF ClosesAt
<1>2. cur \in PeriodsAround(s, t, 0) /\ Holds(cur, t) BY <1>1, CurrentIs
<1>3. cur.start \in Int /\ cur.end \in Int /\ cur.start <= t /\ t < cur.end BY <1>2, AroundInts DEF Holds
<1>4. PICK b \in Int, c \in Int : \A p \in PeriodsAround(s, cur.end, 1) :
         p.start \in Int /\ p.end \in Int /\ p.start < p.end /\ b <= p.start /\ p.end <= c
  BY <1>3, AroundInts
<1> PICK last : last = LastEnd(cur.end, PeriodsAround(s, cur.end, 1)) OBVIOUS
<1>5. /\ last \in Int /\ cur.end <= last
      /\ \A u \in cur.end..last - 1 : \E p \in PeriodsAround(s, cur.end, 1) : Holds(p, u)
  BY <1>3, <1>4, LastEndIs
<1>6. ASSUME NEW u \in t..last - 1 PROVE OpenInstant(u)
  <2>1. CASE u < cur.end
    <3>1. Holds(cur, u) BY <1>3, <2>1 DEF Holds
    <3>2. PICK d \in Date(t) - 1..Date(t) + 0 : cur \in Periods(s, d) BY <1>2, AroundIs
    <3>3. d \in Int BY DateIs
    <3> QED BY <3>1, <3>2, <3>3, HoldsIsOpen
  <2>2. CASE ~(u < cur.end)
    <3>1. u \in cur.end..last - 1 BY <1>3, <1>5, <2>2
    <3>2. PICK p \in PeriodsAround(s, cur.end, 1) : Holds(p, u) BY <1>5, <3>1
    <3>3. PICK d \in Date(cur.end) - 1..Date(cur.end) + 1 : p \in Periods(s, d) BY <1>3, <3>2, AroundIs
    <3>4. d \in Int BY <1>3, DateIs
    <3> QED BY <1>3, <3>2, <3>3, <3>4, HoldsIsOpen
  <2> QED BY <2>1, <2>2
<1> QED BY <1>1, <1>3, <1>5, <1>6

(* A pause ends at a time or never.                                          *)
LEMMA PauseUntilIs ==
  ASSUME ScheduleOK(sch), NEW t \in Int, NEW preset \in Presets
  PROVE  PauseUntil(sch, t, preset) \in Int \cup {NONE}
<1> PICK s : s = sch OBVIOUS
<1>1. CASE preset = "indefinite" BY <1>1 DEF PauseUntil
<1>2. CASE preset \notin {"indefinite", "today"}
  <2>1. PresetLen[preset] \in Nat BY <1>2, StatusAssumption DEF Presets
  <2> QED BY <1>2, <2>1 DEF PauseUntil
<1>3. CASE preset = "today"
  <2> DEFINE ends == {Midnight(Date(t) + 1)} \cup {p.end : p \in Periods(s, Date(t))}
  <2>1. DayLen \in Nat \ {0} /\ Date(t) \in Int BY HoursAssumption, DateIs
  <2>2. Midnight(Date(t)) \in Int /\ Midnight(Date(t) + 1) = Midnight(Date(t)) + DayLen BY <2>1, MidnightIs
  <2> PICK b \in Int : b = Midnight(Date(t)) + DayLen + DayLen BY <2>1, <2>2
  <2>3. ends \in SUBSET Int /\ ends # {} /\ \A e \in ends : e <= b
    <3>1. \A p \in Periods(s, Date(t)) : p.end \in Int /\ p.end <= b BY <2>1, <2>2, PeriodIs
    <3> QED BY <2>1, <2>2, <3>1
  <2>4. Max(ends) \in Int
    <3> HIDE DEF ends
    <3> QED BY <2>3, MaxIs
  <2>5. ClosesAt(sch, t) \in Int \cup {NONE} BY ClosesAtIs
  <2> QED BY <1>3, <2>4, <2>5 DEF PauseUntil
<1> QED BY <1>1, <1>2, <1>3

(* The next opening is the first open instant of the days looked at.         *)
LEMMA NextOpenIs ==
  ASSUME ScheduleOK(sch), NEW t \in Int, ~OpenAt(sch, t), NEW next,
         next = {u \in t..Midnight(Date(t) + LookAhead + 1) - 1 : OpenInstant(u)}
  PROVE  NextOpen(sch, t) = IF next = {} THEN NONE ELSE Min(next)
<1> PICK s : s = sch OBVIOUS
<1> DEFINE later == {p.start : p \in {o \in PeriodsAround(s, t, LookAhead) : o.start > t}}
<1>1. DayLen \in Nat \ {0} /\ LookAhead \in Nat \ {0} BY HoursAssumption
<1> PICK D \in Int : D = Date(t) BY DateIs
<1> PICK last \in Int : last = D + LookAhead BY <1>1
<1>2. Midnight(last) \in Int /\ Midnight(D + LookAhead + 1) = Midnight(last) + DayLen BY MidnightIs
<1>3. ASSUME NEW x \in later PROVE x \in next
  <2>1. PICK p \in PeriodsAround(s, t, LookAhead) : p.start > t /\ x = p.start OBVIOUS
  <2>2. PICK d \in D - 1..last : p \in Periods(s, d) BY <1>1, <2>1, AroundIs
  <2>3. /\ p.start \in Int /\ p.end \in Int /\ p.start < p.end
        /\ p.start < Midnight(d) + DayLen
    BY <2>2, PeriodIs
  <2>4. Midnight(d) \in Int /\ Midnight(d) <= Midnight(last) BY <1>1, <1>2, MidnightIs, MidnightsInOrder
  <2>5. Holds(p, x) BY <2>1, <2>3 DEF Holds
  <2>6. OpenInstant(x) BY <2>1, <2>2, <2>3, <2>5, HoldsIsOpen
  <2> QED BY <1>1, <1>2, <2>1, <2>3, <2>4, <2>6
<1>4. ASSUME NEW u \in next PROVE \E x \in later : x <= u
  <2>1. u \in Int /\ t <= u /\ u < Midnight(last) + DayLen /\ OpenInstant(u) BY <1>1, <1>2
  <2>2. PICK d \in {Date(u) - 1, Date(u)} : \E p \in Periods(s, d) : Holds(p, u) BY <2>1, HoldsIsOpen
  <2>3. PICK p \in Periods(s, d) : Holds(p, u) BY <2>2
  <2>4. Date(u) \in Int /\ D <= Date(u) /\ Midnight(Date(u)) \in Int /\ Midnight(Date(u)) <= u
    BY <2>1, DateIs, DatesInOrder, MidnightIs
  <2>5. Date(u) <= last
    <3>1. SUFFICES ASSUME last < Date(u) PROVE FALSE BY <2>4
    <3>2. Midnight(last) + DayLen <= Midnight(Date(u)) BY <2>4, <3>1, MidnightsInOrder
    <3> QED BY <1>1, <1>2, <2>1, <2>4, <3>2
  <2>6. d \in D - 1..last BY <2>4, <2>5
  <2>7. p \in PeriodsAround(s, t, LookAhead) BY <1>1, <2>6, AroundIs
  <2>8. p.start \in Int /\ p.end \in Int BY <2>6, PeriodIs
  <2>9. p.start > t
    <3>1. SUFFICES ASSUME p.start <= t PROVE FALSE BY <2>8
    <3>2. Holds(p, t) BY <2>1, <2>3, <2>8, <3>1 DEF Holds
    <3>3. OpenInstant(t) BY <2>6, <3>2, HoldsIsOpen
    <3> QED BY <3>3, OpenAtIsOpen
  <2>10. p.start <= u BY <2>3 DEF Holds
  <2> QED BY <2>7, <2>9, <2>10
<1>5. next \in SUBSET Int /\ \A u \in next : t <= u BY <1>1, <1>2
<1>6. later \in SUBSET Int /\ \A x \in later : t <= x BY <1>3, <1>5
<1>7. NextOpen(s, t) = IF later = {} THEN NONE ELSE Min(later) BY DEF NextOpen
<1> HIDE DEF later
<1>8. CASE next = {} BY <1>3, <1>7, <1>8
<1>9. CASE next # {}
  <2>1. later # {} BY <1>4, <1>9
  <2> PICK a : a = Min(later) OBVIOUS
  <2> PICK b : b = Min(next) OBVIOUS
  <2>2. a \in later /\ \A x \in later : a <= x BY <1>6, <2>1, MinIs
  <2>3. b \in next /\ \A x \in next : b <= x BY <1>5, <1>9, MinIs
  <2>4. b <= a BY <1>3, <2>2, <2>3
  <2>5. PICK x \in later : x <= b BY <1>4, <2>3
  <2>6. a \in Int /\ b \in Int /\ x \in Int BY <1>5, <1>6, <2>2, <2>3
  <2>7. a <= x BY <2>2
  <2>8. a = b BY <2>4, <2>5, <2>6, <2>7
  <2> QED BY <1>7, <1>9, <2>1, <2>8
<1> QED BY <1>8, <1>9

-----------------------------------------------------------------------------
(* A restock pass about to write has the stamp of the row.                   *)
RestockReads ==
  restock.at = "restock" => restock.now <= clock /\ ordering # NONE /\ restock.restockedAt = ordering.restockedAt

StatusInv == StatusTypeOK /\ RestockReads

(* The schedule read from the rows is well formed.                           *)
LEMMA SchIsOK ==
  ASSUME StatusTypeOK
  PROVE  ScheduleOK(sch)
<1> PICK days : days = ListStoreHoursExceptions(Date(clock) - 1) OBVIOUS
<1>1. days \subseteq DOMAIN exc BY DEF ListStoreHoursExceptions
<1>2. [x \in days |-> exc[x]] \in [days -> Exception] BY <1>1 DEF StatusTypeOK
<1> QED BY <1>2 DEF StatusTypeOK, sch, ScheduleOK

(* EnsureStoreOrdering answers a row, the one there is if there is one.      *)
LEMMA OrderingMade ==
  ASSUME StatusTypeOK
  PROVE  /\ EnsureStoreOrdering \in OrderingRow /\ EnsureStoreOrdering # NONE
         /\ ordering # NONE => EnsureStoreOrdering = ordering
<1>1. SlotLen \in Nat BY HoursAssumption
<1>2. NewOrdering \in OrderingRow BY <1>1 DEF NewOrdering, OrderingRow, StatusTypeOK
<1> QED BY <1>2, StatusAssumption DEF EnsureStoreOrdering, StatusTypeOK

(* The fields of a row.                                                      *)
LEMMA RowsRead ==
  ASSUME NEW r \in OrderingRow
  PROVE  /\ r.pickup \in BOOLEAN /\ r.delivery \in BOOLEAN /\ r.days \in Nat
         /\ r.eta \in [Kinds -> Nat] /\ r.pausedAt \in Nat \cup {NONE}
         /\ r.pausedUntil \in Int \cup {NONE} /\ r.restockedAt \in Nat
         /\ DOMAIN r = {"pickup", "delivery", "eta", "days", "pausedAt", "pausedUntil", "restockedAt"}
BY DEF OrderingRow

(* UpdateSettings leaves a row with the stamp it had.                        *)
LEMMA SettingsWritten ==
  ASSUME NEW r \in OrderingRow, NEW in \in Orderings, ValidSettings(in), NEW e,
         e = [r EXCEPT !.pickup = in.pickup, !.delivery = in.delivery, !.eta = in.eta, !.days = in.days]
  PROVE  e \in OrderingRow /\ e.restockedAt = r.restockedAt
<1>1. in \in OrderTypes BY StatusAssumption
<1>2. in.pickup \in BOOLEAN /\ in.delivery \in BOOLEAN BY <1>1 DEF OrderTypes
<1>3. in.days \in Nat BY DEF ValidSettings
<1>4. in.eta \in [Kinds -> Int] BY <1>1 DEF OrderTypes
<1>5. \A k \in Kinds : in.eta[k] \in Nat BY DEF ValidSettings
<1>6. in.eta \in [Kinds -> Nat] BY <1>4, <1>5
<1>7. /\ [r EXCEPT !.pickup = in.pickup] \in OrderingRow
      /\ [r EXCEPT !.pickup = in.pickup].restockedAt = r.restockedAt
  BY <1>2, ZenonT(20) DEF OrderingRow
<1> PICK r1 : r1 = [r EXCEPT !.pickup = in.pickup] OBVIOUS
<1>8. /\ [r1 EXCEPT !.delivery = in.delivery] \in OrderingRow
      /\ [r1 EXCEPT !.delivery = in.delivery].restockedAt = r1.restockedAt
  <2>1. r1 \in OrderingRow BY <1>7
  <2> QED BY <1>2, <2>1, ZenonT(20) DEF OrderingRow
<1> PICK r2 : r2 = [r1 EXCEPT !.delivery = in.delivery] OBVIOUS
<1>9. /\ [r2 EXCEPT !.eta = in.eta, !.days = in.days] \in OrderingRow
      /\ [r2 EXCEPT !.eta = in.eta, !.days = in.days].restockedAt = r2.restockedAt
  <2>1. r2 \in OrderingRow BY <1>8
  <2> QED BY <1>3, <1>6, <2>1, ZenonT(20) DEF OrderingRow
<1>10. [r2 EXCEPT !.eta = in.eta, !.days = in.days]
         = [r EXCEPT !.pickup = in.pickup, !.delivery = in.delivery, !.eta = in.eta, !.days = in.days]
  BY SMT
<1> QED BY <1>7, <1>8, <1>9, <1>10, Zenon

(* The times a pause can begin and end at.                                   *)
PausedAts == Nat \cup {NONE}
PausedUntils == Int \cup {NONE}

(* SetStorePause and ClearStorePause leave a row with the stamp it had.      *)
LEMMA PauseWritten ==
  ASSUME NEW r \in OrderingRow, NEW at \in PausedAts, NEW until \in PausedUntils, NEW e,
         e = [r EXCEPT !.pausedAt = at, !.pausedUntil = until]
  PROVE  e \in OrderingRow /\ e.restockedAt = r.restockedAt
<1>1. /\ [r EXCEPT !.pausedAt = at, !.pausedUntil = until] \in OrderingRow
      /\ [r EXCEPT !.pausedAt = at, !.pausedUntil = until].restockedAt = r.restockedAt
  BY ZenonT(20) DEF OrderingRow, PausedAts, PausedUntils
<1> QED BY <1>1, Zenon

(* A restock writes a time.                                                  *)
LEMMA StampWritten ==
  ASSUME NEW r \in OrderingRow, NEW at \in Nat
  PROVE  [r EXCEPT !.restockedAt = at] \in OrderingRow
BY ZenonT(20) DEF OrderingRow

-----------------------------------------------------------------------------
(* The stock's updates keep it well formed.                                  *)
LEMMA StockWritten ==
  ASSUME StatusTypeOK
  PROVE  /\ ExpireOutUntil \in [Items -> [out : BOOLEAN, until : Int \cup {NONE}]]
         /\ RestockItems \in [Items -> [out : BOOLEAN, until : Int \cup {NONE}]]
         /\ \A i \in Items : \A r \in {In} \cup [out : {TRUE}, until : Untils] :
              [stock EXCEPT ![i] = IF r.out THEN r ELSE In] \in [Items -> [out : BOOLEAN, until : Int \cup {NONE}]]
<1> DEFINE Row == [out : BOOLEAN, until : Int \cup {NONE}]
<1>1. In \in Row BY DEF In
<1>2. stock \in [Items -> Row] BY DEF StatusTypeOK
<1>3. \A r \in {In} \cup [out : {TRUE}, until : Untils] : (IF r.out THEN r ELSE In) \in Row
  <2>1. [out : {TRUE}, until : Untils] \subseteq Row BY StatusAssumption
  <2> HIDE DEF Row
  <2> QED BY <1>1, <2>1
<1> HIDE DEF Row
<1>4. ExpireOutUntil \in [Items -> Row] BY <1>1, <1>2 DEF ExpireOutUntil
<1>5. RestockItems \in [Items -> Row] BY <1>1, <1>2 DEF RestockItems
<1>6. \A i \in Items : \A r \in {In} \cup [out : {TRUE}, until : Untils] :
        [stock EXCEPT ![i] = IF r.out THEN r ELSE In] \in [Items -> Row]
  BY <1>2, <1>3
<1> QED BY <1>4, <1>5, <1>6 DEF Row

(* The row a step leaves is a row, with the stamp it had.                    *)
LEMMA StampKept ==
  ASSUME StatusInv, ordering' \in OrderingRow, ordering # NONE => ordering'.restockedAt = ordering.restockedAt,
         clock' \in Nat, clock <= clock', UNCHANGED restock
  PROVE  RestockReads' /\ (ordering \in OrderingRow \cup {NONE})'
<1>1. ordering' # NONE BY StatusAssumption
<1>2. ASSUME restock.at = "restock" PROVE restock.now \in Nat
  BY <1>2 DEF StatusInv, StatusTypeOK, Idle
<1> QED BY <1>1, <1>2 DEF StatusInv, StatusTypeOK, RestockReads

(* A step that reads the settings makes the row or leaves it.                *)
LEMMA RowMade ==
  ASSUME StatusInv, clock' \in Nat, clock <= clock', UNCHANGED restock, ordering' = EnsureStoreOrdering
  PROVE  RestockReads' /\ (ordering \in OrderingRow \cup {NONE})'
<1>1. ordering' \in OrderingRow /\ (ordering # NONE => ordering' = ordering) BY OrderingMade DEF StatusInv
<1> QED BY <1>1, StampKept

(* A step that leaves the row leaves what a restock pass has read of it.     *)
LEMMA RowKept ==
  ASSUME StatusInv, clock' \in Nat, clock <= clock', UNCHANGED <<restock, ordering>>
  PROVE  RestockReads' /\ (ordering \in OrderingRow \cup {NONE})'
<1>1. ASSUME restock.at = "restock" PROVE restock.now \in Nat
  BY <1>1 DEF StatusInv, StatusTypeOK, Idle
<1> QED BY <1>1 DEF StatusInv, StatusTypeOK, RestockReads

(* The initial states satisfy the invariant.                                 *)
LEMMA InvInit ==
  ASSUME StatusInit
  PROVE  StatusInv
<1>1. clock \in Nat /\ weekly \in OpeningHours BY StatusAssumption DEF StatusInit
<1>2. exc \in [DOMAIN exc -> Exception] BY DEF StatusInit
<1>3. stock \in [Items -> [out : BOOLEAN, until : Int \cup {NONE}]] BY DEF StatusInit, In
<1>4. restock = Idle /\ RestockReads BY DEF StatusInit, RestockReads, Idle
<1> QED BY <1>1, <1>2, <1>3, <1>4 DEF StatusInv, StatusTypeOK, StatusInit

(* The clock.                                                                *)
LEMMA InvTick ==
  ASSUME StatusInv, Tick
  PROVE  StatusInv'
<1>1. clock' \in Nat /\ clock <= clock' BY DEF StatusInv, StatusTypeOK, Tick
<1>2. RestockReads' /\ (ordering \in OrderingRow \cup {NONE})' BY <1>1, RowKept DEF Tick
<1> QED BY <1>1, <1>2 DEF StatusInv, StatusTypeOK, Tick, scheduleVars, stockVars

(* The manager saves ordering settings.                                      *)
LEMMA InvUpdateSettings ==
  ASSUME StatusInv, NEW in \in Orderings, UpdateSettings(in)
  PROVE  StatusInv'
<1>1. EnsureStoreOrdering \in OrderingRow /\ (ordering # NONE => EnsureStoreOrdering = ordering)
  BY OrderingMade DEF StatusInv
<1> PICK r : r = EnsureStoreOrdering OBVIOUS
<1>2. ordering' = [r EXCEPT !.pickup = in.pickup, !.delivery = in.delivery, !.eta = in.eta, !.days = in.days]
  BY DEF UpdateSettings, UpdateStoreOrdering
<1>3. ordering' \in OrderingRow /\ ordering'.restockedAt = r.restockedAt
  <2>1. r \in OrderingRow /\ ValidSettings(in) BY <1>1 DEF UpdateSettings
  <2> QED BY <1>2, <2>1, SettingsWritten, ZenonT(20)
<1>4. clock' = clock /\ clock \in Nat /\ UNCHANGED restock BY DEF StatusInv, StatusTypeOK, UpdateSettings, Edit
<1>5. RestockReads' /\ (ordering \in OrderingRow \cup {NONE})' BY <1>1, <1>3, <1>4, StampKept
<1> QED BY <1>5 DEF StatusInv, StatusTypeOK, UpdateSettings, Edit, scheduleVars, stockVars

(* The manager pauses or resumes.                                            *)
LEMMA InvPause ==
  ASSUME StatusInv, \/ \E preset \in Presets : Pause(preset)
                    \/ Resume
  PROVE  StatusInv'
<1>1. EnsureStoreOrdering \in OrderingRow /\ (ordering # NONE => EnsureStoreOrdering = ordering)
  BY OrderingMade DEF StatusInv
<1> PICK r : r = EnsureStoreOrdering OBVIOUS
<1>2. PICK at \in PausedAts, until \in PausedUntils : ordering' = [r EXCEPT !.pausedAt = at, !.pausedUntil = until]
  <2>1. CASE Resume BY <2>1 DEF Resume, ClearStorePause, PausedAts, PausedUntils
  <2>2. ASSUME NEW preset \in Presets, Pause(preset)
        PROVE  \E at \in PausedAts, until \in PausedUntils : ordering' = [r EXCEPT !.pausedAt = at, !.pausedUntil = until]
    <3>1. clock \in Nat /\ clock \in Int BY DEF StatusInv, StatusTypeOK
    <3>2. PauseUntil(sch, clock, preset) \in Int \cup {NONE} BY <3>1, SchIsOK, PauseUntilIs DEF StatusInv
    <3>3. clock \in PausedAts /\ PauseUntil(sch, clock, preset) \in PausedUntils BY <3>1, <3>2 DEF PausedAts, PausedUntils
    <3>4. ordering' = [r EXCEPT !.pausedAt = clock, !.pausedUntil = PauseUntil(sch, clock, preset)]
      BY <2>2 DEF Pause, SetStorePause
    <3> QED BY <3>3, <3>4
  <2> QED BY <2>1, <2>2
<1>3. ordering' \in OrderingRow /\ ordering'.restockedAt = r.restockedAt
  <2>1. r \in OrderingRow BY <1>1
  <2> PICK e : e = ordering' OBVIOUS
  <2>2. e = [r EXCEPT !.pausedAt = at, !.pausedUntil = until] BY <1>2, Zenon
  <2>3. e \in OrderingRow BY <2>1, <2>2, PauseWritten, Zenon
  <2>4. e.restockedAt = r.restockedAt BY <2>1, <2>2, ZenonT(20) DEF OrderingRow
  <2> QED BY <2>3, <2>4
<1>4. clock' = clock /\ clock \in Nat /\ edits' = edits + 1 /\ UNCHANGED <<restock, scheduleVars, stockVars>>
  BY DEF StatusInv, StatusTypeOK, Pause, Resume, Edit
<1>5. RestockReads' /\ (ordering \in OrderingRow \cup {NONE})' BY <1>1, <1>3, <1>4, StampKept
<1> QED BY <1>4, <1>5 DEF StatusInv, StatusTypeOK, scheduleVars, stockVars

(* The manager's edits that leave the row alone.                             *)
LEMMA InvManage ==
  ASSUME StatusInv, Edit, UNCHANGED ordering,
         weekly' \in OpeningHours, exc' \in [DOMAIN exc' -> Exception], optionsOut' \subseteq Options,
         stock' \in [Items -> [out : BOOLEAN, until : Int \cup {NONE}]]
  PROVE  StatusInv'
<1>1. clock' = clock /\ clock \in Nat /\ edits' \in Nat /\ UNCHANGED restock BY DEF StatusInv, StatusTypeOK, Edit
<1>2. RestockReads' /\ (ordering \in OrderingRow \cup {NONE})' BY <1>1, RowKept
<1> QED BY <1>1, <1>2 DEF StatusInv, StatusTypeOK

(* Each of the manager's edits.                                              *)
LEMMA InvManaged ==
  ASSUME StatusInv, Manage
  PROVE  StatusInv'
<1> USE DEF scheduleVars, stockVars
<1>0. /\ weekly \in OpeningHours /\ exc \in [DOMAIN exc -> Exception] /\ optionsOut \subseteq Options
      /\ stock \in [Items -> [out : BOOLEAN, until : Int \cup {NONE}]]
  BY DEF StatusInv, StatusTypeOK
<1>1. CASE \E in \in Orderings : UpdateSettings(in) BY <1>1, InvUpdateSettings
<1>2. CASE \E p \in Presets : Pause(p) BY <1>2, InvPause
<1>3. CASE Resume BY <1>3, InvPause
<1>4. ASSUME NEW d \in ExcDays, NEW e \in Exceptions, SetException(d, e) PROVE StatusInv'
  <2>1. e \in Exception BY StatusAssumption
  <2>2. exc' \in [DOMAIN exc' -> Exception]
    <3>1. exc' = [x \in DOMAIN exc \cup {d} |-> IF x = d THEN e ELSE exc[x]]
      BY <1>4 DEF SetException, UpsertStoreHoursException
    <3> QED BY <1>0, <2>1, <3>1
  <2> QED BY <1>0, <1>4, <2>2, InvManage DEF SetException
<1>5. ASSUME NEW d \in ExcDays, DeleteException(d) PROVE StatusInv'
  <2>1. exc' = [x \in DOMAIN exc \ {d} |-> exc[x]] BY <1>5 DEF DeleteException, DeleteStoreHoursException
  <2>2. exc' \in [DOMAIN exc' -> Exception] BY <1>0, <2>1
  <2> QED BY <1>0, <1>5, <2>2, InvManage DEF DeleteException
<1>6. ASSUME NEW h \in Hours, SetHours(h) PROVE StatusInv'
  <2>1. weekly' \in OpeningHours BY <1>6, StatusAssumption DEF SetHours
  <2> QED BY <1>0, <1>6, <2>1, InvManage DEF SetHours
<1>7. ASSUME NEW i \in Items, NEW r \in {In} \cup [out : {TRUE}, until : Untils], SetStock(i, r) PROVE StatusInv'
  <2>1. stock' \in [Items -> [out : BOOLEAN, until : Int \cup {NONE}]] BY <1>7, StockWritten DEF SetStock, StatusInv
  <2> QED BY <1>0, <1>7, <2>1, InvManage DEF SetStock
<1>8. ASSUME NEW o \in Options, SetOptionStock(o) PROVE StatusInv'
  <2>1. optionsOut' \subseteq Options BY <1>0, <1>8 DEF SetOptionStock
  <2> QED BY <1>0, <1>8, <2>1, InvManage DEF SetOptionStock
<1> QED BY <1>1, <1>2, <1>3, <1>4, <1>5, <1>6, <1>7, <1>8 DEF Manage

(* A step that only makes the row, where it reads the settings.              *)
LEMMA InvReadSettings ==
  ASSUME StatusInv, clock' = clock, ordering' = EnsureStoreOrdering,
         UNCHANGED <<scheduleVars, stockVars, restock, edits>>
  PROVE  StatusInv'
<1>1. clock' \in Nat /\ clock <= clock' BY DEF StatusInv, StatusTypeOK
<1>2. RestockReads' /\ (ordering \in OrderingRow \cup {NONE})' BY <1>1, RowMade
<1> QED BY <1>1, <1>2 DEF StatusInv, StatusTypeOK, scheduleVars, stockVars

(* The steps of a restock pass.                                              *)
LEMMA InvRestock ==
  ASSUME StatusInv, RestockExpire \/ RestockRows \/ Restock \/ RestockFails
  PROVE  StatusInv'
<1> USE DEF scheduleVars, stockVars
<1>0. /\ weekly \in OpeningHours /\ exc \in [DOMAIN exc -> Exception] /\ optionsOut \subseteq Options
      /\ stock \in [Items -> [out : BOOLEAN, until : Int \cup {NONE}]]
      /\ clock \in Nat /\ edits \in Nat /\ ordering \in OrderingRow \cup {NONE}
  BY DEF StatusInv, StatusTypeOK
<1>1. CASE RestockExpire
  <2>1. stock' \in [Items -> [out : BOOLEAN, until : Int \cup {NONE}]]
    BY <1>0, <1>1, StockWritten DEF RestockExpire, StatusInv
  <2>2. restock' = [at |-> "rows"] BY <1>1 DEF RestockExpire
  <2> QED BY <1>0, <1>1, <2>1, <2>2 DEF RestockExpire, StatusInv, StatusTypeOK, RestockReads
<1>2. CASE RestockRows
  <2>1. ordering' \in OrderingRow /\ ordering' # NONE BY <1>2, OrderingMade DEF RestockRows, StatusInv
  <2>2. ordering'.restockedAt \in Nat BY <2>1, RowsRead
  <2>3. restock' = [at |-> "restock", now |-> clock, restockedAt |-> ordering'.restockedAt] BY <1>2 DEF RestockRows
  <2> QED BY <1>0, <1>2, <2>1, <2>2, <2>3 DEF RestockRows, StatusInv, StatusTypeOK, RestockReads
<1>3. CASE Restock
  <2>1. restock' = Idle /\ RestockReads' BY <1>3 DEF Restock, RestockReads, Idle
  <2>2. restock.now \in Nat BY <1>3 DEF Restock, StatusInv, StatusTypeOK, Idle
  <2>3. ordering \in OrderingRow BY <1>0, <1>3 DEF Restock, StatusInv, RestockReads
  <2>4. [ordering EXCEPT !.restockedAt = restock.now] \in OrderingRow BY <2>2, <2>3, StampWritten
  <2>5. ordering' \in OrderingRow BY <1>3, <2>3, <2>4 DEF Restock, SetStoreRestocked
  <2>6. stock' \in [Items -> [out : BOOLEAN, until : Int \cup {NONE}]]
    BY <1>0, <1>3, StockWritten DEF Restock, StatusInv
  <2>7. optionsOut' \subseteq Options BY <1>0, <1>3 DEF Restock, RestockOptions
  <2> QED BY <1>0, <1>3, <2>1, <2>5, <2>6, <2>7 DEF Restock, StatusInv, StatusTypeOK
<1>4. CASE RestockFails
  <2>1. restock' = Idle /\ RestockReads' BY <1>4 DEF RestockFails, RestockReads, Idle
  <2> QED BY <1>0, <1>4, <2>1 DEF RestockFails, StatusInv, StatusTypeOK
<1> QED BY <1>1, <1>2, <1>3, <1>4

(* Every step keeps the invariant.                                           *)
LEMMA InvNext ==
  ASSUME StatusInv, [StorefrontNext]_storefrontVars
  PROVE  StatusInv'
<1> USE DEF scheduleVars, stockVars
<1>1. CASE Tick BY <1>1, InvTick
<1>2. CASE Manage BY <1>2, InvManaged
<1>3. CASE ReadSettings BY <1>3, InvReadSettings DEF ReadSettings
<1>4. CASE RestockExpire \/ RestockRows \/ Restock \/ RestockFails BY <1>4, InvRestock
<1>5. CASE ManagePrices
  <2>1. Edit /\ UNCHANGED <<weekly, exc, ordering, stock, optionsOut>>
    BY <1>5 DEF ManagePrices, SaveSettings, CreateDeal, UpdateDeal, DeleteDeal, DealEdit
  <2> QED BY <2>1, InvManage DEF StatusInv, StatusTypeOK
<1>6. CASE Sell
  <2>1. clock' = clock /\ ordering' = EnsureStoreOrdering /\ UNCHANGED <<scheduleVars, stockVars, restock, edits>>
    BY <1>6 DEF Sell, Quote, CheckStore, PriceAgain, DeliveryCheck, Build, Leave, Step
  <2> QED BY <2>1, InvReadSettings
<1>7. CASE UNCHANGED storefrontVars
  BY <1>7 DEF storefrontVars, statusVars, StatusInv, StatusTypeOK, RestockReads
<1> QED BY <1>1, <1>2, <1>3, <1>4, <1>5, <1>6, <1>7 DEF StorefrontNext, StatusNext

(* The rows of a location are well formed, and a restock pass that is about  *)
(* to write still has the stamp of the row it read: only a pass writes it.   *)
THEOREM StatusStays == StorefrontSpec => []StatusInv
<1>1. StorefrontInit => StatusInv BY InvInit DEF StorefrontInit
<1>2. StatusInv /\ [StorefrontNext]_storefrontVars => StatusInv' BY InvNext
<1> QED BY <1>1, <1>2, PTL DEF StorefrontSpec

(* The last reset is one of the reset times, and no later than now.          *)
LEMMA LastResetIs ==
  ASSUME NEW now \in Nat
  PROVE  \E d \in -1..Date(now) : LastReset(now, ResetHour) = Midnight(d) + ResetHour /\ Midnight(d) + ResetHour <= now
<1> PICK D \in Int : D = Date(now) BY DateIs
<1>1. DayLen \in Nat \ {0} /\ ResetHour \in 0..DayLen - 1 BY HoursAssumption, StatusAssumption
<1>2. Midnight(D) \in Int /\ Midnight(D - 1) = Midnight(D) - DayLen /\ Midnight(D) <= now /\ now < Midnight(D) + DayLen
  BY DateIs, MidnightIs
<1>3. 0 <= D
  <2>1. Midnight(0) = 0 BY <1>1 DEF Midnight
  <2>2. 0 = Date(0)
    <3>1. \A d \in Int : Midnight(d) <= 0 /\ 0 < Midnight(d) + DayLen => d = Date(0) BY DateIs
    <3>2. Midnight(0) <= 0 /\ 0 < Midnight(0) + DayLen BY <1>1, <2>1
    <3> QED BY <3>1, <3>2
  <2> QED BY <2>2, DatesInOrder
<1>4. CASE Midnight(D) + ResetHour > now
  <2>1. LastReset(now, ResetHour) = Midnight(D - 1) + ResetHour BY <1>4 DEF LastReset
  <2>2. D - 1 \in -1..Date(now) BY <1>3
  <2> QED BY <1>1, <1>2, <2>1, <2>2
<1>5. CASE ~(Midnight(D) + ResetHour > now)
  <2>1. LastReset(now, ResetHour) = Midnight(D) + ResetHour BY <1>5 DEF LastReset
  <2>2. D \in -1..Date(now) BY <1>3
  <2> QED BY <1>1, <1>2, <1>5, <2>1, <2>2
<1> QED BY <1>4, <1>5

(* The restock loop brings nothing back before its time, however its reads   *)
(* and the manager's edits fall: an item without a time comes back only when *)
(* a daily reset lies between the row's stamp and now.                       *)
THEOREM ComesBackWhenDue == StorefrontSpec => BackWhenDue
<1> DEFINE Back(i) == IF stock[i].until # NONE THEN stock[i].until <= clock
                      ELSE \E d \in -1..Date(clock) : Midnight(d) + ResetHour \in ordering.restockedAt + 1..clock
           Kept == \A i \in Items : (stock[i].out /\ ~stock'[i].out /\ edits' = edits) => Back(i)
<1> USE DEF scheduleVars, stockVars
<1>1. ASSUME StatusInv, StorefrontNext PROVE Kept
  <2>0. edits \in Nat BY <1>1 DEF StatusInv, StatusTypeOK
  <2>1. CASE stock' = stock BY <2>1
  <2>2. CASE Edit BY <2>0, <2>2 DEF Edit
  <2>3. CASE stock' = ExpireOutUntil BY <2>3 DEF ExpireOutUntil
  <2>4. CASE Restock /\ Due(restock)
    <3>1. SUFFICES ASSUME NEW i \in Items, stock[i].out, ~stock'[i].out PROVE Back(i) OBVIOUS
    <3>2. stock[i].until = NONE \/ stock[i].until <= clock BY <2>4, <3>1 DEF Restock, RestockItems
    <3>3. CASE stock[i].until # NONE BY <3>2, <3>3
    <3>4. CASE stock[i].until = NONE
      <4>1. /\ restock.now \in Nat /\ restock.now <= clock /\ clock \in Nat /\ restock.restockedAt \in Nat
            /\ restock.restockedAt = ordering.restockedAt
        BY <1>1, <2>4 DEF Restock, StatusInv, StatusTypeOK, RestockReads, Idle
      <4>2. PICK d \in -1..Date(restock.now) :
               /\ LastReset(restock.now, ResetHour) = Midnight(d) + ResetHour
               /\ Midnight(d) + ResetHour <= restock.now
        BY <4>1, LastResetIs
      <4>3. ResetHour \in Int /\ d \in Int /\ Midnight(d) \in Int BY StatusAssumption, MidnightIs
      <4>4. restock.restockedAt < Midnight(d) + ResetHour BY <2>4, <4>2 DEF Due
      <4>5. Midnight(d) + ResetHour \in ordering.restockedAt + 1..clock BY <4>1, <4>2, <4>3, <4>4
      <4>6. Date(restock.now) \in Int /\ Date(clock) \in Int /\ Date(restock.now) <= Date(clock)
        BY <4>1, DateIs, DatesInOrder
      <4>7. d \in -1..Date(clock) BY <4>3, <4>6
      <4> QED BY <3>4, <4>5, <4>7
    <3> QED BY <3>3, <3>4
  <2>5. \/ stock' = stock
        \/ Edit
        \/ stock' = ExpireOutUntil
        \/ Restock /\ Due(restock)
    <3>1. CASE Manage
      BY <3>1 DEF Manage, UpdateSettings, Pause, Resume, SetException, DeleteException, SetHours, SetStock, SetOptionStock
    <3>2. CASE Tick \/ ReadSettings \/ RestockExpire \/ RestockRows \/ Restock \/ RestockFails
      BY <3>2 DEF Tick, ReadSettings, RestockExpire, RestockRows, Restock, RestockFails
    <3>3. CASE ManagePrices
      BY <3>3 DEF ManagePrices, SaveSettings, CreateDeal, UpdateDeal, DeleteDeal, DealEdit
    <3>4. CASE Sell
      BY <3>4 DEF Sell, Quote, CheckStore, PriceAgain, DeliveryCheck, Build, Leave, Step
    <3> QED BY <1>1, <3>1, <3>2, <3>3, <3>4 DEF StorefrontNext, StatusNext
  <2> QED BY <2>1, <2>2, <2>3, <2>4, <2>5
<1>2. StatusInv /\ [StorefrontNext]_storefrontVars => [Kept]_storefrontVars BY <1>1
<1>3. BackWhenDue <=> [][Kept]_storefrontVars BY DEF BackWhenDue
<1> HIDE DEF Kept
<1> QED BY <1>2, <1>3, StatusStays, PTL DEF StorefrontSpec

-----------------------------------------------------------------------------
(* A pause that has ended by an instant is over at every later one.          *)
LEMMA PauseEnds ==
  ASSUME NEW st \in OrderingRow, NEW t \in Int, NEW u \in Int, t <= u,
         ~Paused(st, t) \/ (st.pausedUntil # NONE /\ st.pausedUntil <= u)
  PROVE  ~Paused(st, u)
<1>1. st.pausedUntil \in Int \cup {NONE} BY RowsRead
<1>2. CASE st.pausedUntil = NONE BY <1>2 DEF Paused
<1>3. CASE st.pausedUntil \in Int BY <1>3, StatusAssumption DEF Paused
<1> QED BY <1>1, <1>2, <1>3

(* A slot leaves the estimate inside its stretch, after now and the pause.   *)
LEMMA SlotIs ==
  ASSUME NEW now \in Int, NEW st \in OrderingRow, NEW kind \in Kinds, NEW p, p.start \in Int, p.end \in Int,
         ~(Paused(st, now) /\ st.pausedUntil = NONE), NEW t \in Slots(now, st, kind, p)
  PROVE  /\ t \in Int /\ t <= p.end /\ now <= t - st.eta[kind] /\ p.start <= t - st.eta[kind]
         /\ Paused(st, now) => st.pausedUntil <= t - st.eta[kind]
<1> DEFINE S == {p.start, now} \cup IF Paused(st, now) THEN {st.pausedUntil} ELSE {}
<1> PICK from : from = Max(S) OBVIOUS
<1> PICK eta \in Nat : eta = st.eta[kind] BY RowsRead
<1>1. Paused(st, now) => st.pausedUntil \in Int BY RowsRead
<1>2. S \in SUBSET Int /\ S # {} BY <1>1
<1>3. PICK b \in Int : \A x \in S : x <= b
  <2>1. PICK c \in Int : p.start <= c /\ now <= c BY p.start <= now \/ now <= p.start
  <2>2. CASE Paused(st, now)
    <3>1. PICK b \in Int : c <= b /\ st.pausedUntil <= b BY <1>1, <2>2, c <= st.pausedUntil \/ st.pausedUntil <= c
    <3> QED BY <1>1, <2>1, <2>2, <3>1
  <2>3. CASE ~Paused(st, now) BY <2>1, <2>3
  <2> QED BY <2>2, <2>3
<1>4. from \in S /\ \A x \in S : x <= from
  <2> HIDE DEF S
  <2> QED BY <1>2, <1>3, MaxIs
<1>5. from \in Int /\ p.start <= from /\ now <= from /\ (Paused(st, now) => st.pausedUntil <= from) BY <1>2, <1>4
<1>6. t \in CeilSlot(from + eta)..p.end BY DEF Slots
<1> HIDE DEF S
<1> PICK c : c = CeilSlot(from + eta) OBVIOUS
<1>7. c \in Int /\ from + eta <= c BY <1>5, CeilUp
<1>8. t \in Int /\ t <= p.end /\ from <= t - eta BY <1>5, <1>6, <1>7
<1> QED BY <1>1, <1>5, <1>8

(* The invariant gives PromiseKept ...                                       *)
LEMMA PromisesKept ==
  ASSUME StatusInv
  PROVE  PromiseKept
<1>1. clock \in Int BY DEF StatusInv, StatusTypeOK
<1> PICK st \in OrderingRow : st = row BY OrderingMade DEF StatusInv, row
<1>2. ScheduleOK(sch) BY SchIsOK DEF StatusInv
<1> PICK s : s = sch OBVIOUS
<1>3. SUFFICES ASSUME NEW kind \in Kinds, NEW date \in Int, NEW t \in Times(clock, s, st, kind, date),
                      NEW start, start = t - st.eta[kind]
               PROVE  start >= clock /\ ~Paused(st, start) /\ \A u \in start..t - 1 : OpenInstant(u)
  <2>1. Date(clock) \in Int BY <1>1, DateIs
  <2> QED BY <2>1 DEF PromiseKept
<1>4. ~(Paused(st, clock) /\ st.pausedUntil = NONE) BY DEF Times
<1>5. PICK p \in Periods(s, date) : t \in Slots(clock, st, kind, p) BY DEF Times
<1>6. p.start \in Int /\ p.end \in Int BY <1>2, PeriodIs
<1>7. st.eta[kind] \in Nat BY RowsRead
<1>8. /\ t \in Int /\ start \in Int /\ t <= p.end /\ clock <= start /\ p.start <= start
      /\ Paused(st, clock) => st.pausedUntil <= start
  BY <1>1, <1>3, <1>4, <1>5, <1>6, <1>7, SlotIs
<1>9. ~Paused(st, start) BY <1>1, <1>4, <1>8, PauseEnds
<1>10. ASSUME NEW u \in start..t - 1 PROVE OpenInstant(u)
  <2>1. Holds(p, u) /\ u \in Int BY <1>6, <1>8 DEF Holds
  <2> QED BY <1>2, <1>5, <2>1, HoldsIsOpen
<1> QED BY <1>1, <1>8, <1>9, <1>10

(* The next opening from an instant on, whether the store is open or not.    *)
LEMMA OpensNext ==
  ASSUME ScheduleOK(sch), NEW t \in Int, NEW next,
         next = {u \in t..Midnight(Date(t) + LookAhead + 1) - 1 : OpenInstant(u)}
  PROVE  NextOpen(sch, t) = IF next = {} THEN NONE ELSE Min(next)
<1>1. CASE ~OpenAt(sch, t) BY <1>1, NextOpenIs
<1>2. CASE OpenAt(sch, t)
  <2>1. OpenInstant(t) BY <1>2, OpenAtIsOpen
  <2>2. DayLen \in Nat \ {0} /\ LookAhead \in Nat \ {0} BY HoursAssumption
  <2> PICK D \in Int : D = Date(t) BY DateIs
  <2>3. Midnight(D) \in Int /\ t < Midnight(D) + DayLen BY DateIs, MidnightIs
  <2>4. Midnight(D + LookAhead + 1) \in Int /\ Midnight(D) + DayLen <= Midnight(D + LookAhead + 1)
    <3> PICK last \in Int : last = D + LookAhead + 1 BY <2>2
    <3>1. D < last BY <2>2
    <3> QED BY <3>1, MidnightIs, MidnightsInOrder
  <2>5. t \in next BY <2>1, <2>2, <2>3, <2>4
  <2>6. next \in SUBSET Int /\ \A u \in next : t <= u BY <2>4
  <2> PICK m : m = Min(next) OBVIOUS
  <2>7. m \in next /\ \A u \in next : m <= u BY <2>5, <2>6, MinIs
  <2>8. m = t BY <2>5, <2>6, <2>7
  <2> QED BY <1>2, <2>5, <2>8 DEF NextOpen
<1> QED BY <1>1, <1>2

(* ... and StatusIsTrue.                                                     *)
LEMMA StatusesAreTrue ==
  ASSUME StatusInv
  PROVE  StatusIsTrue
<1> PICK now \in Int : now = clock BY DEF StatusInv, StatusTypeOK
<1> PICK st \in OrderingRow : st = row BY OrderingMade DEF StatusInv, row
<1>1. ScheduleOK(sch) BY SchIsOK DEF StatusInv
<1> PICK s : s = sch OBVIOUS
<1> DEFINE takes(t) == OpenInstant(t) /\ ~Paused(st, t)
           from == IF Paused(st, now) /\ st.pausedUntil # NONE THEN st.pausedUntil ELSE now
           next == {t \in from..Midnight(Date(from) + LookAhead + 1) - 1 : takes(t)}
           open == {t \in from..Midnight(Date(from) + LookAhead + 1) - 1 : OpenInstant(t)}
           held == Paused(st, now) /\ st.pausedUntil = NONE
<1>2. OpenAt(s, now) <=> OpenInstant(now) BY <1>1, OpenAtIsOpen
<1>3. (State(now, s, st) = "open") = takes(now) BY <1>2 DEF State
<1>4. from \in Int BY RowsRead
<1>5. ASSUME ~held PROVE next = open
  <2>1. ASSUME NEW t \in from..Midnight(Date(from) + LookAhead + 1) - 1 PROVE ~Paused(st, t)
    <3>1. t \in Int /\ from <= t
      <4> HIDE DEF from
      <4>1. Date(from) \in Int BY <1>4, DateIs
      <4>2. LookAhead \in Nat BY HoursAssumption
      <4> PICK last \in Int : last = Date(from) + LookAhead + 1 BY <4>1, <4>2
      <4>3. Midnight(last) \in Int BY MidnightIs
      <4> QED BY <1>4, <2>1, <4>3
    <3>2. CASE Paused(st, now)
      <4>1. st.pausedUntil \in Int /\ st.pausedUntil # NONE /\ from = st.pausedUntil BY <1>4, <1>5, <3>2
      <4> QED BY <3>1, <4>1 DEF Paused
    <3>3. CASE ~Paused(st, now)
      <4>1. from = now BY <3>3
      <4> HIDE DEF from
      <4>2. t \in Int /\ now <= t BY <3>1, <4>1
      <4> QED BY <3>3, <4>2, PauseEnds, Zenon
    <3> QED BY <3>2, <3>3
  <2> QED BY <2>1
<1>6. NextOpen(s, from) = IF open = {} THEN NONE ELSE Min(open)
  <2> HIDE DEF from
  <2> QED BY <1>1, <1>4, OpensNext
<1>7. ASSUME ~takes(now)
      PROVE  NextOpenAt(now, s, st) = IF next = {} \/ held THEN NONE ELSE Min(next)
  <2>1. ~Accepting(now, s, st) BY <1>3, <1>7 DEF Accepting
  <2>2. CASE held BY <2>1, <2>2 DEF NextOpenAt
  <2>3. CASE ~held
    <3>1. NextOpenAt(now, s, st) = NextOpen(s, from) BY <1>2, <1>7, <2>1, <2>3 DEF NextOpenAt
    <3> HIDE DEF next, open, held, from
    <3> QED BY <1>5, <1>6, <2>3, <3>1
  <2> QED BY <2>2, <2>3
<1>8. ClosesAt(s, now) # NONE => \A t \in now..ClosesAt(s, now) - 1 : OpenInstant(t) BY <1>1, ClosesAtIs
<1> PICK r : r = Compute(now, s, st) OBVIOUS
<1>9. /\ r.state = State(now, s, st) /\ r.nextOpenAt = NextOpenAt(now, s, st)
      /\ r.closesAt = IF OpenAt(s, now) THEN ClosesAt(s, now) ELSE NONE
  BY DEF Compute
<1>10. /\ (r.state = "open") = takes(now)
       /\ ~takes(now) => r.nextOpenAt = IF next = {} \/ held THEN NONE ELSE Min(next)
       /\ r.closesAt # NONE => \A t \in now..r.closesAt - 1 : OpenInstant(t)
  BY <1>3, <1>7, <1>8, <1>9
<1> QED BY <1>10 DEF StatusIsTrue

(* Every time offered is one the kitchen can keep, whatever the hours, the   *)
(* exceptions, the estimates and the pause.                                  *)
THEOREM PromisesAreKept == StorefrontSpec => []PromiseKept
<1>1. StatusInv => PromiseKept BY PromisesKept
<1> QED BY <1>1, StatusStays, PTL

(* The status shown, the next opening and the close are the true ones.       *)
THEOREM StatusIsTold == StorefrontSpec => []StatusIsTrue
<1>1. StatusInv => StatusIsTrue BY StatusesAreTrue
<1> QED BY <1>1, StatusStays, PTL

-----------------------------------------------------------------------------
(* The order's money: folds over lists and what they keep, then the pricing  *)
(* engine from an item to the quote, then the shop while it is edited.       *)

(* Folding st over a sequence of n things from b, highest index last: the    *)
(* function the fold is chosen as exists.                                    *)
StepsIn(st, n, V, b) == n \in Nat /\ b \in V /\ st \in [V \X (1..n) -> V]
Folds(it, n, V, b, st) ==
  /\ it \in [SUBSET (1..n) -> V]
  /\ \A s \in SUBSET (1..n) : it[s] = IF s = {} THEN b ELSE st[<<it[s \ {Max(s)}], Max(s)>>]

(* Some function is the fold.                                                *)
LEMMA FoldExists ==
  ASSUME NEW V, NEW b, NEW n, NEW st, StepsIn(st, n, V, b)
  PROVE  \E it : Folds(it, n, V, b, st)
<1>0. b \in V /\ n \in Nat /\ st \in [V \X (1..n) -> V] BY DEF StepsIn
<1> DEFINE Rec(it, k) == \A s \in SUBSET (1..k) : it[s] = IF s = {} THEN b ELSE st[<<it[s \ {Max(s)}], Max(s)>>]
           Bad == {k \in 0..n : ~ \E it \in [SUBSET (1..k) -> V] : Rec(it, k)}
<1>1. SUFFICES ASSUME Bad # {} PROVE FALSE
  <2>1. SUFFICES ASSUME Bad = {} PROVE \E it \in [SUBSET (1..n) -> V] : Rec(it, n) BY DEF Folds
  <2>2. n \in 0..n BY <1>0
  <2>3. n \notin Bad
    <3> HIDE DEF Bad
    <3> QED BY <2>1
  <2> QED BY <2>2, <2>3
<1>2. PICK k \in Bad : \A m \in Bad : k <= m
  <2>1. Bad \in SUBSET Nat BY <1>0
  <2> HIDE DEF Bad
  <2> QED BY <1>1, <2>1, LeastExists
<1>3. k \in 0..n /\ ~ \E it \in [SUBSET (1..k) -> V] : Rec(it, k) BY <1>2
<1>4. k # 0
  <2>1. SUFFICES ASSUME k = 0 PROVE FALSE OBVIOUS
  <2> DEFINE it == [s \in SUBSET (1..0) |-> b]
  <2>2. 1..0 = {} OBVIOUS
  <2>3. it \in [SUBSET (1..0) -> V] /\ Rec(it, 0) BY <1>0, <2>2
  <2> QED BY <1>3, <2>1, <2>3
<1>5. PICK f \in [SUBSET (1..k - 1) -> V] : Rec(f, k - 1)
  <2>1. k - 1 \in 0..n /\ ~(k <= k - 1) BY <1>0, <1>3, <1>4
  <2>2. k - 1 \notin Bad
    <3> HIDE DEF Bad
    <3> QED BY <1>2, <2>1
  <2> QED BY <2>1, <2>2
<1> DEFINE it == [s \in SUBSET (1..k) |-> IF k \in s THEN st[<<f[s \ {k}], k>>] ELSE f[s]]
<1>6. ASSUME NEW s \in SUBSET (1..k), s # {}
      PROVE  /\ Max(s) \in s /\ \A y \in s : y <= Max(s)
             /\ k \in s => Max(s) = k
             /\ k \notin s => s \in SUBSET (1..k - 1)
  <2>1. s \in SUBSET Int /\ k \in Int /\ \A x \in s : x <= k BY <1>0, <1>3, <1>6
  <2>2. Max(s) \in s /\ \A y \in s : y <= Max(s) BY <1>6, <2>1, MaxIs
  <2>3. k \in s => Max(s) = k
    <3>1. Max(s) \in 1..k BY <1>6, <2>2
    <3> QED BY <1>3, <2>2, <3>1
  <2>4. k \notin s => s \in SUBSET (1..k - 1) BY <1>3, <1>6
  <2> QED BY <2>2, <2>3, <2>4
<1>7. it \in [SUBSET (1..k) -> V]
  <2>1. ASSUME NEW s \in SUBSET (1..k) PROVE it[s] \in V
    <3>1. s \ {k} \in SUBSET (1..k - 1) BY <1>3
    <3>2. k \in 1..n BY <1>0, <1>3, <1>4
    <3>3. f[s \ {k}] \in V BY <1>5, <3>1
    <3>4. k \notin s => s = s \ {k} OBVIOUS
    <3> QED BY <1>0, <1>5, <3>2, <3>3, <3>4
  <2> QED BY <2>1
<1>8. Rec(it, k)
  <2>1. ASSUME NEW s \in SUBSET (1..k) PROVE it[s] = IF s = {} THEN b ELSE st[<<it[s \ {Max(s)}], Max(s)>>]
    <3>1. CASE s = {}
      <4>1. it[s] = f[s] BY <3>1
      <4>2. s \in SUBSET (1..k - 1) BY <3>1
      <4> QED BY <1>5, <3>1, <4>1, <4>2
    <3>2. CASE s # {} /\ k \in s
      <4>1. Max(s) = k BY <1>6, <3>2
      <4>2. s \ {k} \in SUBSET (1..k) /\ k \notin s \ {k} OBVIOUS
      <4>3. it[s \ {k}] = f[s \ {k}] BY <4>2
      <4> QED BY <3>2, <4>1, <4>3
    <3>3. CASE s # {} /\ k \notin s
      <4>1. s \in SUBSET (1..k - 1) /\ Max(s) \in s BY <1>6, <3>3
      <4>2. s \ {Max(s)} \in SUBSET (1..k) /\ k \notin s \ {Max(s)} /\ s \ {Max(s)} \in SUBSET (1..k - 1) BY <3>3, <4>1
      <4>3. it[s \ {Max(s)}] = f[s \ {Max(s)}] /\ it[s] = f[s] BY <3>3, <4>2
      <4> QED BY <1>5, <3>3, <4>1, <4>3
    <3> QED BY <3>1, <3>2, <3>3
  <2> QED BY <2>1
<1> QED BY <1>3, <1>7, <1>8

(* 1..k without its greatest is 1..k - 1.                                    *)
LEMMA Prefix ==
  ASSUME NEW k \in Nat, k > 0
  PROVE  1..k # {} /\ Max(1..k) = k /\ (1..k) \ {Max(1..k)} = 1..k - 1
<1>1. 1..k \in SUBSET Int /\ 1..k # {} /\ \A x \in 1..k : x <= k OBVIOUS
<1> PICK s : s = 1..k OBVIOUS
<1>2. Max(1..k) \in 1..k /\ \A y \in 1..k : y <= Max(1..k)
  <2>1. s \in SUBSET Int /\ s # {} /\ k \in Int /\ \A x \in s : x <= k BY <1>1
  <2> QED BY <2>1, MaxIs
<1>3. Max(1..k) = k BY <1>2
<1> QED BY <1>1, <1>3

(* What the steps of a fold keep, its result has.                            *)
Keeps(g, n, V) == n \in Nat /\ g[{}] \in V /\ \A k \in 1..n : g[1..k - 1] \in V => g[1..k] \in V

(* What every step of a fold keeps, its result has.                          *)
LEMMA FoldStays ==
  ASSUME NEW V, NEW n, NEW g, Keeps(g, n, V)
  PROVE  \A k \in 0..n : g[1..k] \in V
<1>0. n \in Nat /\ g[{}] \in V /\ \A k \in 1..n : g[1..k - 1] \in V => g[1..k] \in V BY DEF Keeps
<1> DEFINE Bad == {j \in 0..n : g[1..j] \notin V}
<1>1. SUFFICES ASSUME Bad # {} PROVE FALSE OBVIOUS
<1>2. Bad \in SUBSET Nat BY <1>0
<1>3. PICK j \in Bad : \A m \in Bad : j <= m
  <2> HIDE DEF Bad
  <2> QED BY <1>1, <1>2, LeastExists
<1>4. j # 0
  <2>1. 1..0 = {} OBVIOUS
  <2> QED BY <1>0, <1>3, <2>1
<1>5. j \in 1..n /\ j - 1 \in 0..n /\ ~(j <= j - 1) BY <1>0, <1>3, <1>4
<1>6. j - 1 \notin Bad
  <2> HIDE DEF Bad
  <2> QED BY <1>3, <1>5
<1> QED BY <1>0, <1>3, <1>5, <1>6

(* Sum, as the library defines it.                                           *)
SumTo(f) == CHOOSE g : g = [s \in SUBSET DOMAIN f |-> IF s = {} THEN 0 ELSE g[s \ {Max(s)}] + f[Max(s)]]

(* Sum is the fold the library defines it as.                                *)
LEMMA SumIsFold ==
  ASSUME NEW f
  PROVE  Sum(f) = SumTo(f)[DOMAIN f]
BY DEF Sum, FoldLeft, MapThenFoldSet, SumTo

(* Integers in a row.                                                        *)
Row(f, n) == n \in Nat /\ DOMAIN f = 1..n /\ \A k \in 1..n : f[k] \in Int

(* The partial sums of integers.                                             *)
LEMMA SumsUp ==
  ASSUME NEW f, NEW n, Row(f, n)
  PROVE  /\ Sum(f) = SumTo(f)[1..n]
         /\ SumTo(f)[{}] = 0
         /\ \A k \in 0..n : SumTo(f)[1..k] \in Int
         /\ \A k \in 1..n : SumTo(f)[1..k] = SumTo(f)[1..k - 1] + f[k]
<1>1. n \in Nat /\ DOMAIN f = 1..n /\ \A k \in 1..n : f[k] \in Int BY DEF Row
<1> DEFINE st == [p \in Int \X (1..n) |-> p[1] + f[p[2]]]
<1>2. st \in [Int \X (1..n) -> Int] BY <1>1
<1>3. PICK it : Folds(it, n, Int, 0, st)
  <2>1. StepsIn(st, n, Int, 0) BY <1>1, <1>2 DEF StepsIn
  <2> QED BY <2>1, FoldExists
<1> USE DEF Folds
<1>4. ASSUME NEW s \in SUBSET (1..n) PROVE it[s] = IF s = {} THEN 0 ELSE it[s \ {Max(s)}] + f[Max(s)]
  <2>1. CASE s = {} BY <1>3, <2>1
  <2>2. CASE s # {}
    <3>1. s \in SUBSET Int /\ n \in Int /\ \A x \in s : x <= n BY <1>1
    <3>2. Max(s) \in s BY <2>2, <3>1, MaxIs
    <3>3. Max(s) \in 1..n /\ s \ {Max(s)} \in SUBSET (1..n) BY <3>2
    <3>4. it[s \ {Max(s)}] \in Int BY <1>3, <3>3
    <3>5. <<it[s \ {Max(s)}], Max(s)>> \in Int \X (1..n) BY <3>3, <3>4
    <3>6. st[<<it[s \ {Max(s)}], Max(s)>>] = it[s \ {Max(s)}] + f[Max(s)] BY <3>5
    <3> QED BY <1>3, <2>2, <3>6
  <2> QED BY <2>1, <2>2
<1>5. it = [s \in SUBSET DOMAIN f |-> IF s = {} THEN 0 ELSE it[s \ {Max(s)}] + f[Max(s)]] BY <1>1, <1>3, <1>4
<1> DEFINE g == SumTo(f)
<1>6. g = [s \in SUBSET DOMAIN f |-> IF s = {} THEN 0 ELSE g[s \ {Max(s)}] + f[Max(s)]] BY <1>5 DEF SumTo
<1>7. \A s \in SUBSET (1..n) : g[s] = IF s = {} THEN 0 ELSE g[s \ {Max(s)}] + f[Max(s)]
  <2> HIDE DEF g
  <2> QED BY <1>1, <1>6
<1> HIDE DEF g
<1>8. g[{}] = 0 BY <1>7
<1>9. ASSUME NEW k \in 1..n PROVE g[1..k] = g[1..k - 1] + f[k]
  <2>1. k \in Nat /\ k > 0 /\ 1..k \in SUBSET (1..n) BY <1>1
  <2> QED BY <1>7, <2>1, Prefix
<1>10. ASSUME NEW k \in 0..n PROVE g[1..k] \in Int
  <2>1. ASSUME NEW j \in 1..n, g[1..j - 1] \in Int PROVE g[1..j] \in Int
    <3>1. g[1..j] = g[1..j - 1] + f[j] /\ f[j] \in Int BY <1>1, <1>9
    <3> QED BY <2>1, <3>1
  <2>2. Keeps(g, n, Int) BY <1>1, <1>8, <2>1 DEF Keeps
  <2> QED BY <1>10, <2>2, FoldStays
<1>11. Sum(f) = g[1..n] BY <1>1, SumIsFold DEF g
<1> QED BY <1>8, <1>9, <1>10, <1>11 DEF g

(* A sum of integers is one; nothing adds up to nothing.                     *)
LEMMA SumIsInt ==
  ASSUME NEW f, NEW n, Row(f, n)
  PROVE  Sum(f) \in Int /\ (n = 0 => Sum(f) = 0)
<1>1. n \in 0..n BY DEF Row
<1>2. 1..0 = {} OBVIOUS
<1> QED BY <1>1, <1>2, SumsUp

(* What balances term by term balances.                                      *)
LEMMA SumsBalance ==
  ASSUME NEW n, NEW f, NEW g, NEW h, NEW w, Row(f, n), Row(g, n), Row(h, n), Row(w, n),
         \A k \in 1..n : f[k] + g[k] = h[k] + w[k]
  PROVE  Sum(f) + Sum(g) = Sum(h) + Sum(w)
<1>1. n \in Nat BY DEF Row
<1> DEFINE F(k) == SumTo(f)[1..k]
           G(k) == SumTo(g)[1..k]
           H(k) == SumTo(h)[1..k]
           W(k) == SumTo(w)[1..k]
           Bad == {k \in 0..n : F(k) + G(k) # H(k) + W(k)}
<1>2. \A k \in 0..n : F(k) \in Int /\ G(k) \in Int /\ H(k) \in Int /\ W(k) \in Int BY SumsUp
<1>3. \A k \in 1..n : /\ F(k) = F(k - 1) + f[k] /\ G(k) = G(k - 1) + g[k]
                       /\ H(k) = H(k - 1) + h[k] /\ W(k) = W(k - 1) + w[k] BY SumsUp
<1>4. F(0) = 0 /\ G(0) = 0 /\ H(0) = 0 /\ W(0) = 0
  <2>1. 1..0 = {} OBVIOUS
  <2> QED BY <2>1, SumsUp
<1>5. \A k \in 1..n : f[k] \in Int /\ g[k] \in Int /\ h[k] \in Int /\ w[k] \in Int BY DEF Row
<1>6. Sum(f) = F(n) /\ Sum(g) = G(n) /\ Sum(h) = H(n) /\ Sum(w) = W(n) BY SumsUp
<1> HIDE DEF F, G, H, W
<1>7. SUFFICES ASSUME Bad # {} PROVE FALSE
  <2>1. n \in 0..n BY <1>1
  <2>2. SUFFICES ASSUME Bad = {} PROVE F(n) + G(n) = H(n) + W(n) BY <1>6
  <2>3. n \notin Bad BY <2>2
  <2> QED BY <2>1, <2>3
<1>8. Bad \in SUBSET Nat BY <1>1
<1>9. PICK k \in Bad : \A m \in Bad : k <= m
  <2> HIDE DEF Bad
  <2> QED BY <1>7, <1>8, LeastExists
<1>10. k # 0 BY <1>4, <1>9
<1>11. k \in 1..n /\ k - 1 \in 0..n /\ k \in 0..n /\ ~(k <= k - 1) BY <1>1, <1>9, <1>10
<1>12. k - 1 \notin Bad
  <2> HIDE DEF Bad
  <2> QED BY <1>9, <1>11
<1>13. F(k - 1) + G(k - 1) = H(k - 1) + W(k - 1) BY <1>11, <1>12
<1>14. f[k] + g[k] = h[k] + w[k] BY <1>11
<1>15. F(k) + G(k) = H(k) + W(k)
  <2> HIDE DEF Bad
  <2> QED BY <1>2, <1>3, <1>5, <1>11, <1>13, <1>14
<1> QED BY <1>9, <1>15

(* One term more.                                                            *)
LEMMA SumGrows ==
  ASSUME NEW n, NEW f, NEW g, Row(f, n), Row(g, n + 1), \A k \in 1..n : g[k] = f[k]
  PROVE  Sum(g) = Sum(f) + g[n + 1]
<1>1. n \in Nat BY DEF Row
<1> DEFINE d == [s \in {1..k : k \in 0..n} |-> SumTo(g)[s] - SumTo(f)[s]]
<1>2. \A k \in 0..n : /\ SumTo(f)[1..k] \in Int /\ SumTo(g)[1..k] \in Int
                       /\ d[1..k] = SumTo(g)[1..k] - SumTo(f)[1..k]
  <2>1. \A k \in 0..n + 1 : SumTo(g)[1..k] \in Int BY SumsUp
  <2>2. \A k \in 0..n : SumTo(f)[1..k] \in Int BY SumsUp
  <2> QED BY <1>1, <2>1, <2>2
<1>3. \A k \in 1..n : SumTo(f)[1..k] = SumTo(f)[1..k - 1] + f[k] BY SumsUp
<1>4. \A k \in 1..n + 1 : SumTo(g)[1..k] = SumTo(g)[1..k - 1] + g[k] BY SumsUp
<1> PICK F : F = SumTo(f) OBVIOUS
<1> PICK G : G = SumTo(g) OBVIOUS
<1> HIDE DEF d
<1>5. \A k \in 0..n : d[1..k] \in {0}
  <2>1. d[{}] \in {0}
    <3>1. 1..0 = {} /\ 0 \in 0..n BY <1>1
    <3>2. F[{}] = 0 /\ G[{}] = 0 BY SumsUp
    <3>3. d[1..0] = G[1..0] - F[1..0] BY <1>2, <3>1
    <3> QED BY <3>1, <3>2, <3>3
  <2>2. ASSUME NEW k \in 1..n, d[1..k - 1] \in {0} PROVE d[1..k] \in {0}
    <3>1. k - 1 \in 0..n /\ k \in 0..n /\ k \in 1..n + 1 BY <1>1
    <3>2. F[1..k] = F[1..k - 1] + f[k] /\ G[1..k] = G[1..k - 1] + g[k] BY <1>3, <1>4, <3>1
    <3>3. d[1..k] = G[1..k] - F[1..k] /\ d[1..k - 1] = G[1..k - 1] - F[1..k - 1] BY <1>2, <3>1
    <3>4. f[k] \in Int /\ g[k] = f[k] BY DEF Row
    <3>5. F[1..k - 1] \in Int /\ G[1..k - 1] \in Int BY <1>2, <3>1
    <3> PICK x, y : x = F[1..k - 1] /\ y = G[1..k - 1] OBVIOUS
    <3> QED BY <2>2, <3>2, <3>3, <3>4, <3>5
  <2>3. Keeps(d, n, {0}) BY <1>1, <2>1, <2>2 DEF Keeps
  <2> QED BY <2>3, FoldStays
<1>6. G[1..n] = F[1..n]
  <2>1. n \in 0..n BY <1>1
  <2>2. d[1..n] = G[1..n] - F[1..n] /\ d[1..n] = 0 BY <1>2, <1>5, <2>1
  <2> QED BY <1>2, <2>1, <2>2
<1>7. n + 1 \in 1..n + 1 /\ (n + 1) - 1 = n BY <1>1
<1>8. G[1..n + 1] = G[1..n] + g[n + 1] BY <1>4, <1>7
<1>9. Sum(f) = F[1..n] /\ Sum(g) = G[1..n + 1] BY SumsUp
<1> QED BY <1>6, <1>8, <1>9

(* What holds of 0, and of every number if of the one before, holds of n.    *)
LEMMA Counting ==
  ASSUME NEW n \in Nat, NEW S, 0 \in S, \A k \in 1..n : k - 1 \in S => k \in S
  PROVE  n \in S
<1> DEFINE Bad == {k \in 0..n : k \notin S}
<1>1. SUFFICES ASSUME Bad # {} PROVE FALSE OBVIOUS
<1>2. Bad \in SUBSET Nat OBVIOUS
<1>3. PICK k \in Bad : \A m \in Bad : k <= m
  <2> HIDE DEF Bad
  <2> QED BY <1>1, <1>2, LeastExists
<1>4. k \in 1..n /\ k - 1 \in 0..n /\ ~(k <= k - 1) BY <1>3
<1>5. k - 1 \notin Bad
  <2> HIDE DEF Bad
  <2> QED BY <1>3, <1>4
<1> QED BY <1>3, <1>4, <1>5

(* A sum of which one term is not zero.                                      *)
LEMMA SumOfOnly ==
  ASSUME NEW f, NEW n, Row(f, n), NEW i \in 1..n, \A k \in 1..n : k # i => f[k] = 0
  PROVE  Sum(f) = f[i]
<1> PICK P : P = SumTo(f) OBVIOUS
<1>1. n \in Nat /\ f[i] \in Int BY DEF Row
<1>2. /\ Sum(f) = P[1..n] /\ P[{}] = 0 /\ \A k \in 0..n : P[1..k] \in Int
      /\ \A k \in 1..n : P[1..k] = P[1..k - 1] + f[k]
  BY SumsUp
<1> DEFINE S == {k \in 0..n : P[1..k] = IF k < i THEN 0 ELSE f[i]}
<1>3. 0 \in S
  <2>1. 1..0 = {} OBVIOUS
  <2> QED BY <1>1, <1>2, <2>1
<1>4. ASSUME NEW k \in 1..n, k - 1 \in S PROVE k \in S
  <2>1. P[1..k - 1] = IF k - 1 < i THEN 0 ELSE f[i] BY <1>4
  <2>2. P[1..k] = P[1..k - 1] + f[k] BY <1>2
  <2> PICK x, y, z : x = P[1..k - 1] /\ y = P[1..k] /\ z = f[i] OBVIOUS
  <2>3. k = i => y = z BY <1>1, <2>1, <2>2
  <2>4. k < i => y = 0 BY <1>1, <2>1, <2>2
  <2>5. k > i => y = z BY <1>1, <2>1, <2>2
  <2> QED BY <1>1, <2>3, <2>4, <2>5
<1>5. n \in S
  <2> HIDE DEF S
  <2> QED BY <1>1, <1>3, <1>4, Counting
<1> QED BY <1>1, <1>2, <1>5

(* Zeros add up to zero.                                                     *)
LEMMA SumOfZeros ==
  ASSUME NEW f, NEW n, Row(f, n), \A k \in 1..n : f[k] = 0
  PROVE  Sum(f) = 0
<1>1. n \in Nat BY DEF Row
<1>2. CASE n = 0 BY <1>2, SumIsInt
<1>3. CASE n # 0
  <2>1. 1 \in 1..n BY <1>1, <1>3
  <2>2. Sum(f) = f[1] BY <2>1, SumOfOnly
  <2> QED BY <2>1, <2>2
<1> QED BY <1>2, <1>3

(* Sums are in the order their terms are in.                                 *)
LEMMA SumAtMost ==
  ASSUME NEW f, NEW g, NEW n, Row(f, n), Row(g, n), \A k \in 1..n : f[k] <= g[k]
  PROVE  Sum(f) <= Sum(g)
<1> PICK F, G : F = SumTo(f) /\ G = SumTo(g) OBVIOUS
<1>1. n \in Nat /\ \A k \in 1..n : f[k] \in Int /\ g[k] \in Int BY DEF Row
<1>2. /\ Sum(f) = F[1..n] /\ F[{}] = 0 /\ \A k \in 0..n : F[1..k] \in Int
      /\ \A k \in 1..n : F[1..k] = F[1..k - 1] + f[k]
  BY SumsUp
<1>3. /\ Sum(g) = G[1..n] /\ G[{}] = 0 /\ \A k \in 0..n : G[1..k] \in Int
      /\ \A k \in 1..n : G[1..k] = G[1..k - 1] + g[k]
  BY SumsUp
<1> DEFINE S == {k \in 0..n : F[1..k] <= G[1..k]}
<1>4. 0 \in S
  <2>1. 1..0 = {} OBVIOUS
  <2> QED BY <1>1, <1>2, <1>3, <2>1
<1>5. ASSUME NEW k \in 1..n, k - 1 \in S PROVE k \in S
  <2>1. k - 1 \in 0..n /\ k \in 0..n BY <1>1
  <2> PICK a, b, x, y : a = F[1..k - 1] /\ b = G[1..k - 1] /\ x = F[1..k] /\ y = G[1..k] OBVIOUS
  <2>2. a <= b /\ a \in Int /\ b \in Int BY <1>2, <1>3, <1>5, <2>1
  <2>3. x = a + f[k] /\ y = b + g[k] BY <1>2, <1>3
  <2>4. f[k] \in Int /\ g[k] \in Int /\ f[k] <= g[k] BY <1>1
  <2>5. x <= y BY <2>2, <2>3, <2>4
  <2> QED BY <2>1, <2>5
<1>6. n \in S
  <2> HIDE DEF S
  <2> QED BY <1>1, <1>4, <1>5, Counting
<1> QED BY <1>2, <1>3, <1>6

(* A factor common to the terms.                                             *)
LEMMA SumScaled ==
  ASSUME NEW f, NEW g, NEW n, NEW c \in Int, Row(f, n), Row(g, n), \A k \in 1..n : g[k] = c * f[k]
  PROVE  Sum(g) = c * Sum(f)
<1> PICK F, G : F = SumTo(f) /\ G = SumTo(g) OBVIOUS
<1>1. n \in Nat /\ \A k \in 1..n : f[k] \in Int BY DEF Row
<1>2. /\ Sum(f) = F[1..n] /\ F[{}] = 0 /\ \A k \in 0..n : F[1..k] \in Int
      /\ \A k \in 1..n : F[1..k] = F[1..k - 1] + f[k]
  BY SumsUp
<1>3. /\ Sum(g) = G[1..n] /\ G[{}] = 0 /\ \A k \in 1..n : G[1..k] = G[1..k - 1] + g[k]
  BY SumsUp
<1> DEFINE S == {k \in 0..n : G[1..k] = c * F[1..k]}
<1>4. 0 \in S
  <2>1. 1..0 = {} OBVIOUS
  <2> QED BY <1>1, <1>2, <1>3, <2>1
<1>5. ASSUME NEW k \in 1..n, k - 1 \in S PROVE k \in S
  <2>1. k - 1 \in 0..n /\ k \in 0..n BY <1>1
  <2> PICK a, y, z : a = F[1..k - 1] /\ y = G[1..k] /\ z = f[k] OBVIOUS
  <2>2. a \in Int /\ z \in Int BY <1>1, <1>2, <2>1
  <2>3. F[1..k] = a + z /\ y = c * a + c * z BY <1>2, <1>3, <1>5
  <2>4. c * (a + z) = c * a + c * z BY <2>2
  <2> QED BY <2>1, <2>3, <2>4
<1>6. n \in S
  <2> HIDE DEF S
  <2> QED BY <1>1, <1>4, <1>5, Counting
<1> QED BY <1>2, <1>3, <1>6

(* A row scaled, and one that is the sum of two.                             *)
LEMMA ScaledRow ==
  ASSUME NEW f, NEW n, Row(f, n), NEW c \in Int
  PROVE  \E g : Row(g, n) /\ (\A k \in 1..n : g[k] = c * f[k]) /\ Sum(g) = c * Sum(f)
<1>1. n \in Nat /\ \A k \in 1..n : f[k] \in Int BY DEF Row
<1> DEFINE g == [k \in 1..n |-> c * f[k]]
<1>2. \A k \in 1..n : g[k] = c * f[k] /\ c * f[k] \in Int BY <1>1
<1>3. DOMAIN g = 1..n OBVIOUS
<1> HIDE DEF g
<1>4. Row(g, n) BY <1>1, <1>2, <1>3 DEF Row
<1>5. \A k \in 1..n : g[k] = c * f[k] BY <1>2
<1>6. Sum(g) = c * Sum(f) BY <1>4, <1>5, SumScaled
<1> QED BY <1>4, <1>5, <1>6

LEMMA AddedRow ==
  ASSUME NEW h, NEW f, NEW g, NEW n, Row(h, n), Row(f, n), Row(g, n), \A k \in 1..n : h[k] = f[k] + g[k]
  PROVE  Sum(h) = Sum(f) + Sum(g) /\ Sum(f) \in Int /\ Sum(g) \in Int
<1>1. n \in Nat /\ \A k \in 1..n : h[k] \in Int BY DEF Row
<1> PICK z : z = [k \in 1..n |-> 0] OBVIOUS
<1>2. Row(z, n) /\ \A k \in 1..n : z[k] = 0 BY <1>1 DEF Row
<1>3. Row(z, n) /\ \A k \in 1..n : h[k] + z[k] = f[k] + g[k] BY <1>1, <1>2
<1>4. Sum(h) + Sum(z) = Sum(f) + Sum(g) BY ONLY <1>3, Row(h, n), Row(f, n), Row(g, n), SumsBalance
<1>5. Sum(z) = 0 BY <1>2, SumOfZeros
<1>6. Sum(h) \in Int /\ Sum(f) \in Int /\ Sum(g) \in Int BY SumIsInt
<1> QED BY <1>4, <1>5, <1>6

(* Select keeps some of a list's elements, as the library defines the fold.  *)
SelectTo(s, at) ==
  CHOOSE g : g = [t \in SUBSET DOMAIN [n \in DOMAIN s |-> n] |->
    IF t = {} THEN <<>>
    ELSE IF [n \in DOMAIN s |-> n][Max(t)] \in at
         THEN Append(g[t \ {Max(t)}], s[[n \in DOMAIN s |-> n][Max(t)]]) ELSE g[t \ {Max(t)}]]

(* Select is the fold the library defines it as.                             *)
LEMMA SelectIsFold ==
  ASSUME NEW s, NEW at
  PROVE  Select(s, at) = SelectTo(s, at)[DOMAIN [n \in DOMAIN s |-> n]]
BY DEF Select, FoldLeft, MapThenFoldSet, SelectTo

(* Select answers a list of the elements it kept.                            *)
LEMMA SelectKeeps ==
  ASSUME NEW s, NEW at, NEW n \in Nat, DOMAIN s = 1..n
  PROVE  Select(s, at) \in Seq({s[k] : k \in at \cap (1..n)})
<1> DEFINE V == Seq({s[k] : k \in at \cap (1..n)})
           st == [p \in V \X (1..n) |-> IF p[2] \in at THEN Append(p[1], s[p[2]]) ELSE p[1]]
<1>1. ASSUME NEW v \in V, NEW k \in 1..n
      PROVE  (IF k \in at THEN Append(v, s[k]) ELSE v) \in V
  <2>1. k \in at => s[k] \in {s[j] : j \in at \cap (1..n)} OBVIOUS
  <2> QED BY <2>1
<1>2. <<>> \in V OBVIOUS
<1>3. PICK it : Folds(it, n, V, <<>>, st)
  <2>1. ASSUME NEW p \in V \X (1..n) PROVE st[p] \in V
    <3>1. p[1] \in V /\ p[2] \in 1..n OBVIOUS
    <3> HIDE DEF V
    <3> QED BY <1>1, <3>1
  <2>2. st \in [V \X (1..n) -> V]
    <3> HIDE DEF V
    <3> QED BY <2>1
  <2> HIDE DEF st, V
  <2>3. StepsIn(st, n, V, <<>>) BY <1>2, <2>2 DEF StepsIn
  <2> QED BY <2>3, FoldExists
<1> HIDE DEF V
<1>4. ASSUME NEW t \in SUBSET (1..n), t # {}
      PROVE  /\ Max(t) \in 1..n /\ t \ {Max(t)} \in SUBSET (1..n)
             /\ [k \in DOMAIN s |-> k][Max(t)] = Max(t)
  <2>1. t \in SUBSET Int /\ n \in Int /\ \A x \in t : x <= n OBVIOUS
  <2>2. Max(t) \in t BY <1>4, <2>1, MaxIs
  <2> QED BY <2>2
<1>5. it = [t \in SUBSET DOMAIN [k \in DOMAIN s |-> k] |->
              IF t = {} THEN <<>>
              ELSE IF [k \in DOMAIN s |-> k][Max(t)] \in at
                   THEN Append(it[t \ {Max(t)}], s[[k \in DOMAIN s |-> k][Max(t)]]) ELSE it[t \ {Max(t)}]]
  <2>1. ASSUME NEW t \in SUBSET (1..n), t # {}
        PROVE  it[t] = IF Max(t) \in at THEN Append(it[t \ {Max(t)}], s[Max(t)]) ELSE it[t \ {Max(t)}]
    <3>1. Max(t) \in 1..n /\ t \ {Max(t)} \in SUBSET (1..n) BY <1>4, <2>1
    <3>2. it[t \ {Max(t)}] \in V BY <1>3, <3>1 DEF Folds
    <3>3. it[t] = st[<<it[t \ {Max(t)}], Max(t)>>] BY <1>3, <2>1 DEF Folds
    <3> PICK x : x = it[t \ {Max(t)}] OBVIOUS
    <3> PICK m : m = Max(t) OBVIOUS
    <3>4. <<x, m>> \in V \X (1..n) BY <3>1, <3>2
    <3>5. st[<<x, m>>] = IF m \in at THEN Append(x, s[m]) ELSE x BY <3>4
    <3> QED BY <3>3, <3>5
  <2>2. it[{}] = <<>> /\ it = [t \in SUBSET (1..n) |-> it[t]] BY <1>3 DEF Folds
  <2> HIDE DEF st
  <2> QED BY <1>4, <2>1, <2>2
<1> DEFINE g == SelectTo(s, at)
<1>6. g = [t \in SUBSET DOMAIN [k \in DOMAIN s |-> k] |->
             IF t = {} THEN <<>>
             ELSE IF [k \in DOMAIN s |-> k][Max(t)] \in at
                  THEN Append(g[t \ {Max(t)}], s[[k \in DOMAIN s |-> k][Max(t)]]) ELSE g[t \ {Max(t)}]]
  BY <1>5 DEF SelectTo
<1> HIDE DEF g
<1>7. ASSUME NEW t \in SUBSET (1..n), t # {}
      PROVE  g[t] = IF Max(t) \in at THEN Append(g[t \ {Max(t)}], s[Max(t)]) ELSE g[t \ {Max(t)}]
  BY <1>4, <1>6, <1>7
<1>8. g[{}] = <<>> BY <1>6
<1>9. ASSUME NEW k \in 1..n, g[1..k - 1] \in V PROVE g[1..k] \in V
  <2>1. k \in Nat /\ k > 0 /\ 1..k \in SUBSET (1..n) OBVIOUS
  <2>2. 1..k # {} /\ Max(1..k) = k /\ (1..k) \ {Max(1..k)} = 1..k - 1 BY <2>1, Prefix
  <2>3. g[1..k] = IF k \in at THEN Append(g[1..k - 1], s[k]) ELSE g[1..k - 1] BY <1>7, <2>1, <2>2
  <2> QED BY <1>1, <1>9, <2>3
<1>10. g[1..n] \in V
  <2>1. Keeps(g, n, V) BY <1>2, <1>8, <1>9 DEF Keeps
  <2> QED BY <2>1, FoldStays
<1>11. Select(s, at) = g[1..n] BY SelectIsFold DEF g
<1> QED BY <1>10, <1>11 DEF V

(* Join appends lists.                                                       *)
JoinTo(seqs) ==
  CHOOSE g : g = [t \in SUBSET DOMAIN seqs |-> IF t = {} THEN <<>> ELSE g[t \ {Max(t)}] \o seqs[Max(t)]]

(* Join is the fold the library defines it as.                               *)
LEMMA JoinIsFold ==
  ASSUME NEW seqs
  PROVE  Join(seqs) = JoinTo(seqs)[DOMAIN seqs]
BY DEF Join, FoldLeft, MapThenFoldSet, JoinTo

(* What Join appends is a list of what the lists hold.                       *)
LEMMA JoinIs ==
  ASSUME NEW S, NEW seqs, NEW n \in Nat, DOMAIN seqs = 1..n, \A k \in 1..n : seqs[k] \in Seq(S)
  PROVE  Join(seqs) \in Seq(S)
<1> DEFINE V == Seq(S)
           st == [p \in V \X (1..n) |-> p[1] \o seqs[p[2]]]
<1>1. ASSUME NEW v \in V, NEW k \in 1..n PROVE v \o seqs[k] \in V OBVIOUS
<1>2. <<>> \in V OBVIOUS
<1>3. PICK it : Folds(it, n, V, <<>>, st)
  <2>1. ASSUME NEW p \in V \X (1..n) PROVE st[p] \in V
    <3>1. p[1] \in V /\ p[2] \in 1..n OBVIOUS
    <3> HIDE DEF V
    <3> QED BY <1>1, <3>1
  <2>2. st \in [V \X (1..n) -> V]
    <3> HIDE DEF V
    <3> QED BY <2>1
  <2> HIDE DEF st, V
  <2>3. StepsIn(st, n, V, <<>>) BY <1>2, <2>2 DEF StepsIn
  <2> QED BY <2>3, FoldExists
<1> HIDE DEF V
<1>4. ASSUME NEW t \in SUBSET (1..n), t # {}
      PROVE  Max(t) \in 1..n /\ t \ {Max(t)} \in SUBSET (1..n)
  <2>1. t \in SUBSET Int /\ n \in Int /\ \A x \in t : x <= n OBVIOUS
  <2>2. Max(t) \in t BY <1>4, <2>1, MaxIs
  <2> QED BY <2>2
<1>5. it = [t \in SUBSET DOMAIN seqs |-> IF t = {} THEN <<>> ELSE it[t \ {Max(t)}] \o seqs[Max(t)]]
  <2>1. ASSUME NEW t \in SUBSET (1..n), t # {} PROVE it[t] = it[t \ {Max(t)}] \o seqs[Max(t)]
    <3>1. Max(t) \in 1..n /\ t \ {Max(t)} \in SUBSET (1..n) BY <1>4, <2>1
    <3>2. it[t \ {Max(t)}] \in V BY <1>3, <3>1 DEF Folds
    <3>3. it[t] = st[<<it[t \ {Max(t)}], Max(t)>>] BY <1>3, <2>1 DEF Folds
    <3> PICK x : x = it[t \ {Max(t)}] OBVIOUS
    <3> PICK m : m = Max(t) OBVIOUS
    <3>4. <<x, m>> \in V \X (1..n) BY <3>1, <3>2
    <3>5. st[<<x, m>>] = x \o seqs[m] BY <3>4
    <3> QED BY <3>3, <3>5
  <2>2. it[{}] = <<>> /\ it = [t \in SUBSET (1..n) |-> it[t]] BY <1>3 DEF Folds
  <2> HIDE DEF st
  <2> QED BY <2>1, <2>2
<1> DEFINE g == JoinTo(seqs)
<1>6. g = [t \in SUBSET DOMAIN seqs |-> IF t = {} THEN <<>> ELSE g[t \ {Max(t)}] \o seqs[Max(t)]]
  BY <1>5 DEF JoinTo
<1> HIDE DEF g
<1>7. g[{}] = <<>> BY <1>6
<1>8. ASSUME NEW k \in 1..n, g[1..k - 1] \in V PROVE g[1..k] \in V
  <2>1. k \in Nat /\ k > 0 /\ 1..k \in SUBSET (1..n) OBVIOUS
  <2>2. 1..k # {} /\ Max(1..k) = k /\ (1..k) \ {Max(1..k)} = 1..k - 1 BY <2>1, Prefix
  <2>3. g[1..k] = g[1..k - 1] \o seqs[k] BY <1>6, <2>1, <2>2
  <2> QED BY <1>1, <1>8, <2>3
<1>9. g[1..n] \in V
  <2>1. Keeps(g, n, V) BY <1>2, <1>7, <1>8 DEF Keeps
  <2> QED BY <2>1, FoldStays
<1>10. Join(seqs) = g[1..n] BY JoinIsFold DEF g
<1> QED BY <1>9, <1>10 DEF V

(* A list of integers, and its sum.                                          *)
LEMMA IntsAddUp ==
  ASSUME NEW s \in Seq(Int)
  PROVE  Row(s, Len(s)) /\ Sum(s) \in Int
<1>1. Row(s, Len(s)) BY DEF Row
<1> QED BY <1>1, SumIsInt

(* The discounts kept within the food are integers.                          *)
ClampedTo(amounts, sub) ==
  CHOOSE g : g = [t \in SUBSET DOMAIN amounts |->
    IF t = {} THEN <<>> ELSE Append(g[t \ {Max(t)}], Min({amounts[Max(t)], sub - Sum(g[t \ {Max(t)}])}))]

(* Clamped is the fold the library defines it as.                            *)
LEMMA ClampedIsFold ==
  ASSUME NEW amounts, NEW sub
  PROVE  Clamped(amounts, sub) = ClampedTo(amounts, sub)[DOMAIN amounts]
BY DEF Clamped, FoldLeft, MapThenFoldSet, ClampedTo

(* The lesser and the greater of two.                                        *)
LEMMA OfTwo ==
  ASSUME NEW a \in Int, NEW b \in Int
  PROVE  /\ Min({a, b}) = IF a <= b THEN a ELSE b
         /\ Max({a, b}) = IF a <= b THEN b ELSE a
<1> DEFINE S == {a, b}
<1>1. Min(S) = IF a <= b THEN a ELSE b BY DEF Min
<1>2. Max(S) = IF a <= b THEN b ELSE a BY DEF Max
<1> QED BY <1>1, <1>2

(* The discounts kept within the food are integers.                          *)
LEMMA ClampedIs ==
  ASSUME NEW amounts \in Seq(Int), NEW sub \in Int
  PROVE  Clamped(amounts, sub) \in Seq(Int)
<1> DEFINE n == Len(amounts)
           V == Seq(Int)
           st == [p \in V \X (1..n) |-> Append(p[1], Min({amounts[p[2]], sub - Sum(p[1])}))]
<1>0. n \in Nat /\ DOMAIN amounts = 1..n OBVIOUS
<1>1. ASSUME NEW v \in V, NEW k \in 1..n PROVE Append(v, Min({amounts[k], sub - Sum(v)})) \in V
  <2>1. Sum(v) \in Int /\ amounts[k] \in Int BY IntsAddUp
  <2> PICK a, b : a = amounts[k] /\ b = sub - Sum(v) OBVIOUS
  <2>2. a \in Int /\ b \in Int BY <2>1
  <2>3. Min({a, b}) \in Int BY <2>2, OfTwo
  <2> QED BY <2>3
<1>2. <<>> \in V OBVIOUS
<1> HIDE DEF n
<1>3. PICK it : Folds(it, n, V, <<>>, st)
  <2>1. ASSUME NEW p \in V \X (1..n) PROVE st[p] \in V
    <3>1. p[1] \in V /\ p[2] \in 1..n OBVIOUS
    <3> HIDE DEF V
    <3> QED BY <1>1, <3>1
  <2>2. st \in [V \X (1..n) -> V]
    <3> HIDE DEF V
    <3> QED BY <2>1
  <2> HIDE DEF st, V
  <2>3. StepsIn(st, n, V, <<>>) BY <1>0, <1>2, <2>2 DEF StepsIn
  <2> QED BY <2>3, FoldExists
<1> HIDE DEF V
<1>4. ASSUME NEW t \in SUBSET (1..n), t # {}
      PROVE  Max(t) \in 1..n /\ t \ {Max(t)} \in SUBSET (1..n)
  <2>1. t \in SUBSET Int /\ n \in Int /\ \A x \in t : x <= n BY <1>0
  <2>2. Max(t) \in t BY <1>4, <2>1, MaxIs
  <2> QED BY <2>2
<1> DEFINE then(x, m) == Append(x, Min({amounts[m], sub - Sum(x)}))
<1>5. it = [t \in SUBSET DOMAIN amounts |-> IF t = {} THEN <<>> ELSE then(it[t \ {Max(t)}], Max(t))]
  <2>1. ASSUME NEW t \in SUBSET (1..n), t # {} PROVE it[t] = then(it[t \ {Max(t)}], Max(t))
    <3>1. Max(t) \in 1..n /\ t \ {Max(t)} \in SUBSET (1..n) BY <1>4, <2>1
    <3>2. it[t \ {Max(t)}] \in V BY <1>3, <3>1 DEF Folds
    <3>3. it[t] = st[<<it[t \ {Max(t)}], Max(t)>>] BY <1>3, <2>1 DEF Folds
    <3> PICK x : x = it[t \ {Max(t)}] OBVIOUS
    <3> PICK m : m = Max(t) OBVIOUS
    <3>4. <<x, m>> \in V \X (1..n) BY <3>1, <3>2
    <3>5. st[<<x, m>>] = then(x, m) BY <3>4
    <3> QED BY <3>3, <3>5
  <2>2. it[{}] = <<>> /\ it = [t \in SUBSET (1..n) |-> it[t]] BY <1>3 DEF Folds
  <2> HIDE DEF st, then
  <2> QED BY <1>0, <2>1, <2>2
<1> DEFINE g == ClampedTo(amounts, sub)
<1>6. g = [t \in SUBSET DOMAIN amounts |-> IF t = {} THEN <<>> ELSE then(g[t \ {Max(t)}], Max(t))]
  BY <1>5 DEF ClampedTo
<1>7. ASSUME NEW v \in V, NEW k \in 1..n PROVE then(v, k) \in V BY <1>1
<1> HIDE DEF g, then
<1>8. g[{}] = <<>> BY <1>6
<1>9. ASSUME NEW k \in 1..n, g[1..k - 1] \in V PROVE g[1..k] \in V
  <2>1. k \in Nat /\ k > 0 /\ 1..k \in SUBSET (1..n) BY <1>0
  <2>2. 1..k # {} /\ Max(1..k) = k /\ (1..k) \ {Max(1..k)} = 1..k - 1 BY <2>1, Prefix
  <2>3. g[1..k] = then(g[1..k - 1], k) BY <1>0, <1>6, <2>1, <2>2
  <2> QED BY <1>7, <1>9, <2>3
<1>10. g[1..n] \in V
  <2>1. Keeps(g, n, V) BY <1>0, <1>2, <1>8, <1>9 DEF Keeps
  <2>2. n \in 0..n BY <1>0
  <2> QED BY <2>1, <2>2, FoldStays
<1>11. Clamped(amounts, sub) = g[1..n] BY <1>0, ClampedIsFold DEF g
<1> QED BY <1>10, <1>11 DEF V


-----------------------------------------------------------------------------
(* A configured item.                                                        *)

(* A percentage of an integer is one.                                        *)
LEMMA PctIs ==
  ASSUME NEW a \in Int, NEW bps \in Int
  PROVE  Pct(a, bps) \in Int
<1>1. a * bps + 5000 \in Int /\ (-a) * bps + 5000 \in Int OBVIOUS
<1>2. (a * bps + 5000) \div 10000 \in Int /\ ((-a) * bps + 5000) \div 10000 \in Int BY <1>1, DivIs
<1> QED BY <1>2 DEF Pct

(* The elements of a list.                                                   *)
LEMMA ListIs ==
  ASSUME NEW s, IsList(s)
  PROVE  /\ Len(s) \in Nat /\ DOMAIN s = 1..Len(s)
         /\ s \in Seq({s[n] : n \in DOMAIN s})
BY DEF IsList, Range

(* Prices of options, and the options of a line: one left off costs nothing. *)
PricesIn(groups, P) ==
  \A g \in DOMAIN groups :
    LET opts == groups[g].opts
    IN  /\ IsFiniteSet(DOMAIN opts)
        /\ \A o \in DOMAIN opts : opts[o].price \in P /\ \A z \in DOMAIN opts[o].prices : opts[o].prices[z] \in P

LineOpts(P) == [price : P, removed : {FALSE}] \cup [price : {0}, removed : {TRUE}]

(* An option of a line has a price, or is left off and has none.             *)
LEMMA LineOptIs ==
  ASSUME NEW P, NEW o \in LineOpts(P)
  PROVE  (o.price \in P /\ o.removed = FALSE) \/ (o.price = 0 /\ o.removed = TRUE)
<1>1. CASE o \in [price : P, removed : {FALSE}] BY <1>1
<1>2. CASE o \in [price : {0}, removed : {TRUE}] BY <1>2
<1> QED BY <1>1, <1>2 DEF LineOpts

(* As many copies of a thing are a list of it.                               *)
LEMMA Copies ==
  ASSUME NEW S, NEW x \in S, NEW m \in Nat
  PROVE  [n \in 1..m |-> x] \in Seq(S)
OBVIOUS

(* The options of an item in one group, picked and left off.                 *)
LEMMA OptionsIn ==
  ASSUME NEW P, NEW ctx, PricesIn(ctx.groups, P), NEW sel, IsList(sel.picks),
         NEW g \in DOMAIN ctx.groups, NEW size
  PROVE  OptionsOf(ctx, sel, g, size) \in Seq(LineOpts(P))
<1> DEFINE opts == ctx.groups[g].opts
           picks == PicksOf(sel, g)
           known == KnownPicks(ctx, sel, g)
           left == {o \in DOMAIN opts : opts[o].isDefault /\ \A n \in DOMAIN known : known[n].option # o}
           added == [n \in DOMAIN known |-> [price |-> OptionPrice(opts[known[n].option], size), removed |-> FALSE]]
           off == [n \in 1..Cardinality(left) |-> [price |-> 0, removed |-> TRUE]]
<1>1. IsFiniteSet(DOMAIN opts) /\ \A o \in DOMAIN opts : OptionPrice(opts[o], size) \in P
  BY DEF PricesIn, OptionPrice
<1>2. picks \in Seq({sel.picks[k] : k \in {n \in DOMAIN sel.picks : sel.picks[n].group = g} \cap (1..Len(sel.picks))})
  BY ListIs, SelectKeeps DEF PicksOf
<1>3. Len(picks) \in Nat /\ DOMAIN picks = 1..Len(picks) BY <1>2
<1> HIDE DEF picks
<1> DEFINE at == {n \in DOMAIN picks : picks[n].option \in DOMAIN opts}
<1>4. known \in Seq({picks[k] : k \in at \cap (1..Len(picks))})
  <2>1. known = Select(picks, at) BY DEF KnownPicks, picks
  <2> HIDE DEF at, known
  <2> QED BY <1>3, <2>1, SelectKeeps
<1> HIDE DEF known
<1>5. Len(known) \in Nat /\ DOMAIN known = 1..Len(known) /\ \A n \in DOMAIN known : known[n].option \in DOMAIN opts
  BY <1>4
<1>6. added \in Seq(LineOpts(P))
  <2>1. ASSUME NEW n \in 1..Len(known)
        PROVE  [price |-> OptionPrice(opts[known[n].option], size), removed |-> FALSE] \in LineOpts(P)
    BY <1>1, <1>5 DEF LineOpts
  <2> HIDE DEF opts
  <2> QED BY <1>5, <2>1
<1>7. off \in Seq(LineOpts(P))
  <2>1. Cardinality(left) \in Nat
    <3>1. left \in SUBSET DOMAIN opts OBVIOUS
    <3> HIDE DEF left, opts
    <3> QED BY <1>1, <3>1, FS_Subset, FS_CardinalityType
  <2> PICK o, m : o = [price |-> 0, removed |-> TRUE] /\ m = Cardinality(left) OBVIOUS
  <2>2. o \in LineOpts(P) BY DEF LineOpts
  <2>3. [n \in 1..m |-> o] \in Seq(LineOpts(P))
    <3> PICK S : S = LineOpts(P) OBVIOUS
    <3>1. o \in S /\ m \in Nat BY <2>1, <2>2
    <3>2. [n \in 1..m |-> o] \in Seq(S) BY <3>1, Copies
    <3> QED BY <3>2
  <2> HIDE DEF left
  <2> QED BY <2>3
<1>8. <<>> \in Seq(LineOpts(P)) OBVIOUS
<1>9. OptionsOf(ctx, sel, g, size) = added \o IF ctx.groups[g].max = 1 THEN <<>> ELSE off BY DEF OptionsOf, known
<1> HIDE DEF added, off
<1> QED BY <1>6, <1>7, <1>8, <1>9

(* The options of an item in all its groups.                                 *)
LEMMA AllOptionsIn ==
  ASSUME NEW P, NEW ctx, PricesIn(ctx.groups, P), NEW sel, IsList(sel.picks), NEW gs, IsList(gs), NEW size
  PROVE  LET groups == KnownGroups(ctx, gs)
         IN  Join([n \in DOMAIN groups |-> OptionsOf(ctx, sel, groups[n], size)]) \in Seq(LineOpts(P))
<1> DEFINE groups == KnownGroups(ctx, gs)
           at == {n \in DOMAIN gs : gs[n] \in DOMAIN ctx.groups}
           all == [n \in DOMAIN groups |-> OptionsOf(ctx, sel, groups[n], size)]
<1>1. groups \in Seq({gs[k] : k \in at \cap (1..Len(gs))}) BY ListIs, SelectKeeps DEF KnownGroups
<1>2. Len(groups) \in Nat /\ DOMAIN groups = 1..Len(groups) /\ \A n \in DOMAIN groups : groups[n] \in DOMAIN ctx.groups
  <2> HIDE DEF groups
  <2> QED BY <1>1
<1> HIDE DEF groups
<1>3. ASSUME NEW n \in 1..Len(groups) PROVE all[n] \in Seq(LineOpts(P)) BY <1>2, OptionsIn
<1>4. DOMAIN all = 1..Len(groups) BY <1>2
<1> HIDE DEF all
<1>5. Join(all) \in Seq(LineOpts(P)) BY <1>2, <1>3, <1>4, JoinIs
<1> QED BY <1>5 DEF all, groups

(* What the options of a priced item cost in the order.                      *)
OptionsCost(r) == Total(r.opts, LAMBDA o : IF o.included \/ o.removed THEN 0 ELSE o.price)

(* The engine's price and the order's: the same if no price is negative.     *)
Resolved(ctx, r) ==
  /\ r.base \in Int /\ r.extras \in Int /\ OptionsCost(r) \in Int
  /\ r.unit = r.base + r.extras
  /\ PricesIn(ctx.groups, Nat) => OptionsCost(r) = r.extras

(* An item that cannot be priced costs nothing in the order either.          *)
LEMMA UnpricedIs ==
  ASSUME NEW ctx, NEW r, r.base = 0, r.extras = 0, r.unit = 0, r.opts = <<>>
  PROVE  Resolved(ctx, r)
<1> DEFINE f == [n \in DOMAIN r.opts |-> IF r.opts[n].included \/ r.opts[n].removed THEN 0 ELSE r.opts[n].price]
<1>1. Row(f, 0) BY DEF Row
<1>2. OptionsCost(r) = Sum(f) BY DEF OptionsCost, Total
<1> HIDE DEF f
<1>3. OptionsCost(r) = 0 BY <1>1, <1>2, SumIsInt
<1> QED BY <1>3 DEF Resolved

(* A configured item costs in the order what the engine says.                *)
LEMMA ConfiguredIs ==
  ASSUME NEW ctx, NEW sel, NEW groups, NEW c, NEW z, z.price \in Int, NEW opts, NEW in,
         opts \in Seq(LineOpts(Int)), PricesIn(ctx.groups, Nat) => opts \in Seq(LineOpts(Nat))
  PROVE  Resolved(ctx, Configured(ctx, sel, groups, c, z, opts, in))
<1> DEFINE r == Configured(ctx, sel, groups, c, z, opts, in)
           n == Len(opts)
           e == [k \in DOMAIN opts |-> IF k \notin in /\ opts[k].price > 0 THEN opts[k].price ELSE 0]
           f == [k \in DOMAIN opts |-> IF k \in in \/ opts[k].removed THEN 0 ELSE opts[k].price]
<1>1. n \in Nat /\ DOMAIN opts = 1..n /\ \A k \in 1..n : opts[k] \in LineOpts(Int) OBVIOUS
<1>2. \A k \in 1..n : opts[k].price \in Int
  <2>1. ASSUME NEW k \in 1..n PROVE opts[k].price \in Int
    <3> PICK o : o = opts[k] OBVIOUS
    <3>1. o \in LineOpts(Int) BY <1>1
    <3>2. o.price \in Int \/ o.price = 0 BY <3>1, LineOptIs
    <3> QED BY <3>2
  <2> QED BY <2>1
<1>3. Row(e, n) /\ Row(f, n) BY <1>1, <1>2 DEF Row
<1>4. r.base = z.price /\ r.extras = Sum(e) /\ r.unit = z.price + Sum(e) BY DEF Configured
<1>5. r.opts = [k \in DOMAIN opts |-> [price |-> opts[k].price, removed |-> opts[k].removed, included |-> k \in in]]
  BY DEF Configured
<1>6. OptionsCost(r) = Sum(f)
  <2> DEFINE h == [k \in DOMAIN r.opts |-> IF r.opts[k].included \/ r.opts[k].removed THEN 0 ELSE r.opts[k].price]
  <2> HIDE DEF r
  <2>1. ASSUME NEW k \in DOMAIN opts
        PROVE  r.opts[k].price = opts[k].price /\ r.opts[k].included = (k \in in) /\ r.opts[k].removed = opts[k].removed
    <3> PICK x, y : x = opts[k].price /\ y = opts[k].removed OBVIOUS
    <3>1. r.opts[k] = [price |-> x, removed |-> y, included |-> k \in in] BY <1>5, <2>1, Zenon
    <3>2. r.opts[k].price = x /\ r.opts[k].removed = y BY <3>1
    <3>3. r.opts[k].included = (k \in in) BY <3>1
    <3> QED BY <3>2, <3>3
  <2>2. DOMAIN r.opts = DOMAIN opts BY <1>5
  <2>3. h = f BY <2>1, <2>2, Zenon
  <2>4. OptionsCost(r) = Sum(h) BY DEF OptionsCost, Total
  <2> HIDE DEF f, h
  <2> QED BY <2>3, <2>4
<1>7. ASSUME PricesIn(ctx.groups, Nat) PROVE Sum(f) = Sum(e)
  <2>1. \A k \in 1..n : opts[k] \in LineOpts(Nat) BY <1>1, <1>7
  <2>2. ASSUME NEW k \in 1..n PROVE f[k] = e[k]
    <3>1. (opts[k].price \in Nat /\ opts[k].removed = FALSE) \/ (opts[k].price = 0 /\ opts[k].removed = TRUE)
      <4> PICK o : o = opts[k] OBVIOUS
      <4>1. o \in LineOpts(Nat) BY <2>1
      <4>2. (o.price \in Nat /\ o.removed = FALSE) \/ (o.price = 0 /\ o.removed = TRUE) BY <4>1, LineOptIs
      <4> QED BY <4>2
    <3> QED BY <1>1, <3>1
  <2>3. f = e BY <1>1, <2>2
  <2> QED BY <2>3
<1>8. Sum(e) \in Int /\ Sum(f) \in Int
  <2> HIDE DEF e, f
  <2> QED BY <1>3, SumIsInt
<1> HIDE DEF r, e, f
<1> QED BY <1>4, <1>6, <1>7, <1>8 DEF Resolved, r

(* What Resolve answers for an item of the menu.                             *)
LEMMA ResolvedIs ==
  ASSUME NEW ctx, ItemsOK(ctx.items), GroupsOK(ctx.groups), NEW sel, IsList(sel.picks), NEW free
  PROVE  Resolved(ctx, Resolve(ctx, sel, free))
<1>1. PricesIn(ctx.groups, Int) BY DEF GroupsOK, OptionOK, PricesIn
<1>2. ASSUME NEW issue PROVE Resolved(ctx, Unpriced(issue))
  BY UnpricedIs DEF Unpriced
<1>3. SUFFICES ASSUME sel.item \in DOMAIN ctx.items,
                      DOMAIN ctx.items[sel.item].choices # {} => sel.choice \in DOMAIN ctx.items[sel.item].choices
               PROVE  Resolved(ctx, WithChoice(ctx, sel, Chosen(ctx, sel), free))
  BY <1>2 DEF Resolve
<1> DEFINE it == ctx.items[sel.item]
           c == Chosen(ctx, sel)
<1>4. PricedOK(it) /\ IsList(it.groups) /\ \A x \in DOMAIN it.choices : PricedOK(it.choices[x])
  BY <1>3 DEF ItemsOK
<1>5. c.price \in Int /\ IsList(c.sizes) /\ \A n \in DOMAIN c.sizes : c.sizes[n].price \in Int
  <2>1. CASE DOMAIN it.choices = {} BY <1>4, <2>1 DEF Chosen, PricedOK
  <2>2. CASE DOMAIN it.choices # {} BY <1>3, <1>4, <2>2 DEF Chosen, PricedOK
  <2> QED BY <2>1, <2>2
<1> HIDE DEF c
<1>6. ASSUME NEW x, NEW y PROVE Resolved(ctx, [Unpriced("unknown_size") EXCEPT !.bank = x, !.rate = y])
  <2> DEFINE r == [Unpriced("unknown_size") EXCEPT !.bank = x, !.rate = y]
  <2>1. r.base = 0 /\ r.extras = 0 /\ r.unit = 0 /\ r.opts = <<>> BY DEF Unpriced
  <2> HIDE DEF r
  <2>2. Resolved(ctx, r) BY <2>1, UnpricedIs
  <2> QED BY <2>2 DEF r
<1> DEFINE none == sel.size # Nil /\ \A n \in DOMAIN c.sizes : c.sizes[n].size # sel.size
           z == IF c.sizes = <<>> THEN [size |-> Nil, price |-> c.price] ELSE c.sizes[SizeAt(c.sizes, sel.size)]
           groups == KnownGroups(ctx, it.groups)
<1>7. ASSUME ~none PROVE z.price \in Int
  <2>1. CASE c.sizes = <<>> BY <1>5, <2>1
  <2>2. CASE c.sizes # <<>>
    <3>1. DOMAIN c.sizes = 1..Len(c.sizes) /\ Len(c.sizes) \in Nat /\ Len(c.sizes) # 0
      <4>1. c.sizes \in Seq({c.sizes[n] : n \in DOMAIN c.sizes}) BY <1>5, ListIs
      <4> PICK S, s : S = {c.sizes[n] : n \in DOMAIN c.sizes} /\ s = c.sizes OBVIOUS
      <4>2. s \in Seq(S) /\ s # <<>> BY <2>2, <4>1
      <4>3. DOMAIN s = 1..Len(s) /\ Len(s) \in Nat /\ Len(s) # 0 BY <4>2, EmptySeq
      <4> QED BY <4>3
    <3>2. \E n \in DOMAIN c.sizes : (sel.size = Nil /\ n = 1) \/ c.sizes[n].size = sel.size BY <1>7, <3>1
    <3>3. SizeAt(c.sizes, sel.size) \in DOMAIN c.sizes BY <3>2 DEF SizeAt
    <3> QED BY <1>5, <2>2, <3>3
  <2> QED BY <2>1, <2>2
<1>8. ASSUME ~none PROVE Resolved(ctx, WithSize(ctx, sel, groups, c, z, free))
  <2> DEFINE opts == Join([n \in DOMAIN groups |-> OptionsOf(ctx, sel, groups[n], z.size)])
  <2>1. opts \in Seq(LineOpts(Int)) BY <1>1, <1>4, AllOptionsIn
  <2>2. PricesIn(ctx.groups, Nat) => opts \in Seq(LineOpts(Nat)) BY <1>4, AllOptionsIn
  <2>3. WithSize(ctx, sel, groups, c, z, free) = Configured(ctx, sel, groups, c, z, opts, Included(opts, free))
    BY DEF WithSize, WithOptions
  <2>4. z.price \in Int BY <1>7, <1>8
  <2> HIDE DEF opts, z, groups
  <2> QED BY <2>1, <2>2, <2>3, <2>4, ConfiguredIs
<1>9. WithChoice(ctx, sel, c, free) =
        IF none THEN [Unpriced("unknown_size") EXCEPT !.bank = c.bank, !.rate = c.rate]
        ELSE WithSize(ctx, sel, groups, c, z, free)
  BY DEF WithChoice
<1> HIDE DEF none, z, groups
<1>10. Resolved(ctx, WithChoice(ctx, sel, c, free))
  <2>1. CASE none
    <3>1. Resolved(ctx, [Unpriced("unknown_size") EXCEPT !.bank = c.bank, !.rate = c.rate]) BY <1>6
    <3> QED BY <1>9, <2>1, <3>1, Zenon
  <2>2. CASE ~none BY <1>8, <1>9, <2>2
  <2> QED BY <2>1, <2>2
<1> QED BY <1>10 DEF c


-----------------------------------------------------------------------------
(* The lines of a cart.                                                      *)

(* One amount adds up to itself.                                             *)
LEMMA SumOfOne ==
  ASSUME NEW x \in Int
  PROVE  Sum(<<x>>) = x
<1> PICK f, g : f = <<>> /\ g = <<x>> OBVIOUS
<1>1. Row(f, 0) /\ Row(g, 1) /\ g[1] = x BY DEF Row
<1>2. Row(g, 0 + 1) BY <1>1
<1>3. \A k \in 1..0 : g[k] = f[k] OBVIOUS
<1>4. Sum(g) = Sum(f) + g[0 + 1] BY <1>1, <1>2, <1>3, SumGrows
<1>5. Sum(f) = 0 BY <1>1, SumIsInt
<1> QED BY <1>1, <1>4, <1>5

(* The quantity is clamped to 1..50 (MaxQty).                                *)
LEMMA QtyIs ==
  ASSUME NEW line, line.qty \in Int
  PROVE  Qty(line) \in 1..50
<1> PICK x, one : x = line.qty /\ one = 1 OBVIOUS
<1> PICK a : a = Max({x, one}) OBVIOUS
<1>0. Max({x, one}) = IF x <= one THEN one ELSE x
  <2>1. x \in Int /\ one \in Int OBVIOUS
  <2> QED BY <2>1, OfTwo
<1>1. a \in Int /\ a >= 1 BY <1>0
<1>2. Min({a, 50}) = IF a <= 50 THEN a ELSE 50 BY <1>1, OfTwo
<1> QED BY <1>1, <1>2 DEF Qty

(* A tax rate is an integer, never below zero.                               *)
LEMMA RateIs ==
  ASSUME NEW ctx, CtxOK(ctx), NEW b
  PROVE  Rate(ctx, b) \in Nat
BY DEF CtxOK, FactsOK, Rate

(* A line of a quote: a total, a rate if it costs anything, and units with   *)
(* prices.                                                                   *)
Quotable(l) ==
  /\ l.total \in Int
  /\ l.rate \in Nat \/ (l.rate = Nil /\ l.total = 0)
  /\ \E S : l.units \in Seq(S) /\ \A u \in S : u.price \in Int

(* The parts of a line that make it quotable.                                *)
LEMMA QuotableIs ==
  ASSUME NEW l, NEW S, l.total \in Int, l.rate \in Nat,
         l.units \in Seq(S), \A u \in S : u.price \in Int
  PROVE  Quotable(l)
BY DEF Quotable

(* The picks of a bundle.                                                    *)
LEMMA SlotPicksAre ==
  ASSUME NEW ctx, CtxOK(ctx), NEW d, DealOK(d), NEW line, LineOK(line)
  PROVE  \E n \in Nat : /\ DOMAIN SlotPicks(ctx, d, line) = 1..n
                        /\ \A k \in 1..n : Resolved(ctx, SlotPicks(ctx, d, line)[k])
<1> DEFINE n == Min({Len(d.slots), Len(line.picks)})
           ps == SlotPicks(ctx, d, line)
<1>1. Len(d.slots) \in Nat /\ Len(line.picks) \in Nat /\ DOMAIN line.picks = 1..Len(line.picks)
  BY ListIs DEF DealOK, LineOK
<1>2. n \in Nat /\ n <= Len(line.picks)
  <2> PICK a, b : a = Len(d.slots) /\ b = Len(line.picks) OBVIOUS
  <2>1. a \in Nat /\ b \in Nat BY <1>1
  <2>2. Min({a, b}) = IF a <= b THEN a ELSE b BY <2>1, OfTwo
  <2> QED BY <2>1, <2>2
<1>3. ps = [k \in 1..n |-> Resolve(ctx, line.picks[k], d.slots[k].included)] BY DEF SlotPicks
<1> HIDE DEF n, ps
<1>4. ASSUME NEW k \in 1..n PROVE Resolved(ctx, ps[k])
  <2>1. k \in DOMAIN line.picks BY <1>1, <1>2
  <2>2. IsList(line.picks[k].picks) BY <2>1 DEF LineOK
  <2>3. Resolved(ctx, Resolve(ctx, line.picks[k], d.slots[k].included)) BY <2>2, ResolvedIs DEF CtxOK
  <2> QED BY <1>3, <2>3
<1> QED BY <1>2, <1>3, <1>4 DEF ps

(* A deal that was found is one of the channel's.                            *)
LEMMA DealFound ==
  ASSUME NEW ctx, CtxOK(ctx), NEW id, NEW kinds, NEW n \in DOMAIN ctx.deals,
         ctx.deals[n].id = id, ctx.deals[n].kind \in kinds
  PROVE  DealOK(DealNamed(ctx, id, kinds))
<1> DEFINE found == {k \in DOMAIN ctx.deals : ctx.deals[k].id = id /\ ctx.deals[k].kind \in kinds}
<1>1. Len(ctx.deals) \in Nat /\ DOMAIN ctx.deals = 1..Len(ctx.deals) /\ \A k \in DOMAIN ctx.deals : DealOK(ctx.deals[k])
  BY ListIs DEF CtxOK, DealsOK
<1>2. n \in found /\ found \subseteq DOMAIN ctx.deals OBVIOUS
<1>3. DealNamed(ctx, id, kinds) = IF found = {} THEN Nil ELSE ctx.deals[Max(found)] BY DEF DealNamed
<1> HIDE DEF found
<1>4. Max(found) \in found
  <2>1. found \in SUBSET Int /\ found # {} /\ Len(ctx.deals) \in Int /\ \A k \in found : k <= Len(ctx.deals)
    BY <1>1, <1>2
  <2> QED BY <2>1, MaxIs
<1> QED BY <1>1, <1>2, <1>3, <1>4

(* An item's line costs what its order does.                                 *)
LEMMA ItemLineIs ==
  ASSUME NEW ctx, CtxOK(ctx), NEW line, LineOK(line), line.deal = Nil
  PROVE  /\ Quotable(ItemLine(ctx, line))
         /\ Sum(BuiltTotals(ctx, line)) \in Int
         /\ PricesIn(ctx.groups, Nat) => Sum(BuiltTotals(ctx, line)) = ItemLine(ctx, line).total
<1> DEFINE p == Resolve(ctx, line.sel, 0)
           q == Qty(line)
           l == ItemLine(ctx, line)
           u == [price |-> p.unit, item |-> p.bank, category |-> Category(ctx, p.bank), size |-> p.size]
<1>1. Resolved(ctx, p) BY ResolvedIs DEF CtxOK, LineOK
<1>2. q \in Nat BY QtyIs DEF LineOK
<1>3. /\ l.total = p.unit * q /\ l.rate = Rate(ctx, p.rate)
      /\ l.units = IF p.bank # Nil /\ p.issues = {} THEN [n \in 1..q |-> u] ELSE <<>>
  BY DEF ItemLine, LineOfItem
<1>4. BuiltTotals(ctx, line) = <<q * (p.base + OptionsCost(p))>> BY DEF BuiltTotals, LineOf, OptionsCost
<1>5. p.unit \in Int BY <1>1 DEF Resolved
<1>6. l.units \in Seq({u})
  <2> PICK x : x = u OBVIOUS
  <2>1. [n \in 1..q |-> x] \in Seq({x}) /\ <<>> \in Seq({x})
    <3>1. [n \in 1..q |-> x] \in Seq({x}) BY <1>2, Copies
    <3> QED BY <3>1
  <2> HIDE DEF p, q, l
  <2> QED BY <1>3, <2>1
<1>7. u.price \in Int BY <1>5
<1> HIDE DEF p, q, l, u
<1>8. l.total \in Int BY <1>2, <1>3, <1>5
<1>9. Quotable(l)
  <2> PICK S : S = {u} OBVIOUS
  <2>1. l.units \in Seq(S) /\ \A v \in S : v.price \in Int BY <1>6, <1>7
  <2>2. l.rate \in Nat BY <1>3, RateIs
  <2> QED BY <1>8, <2>1, <2>2, QuotableIs
<1>10. q * (p.base + OptionsCost(p)) \in Int BY <1>1, <1>2 DEF Resolved
<1>11. Sum(BuiltTotals(ctx, line)) = q * (p.base + OptionsCost(p)) BY <1>4, <1>10, SumOfOne
<1>12. ASSUME PricesIn(ctx.groups, Nat) PROVE q * (p.base + OptionsCost(p)) = l.total
  <2>1. p.unit = p.base + OptionsCost(p) /\ p.unit \in Int BY <1>1, <1>5, <1>12 DEF Resolved
  <2>2. q * p.unit = p.unit * q BY <1>2, <1>5
  <2> QED BY <1>3, <2>1, <2>2
<1> QED BY <1>9, <1>10, <1>11, <1>12 DEF l

(* So does a bundle's line, to the fee or the discount of the bundle.        *)
LEMMA BundleLineIs ==
  ASSUME NEW ctx, CtxOK(ctx), NEW line, LineOK(line), line.deal # Nil, NEW at, NEW type
  PROVE  /\ Quotable(BundleLine(ctx, line, at, type))
         /\ BundleLine(ctx, line, at, type).issues = {} => Sum(BuiltTotals(ctx, line)) \in Int
<1> DEFINE d == DealNamed(ctx, line.deal, {"bundle"})
           every == {"bundle", "mix", "nth", "code", "free_item"}
           e == DealNamed(ctx, line.deal, every)
           l == BundleLine(ctx, line, at, type)
           ended == [total |-> 0, rate |-> Nil, units |-> <<>>, issues |-> {"deal_ended"}]
<1>1. l = IF d = Nil \/ ~d.active THEN ended
          ELSE LineOfBundle(ctx, d, Qty(line), SlotPicks(ctx, d, line), Live(d, at, type))
  BY DEF BundleLine, BundleOf
<1>2. Quotable(ended) /\ ended.issues # {}
  <2>1. <<>> \in Seq({}) OBVIOUS
  <2>2. ended.total = 0 /\ ended.rate = Nil /\ ended.units = <<>> OBVIOUS
  <2> HIDE DEF ended
  <2>3. Quotable(ended) BY <2>1, <2>2 DEF Quotable
  <2>4. ended.issues # {} BY DEF ended
  <2> QED BY <2>3, <2>4
<1>3. ASSUME ~(d = Nil \/ ~d.active)
      PROVE  Quotable(l) /\ Sum(BuiltTotals(ctx, line)) \in Int
  <2>1. PICK n \in DOMAIN ctx.deals : ctx.deals[n].id = line.deal /\ ctx.deals[n].kind = "bundle"
    BY <1>3 DEF DealNamed
  <2>2. DealOK(d) /\ DealOK(e) BY <2>1, DealFound
  <2> DEFINE ps == SlotPicks(ctx, d, line)
             rated == {k \in DOMAIN ps : ps[k].rate # Nil}
             f == [k \in DOMAIN ps |-> ps[k].extras]
             g == BuiltPicks(ctx, line, e)
  <2>3. PICK m \in Nat : DOMAIN ps = 1..m /\ \A k \in 1..m : Resolved(ctx, ps[k]) BY <2>2, SlotPicksAre
  <2>4. /\ l.total = (d.price + Sum(f)) * Qty(line) /\ l.units = <<>>
        /\ l.rate = IF rated = {} THEN ctx.st.tax ELSE Rate(ctx, ps[Min(rated)].rate)
    BY <1>1, <1>3 DEF LineOfBundle, Total
  <2>5. Row(f, m) BY <2>3 DEF Row, Resolved
  <2> HIDE DEF f, rated, ps
  <2>6. Sum(f) \in Int BY <2>5, SumIsInt
  <2>7. l.total \in Int
    <3>1. d.price \in Int BY <2>2 DEF DealOK
    <3>2. Qty(line) \in Int BY QtyIs DEF LineOK
    <3> HIDE DEF d, l
    <3> QED BY <2>4, <2>6, <3>1, <3>2
  <2>8. l.rate \in Nat BY <2>4, RateIs DEF CtxOK
  <2>9. Quotable(l)
    <3>1. <<>> \in Seq({}) OBVIOUS
    <3> HIDE DEF l
    <3>2. l.units \in Seq({}) BY <2>4, <3>1
    <3>3. \A u \in {} : u.price \in Int OBVIOUS
    <3> QED BY <2>7, <2>8, <3>2, <3>3, QuotableIs
  <2>10. PICK j \in Nat : /\ DOMAIN SlotPicks(ctx, e, line) = 1..j
                          /\ \A k \in 1..j : Resolved(ctx, SlotPicks(ctx, e, line)[k])
    BY <2>2, SlotPicksAre
  <2>11. Row(g, j)
    <3> PICK es, q : es = SlotPicks(ctx, e, line) /\ q = Qty(line) OBVIOUS
    <3>1. q \in Int BY QtyIs DEF LineOK
    <3>2. g = [k \in DOMAIN es |-> q * (es[k].base + OptionsCost(es[k]))] BY DEF BuiltPicks, LineOf, OptionsCost
    <3>3. ASSUME NEW k \in 1..j PROVE es[k].base + OptionsCost(es[k]) \in Int BY <2>10 DEF Resolved
    <3>4. ASSUME NEW k \in 1..j PROVE g[k] \in Int
      <4> PICK a : a = es[k].base + OptionsCost(es[k]) OBVIOUS
      <4>1. a \in Int BY <3>3
      <4>2. g[k] = q * a BY <2>10, <3>2
      <4> QED BY <3>1, <4>1, <4>2
    <3> HIDE DEF g
    <3> QED BY <2>10, <3>2, <3>4 DEF Row
  <2>12. BuiltTotals(ctx, line) = g BY DEF BuiltTotals
  <2> HIDE DEF g, l
  <2> QED BY <2>9, <2>11, <2>12, SumIsInt
<1> HIDE DEF d, e, ended
<1> QED BY <1>1, <1>2, <1>3

(* The lines of a quote.                                                     *)
LinesOK(lines) == \E n \in Nat : DOMAIN lines = 1..n /\ \A k \in 1..n : Quotable(lines[k])

(* The lines of a quote are quotable, and a line that is not a bundle costs  *)
(* exactly what it does in the order.                                        *)
LEMMA QuoteLinesAre ==
  ASSUME NEW ctx, CtxOK(ctx), NEW cart, CartOK(cart), NEW at
  PROVE  /\ LinesOK(QuoteLines(ctx, cart, at))
         /\ DOMAIN QuoteLines(ctx, cart, at) = DOMAIN cart.lines
         /\ \A n \in DOMAIN cart.lines : LET l == QuoteLines(ctx, cart, at)[n]
                                             b == Sum(BuiltTotals(ctx, cart.lines[n]))
                                         IN  l.issues = {} => /\ b \in Int
                                                              /\ cart.lines[n].deal = Nil /\ PricesIn(ctx.groups, Nat) => b = l.total
<1> DEFINE lines == QuoteLines(ctx, cart, at)
<1>1. Len(cart.lines) \in Nat /\ DOMAIN cart.lines = 1..Len(cart.lines) BY ListIs DEF CartOK
<1>2. lines = [n \in DOMAIN cart.lines |-> IF cart.lines[n].deal = Nil THEN ItemLine(ctx, cart.lines[n])
                                           ELSE BundleLine(ctx, cart.lines[n], at, cart.type)]
  BY DEF QuoteLines
<1> HIDE DEF lines
<1>3. ASSUME NEW n \in DOMAIN cart.lines
      PROVE  LET l == lines[n]
                 b == Sum(BuiltTotals(ctx, cart.lines[n]))
             IN  /\ Quotable(l)
                 /\ l.issues = {} => b \in Int /\ (cart.lines[n].deal = Nil /\ PricesIn(ctx.groups, Nat) => b = l.total)
  <2>1. LineOK(cart.lines[n]) BY DEF CartOK
  <2>2. CASE cart.lines[n].deal = Nil
    <3>1. lines[n] = ItemLine(ctx, cart.lines[n]) BY <1>2, <2>2
    <3> QED BY <2>1, <2>2, <3>1, ItemLineIs
  <2>3. CASE cart.lines[n].deal # Nil
    <3>1. lines[n] = BundleLine(ctx, cart.lines[n], at, cart.type) BY <1>2, <2>3
    <3> QED BY <2>1, <2>3, <3>1, BundleLineIs
  <2> QED BY <2>2, <2>3
<1>4. DOMAIN lines = DOMAIN cart.lines BY <1>2
<1>5. LinesOK(lines) BY <1>1, <1>3, <1>4 DEF LinesOK
<1> QED BY <1>3, <1>4, <1>5 DEF lines


-----------------------------------------------------------------------------
(* Discounts.                                                                *)

(* Integers in a row are within bounds.                                      *)
LEMMA RowBounded ==
  ASSUME NEW f, NEW n, Row(f, n)
  PROVE  \E a, b \in Int : \A k \in 1..n : a <= f[k] /\ f[k] <= b
<1>0. n \in Nat /\ \A k \in 1..n : f[k] \in Int BY DEF Row
<1> DEFINE Bounded(k) == \E a, b \in Int : \A j \in 1..k : a <= f[j] /\ f[j] <= b
           Bad == {k \in 0..n : ~Bounded(k)}
<1>1. SUFFICES ASSUME Bad # {} PROVE FALSE
  <2>1. SUFFICES ASSUME Bad = {} PROVE Bounded(n) OBVIOUS
  <2>2. n \in 0..n BY <1>0
  <2> HIDE DEF Bounded
  <2>3. n \notin Bad
    <3> HIDE DEF Bad
    <3> QED BY <2>1
  <2> QED BY <2>2, <2>3
<1>2. PICK k \in Bad : \A m \in Bad : k <= m
  <2>1. Bad \in SUBSET Nat BY <1>0
  <2> HIDE DEF Bad
  <2> QED BY <1>1, <2>1, LeastExists
<1>3. k # 0
  <2>1. Bounded(0) BY 0 \in Int
  <2> HIDE DEF Bounded
  <2> QED BY <1>2, <2>1
<1>4. k \in 1..n /\ k - 1 \in 0..n /\ ~(k <= k - 1) BY <1>0, <1>2, <1>3
<1>5. Bounded(k - 1)
  <2>1. k - 1 \notin Bad
    <3> HIDE DEF Bad
    <3> QED BY <1>2, <1>4
  <2> HIDE DEF Bounded
  <2> QED BY <1>4, <2>1
<1>6. PICK a, b : a \in Int /\ b \in Int /\ \A j \in 1..k - 1 : a <= f[j] /\ f[j] <= b BY <1>5
<1>7. ~Bounded(k)
  <2> HIDE DEF Bounded
  <2> QED BY <1>2
<1> HIDE DEF Bad, Bounded
<1> PICK x : x = f[k] OBVIOUS
<1>8. x \in Int BY <1>0, <1>4
<1>9. PICK lo : lo \in Int /\ lo <= a /\ lo <= x
  <2>1. CASE a <= x
    <3>1. a \in Int /\ a <= a /\ a <= x BY <1>6, <1>8, <2>1
    <3> QED BY <3>1
  <2>2. CASE x <= a
    <3>1. x \in Int /\ x <= a /\ x <= x BY <1>6, <1>8, <2>2
    <3> QED BY <3>1
  <2> QED BY <1>6, <1>8, <2>1, <2>2
<1>10. PICK hi : hi \in Int /\ b <= hi /\ x <= hi
  <2>1. CASE b <= x
    <3>1. x \in Int /\ b <= x /\ x <= x BY <1>6, <1>8, <2>1
    <3> QED BY <3>1
  <2>2. CASE x <= b
    <3>1. b \in Int /\ b <= b /\ x <= b BY <1>6, <1>8, <2>2
    <3> QED BY <3>1
  <2> QED BY <1>6, <1>8, <2>1, <2>2
<1>11. ASSUME NEW j \in 1..k PROVE lo <= f[j] /\ f[j] <= hi
  <2>1. CASE j = k BY <1>8, <1>9, <1>10, <2>1
  <2>2. CASE j # k
    <3>1. j \in 1..k - 1 /\ f[j] \in Int BY <1>0, <1>4, <2>2
    <3>2. a <= f[j] /\ f[j] <= b BY <1>6, <3>1
    <3> QED BY <1>6, <1>9, <1>10, <3>1, <3>2
  <2> QED BY <2>1, <2>2
<1>12. Bounded(k) BY <1>9, <1>10, <1>11 DEF Bounded
<1> QED BY <1>7, <1>12

(* The least and the greatest of integers are integers.                      *)
LEMMA RowEnds ==
  ASSUME NEW f, NEW n, Row(f, n), n # 0
  PROVE  Min({f[k] : k \in DOMAIN f}) \in Int /\ Max({f[k] : k \in DOMAIN f}) \in Int
<1>1. n \in Nat /\ DOMAIN f = 1..n /\ \A k \in 1..n : f[k] \in Int BY DEF Row
<1>2. PICK a, b \in Int : \A k \in 1..n : a <= f[k] /\ f[k] <= b BY RowBounded
<1> PICK S : S = {f[k] : k \in DOMAIN f} OBVIOUS
<1>3. S \in SUBSET Int /\ S # {} /\ \A x \in S : a <= x /\ x <= b
  <2>1. 1 \in DOMAIN f BY <1>1
  <2> QED BY <1>1, <1>2, <2>1
<1>4. Min(S) \in S /\ Max(S) \in S BY <1>3, MinIs, MaxIs
<1> QED BY <1>3, <1>4

(* A list has the elements it has.                                           *)
LEMMA ListOf ==
  ASSUME NEW R, NEW s \in Seq(R)
  PROVE  IsList(s)
<1> PICK T, m : T = {s[k] : k \in DOMAIN s} /\ m = Len(s) OBVIOUS
<1>1. m \in Nat /\ DOMAIN s = 1..m /\ s \in [1..m -> R] BY LenProperties
<1>2. s = [k \in 1..m |-> s[k]] BY <1>1
<1>3. \A k \in 1..m : s[k] \in T BY <1>1
<1>4. [k \in 1..m |-> s[k]] \in Seq(T) BY <1>1, <1>3
<1>5. s \in Seq(T) BY <1>2, <1>4, Zenon
<1> QED BY <1>5 DEF IsList, Range

(* Things with prices, in a list.                                            *)
Units(us) == \E n \in Nat : DOMAIN us = 1..n /\ \A k \in 1..n : us[k].price \in Int

(* The units of all lines have prices.                                       *)
LEMMA UnitsJoined ==
  ASSUME NEW lines, LinesOK(lines)
  PROVE  Units(Join([n \in DOMAIN lines |-> lines[n].units]))
<1> DEFINE us == [n \in DOMAIN lines |-> lines[n].units]
           S == UNION {{us[n][k] : k \in DOMAIN us[n]} : n \in DOMAIN us}
<1>1. PICK m \in Nat : DOMAIN lines = 1..m /\ \A n \in 1..m : Quotable(lines[n]) BY DEF LinesOK
<1>2. DOMAIN us = 1..m BY <1>1
<1>3. ASSUME NEW n \in 1..m
      PROVE  us[n] \in Seq(S) /\ \A k \in DOMAIN us[n] : us[n][k].price \in Int
  <2>1. PICK R : us[n] \in Seq(R) /\ \A u \in R : u.price \in Int
    <3>1. us[n] = lines[n].units BY <1>1
    <3> HIDE DEF us
    <3> QED BY <1>1, <3>1 DEF Quotable
  <2> PICK s : s = us[n] OBVIOUS
  <2>2. s \in Seq(R) BY <2>1
  <2>3. s \in [1..Len(s) -> R] /\ Len(s) \in Nat BY <2>2
  <2>4. s \in Seq({s[k] : k \in DOMAIN s}) 
    <3>1. IsList(s) BY <2>2, ListOf
    <3> QED BY <3>1 DEF IsList, Range
  <2>5. {s[k] : k \in DOMAIN s} \subseteq S BY <1>2
  <2> HIDE DEF S, us
  <2>6. s \in Seq(S) BY <2>4, <2>5, SeqMonotonic
  <2>7. \A k \in DOMAIN s : s[k] \in R BY <2>3
  <2> QED BY <2>1, <2>6, <2>7
<1> HIDE DEF us
<1>4. \A u \in S : u.price \in Int BY <1>2, <1>3
<1> HIDE DEF S
<1>5. Join(us) \in Seq(S) BY <1>2, <1>3, JoinIs
<1> PICK j : j = Join(us) OBVIOUS
<1>6. Len(j) \in Nat /\ DOMAIN j = 1..Len(j) /\ \A k \in 1..Len(j) : j[k] \in S BY <1>5
<1>7. Units(j) BY <1>4, <1>6 DEF Units
<1> QED BY <1>7 DEF us

(* So do the ones a deal is eligible for.                                    *)
LEMMA UnitsSelected ==
  ASSUME NEW us, Units(us), NEW at
  PROVE  Units(Select(us, at))
<1>1. PICK n \in Nat : DOMAIN us = 1..n /\ \A k \in 1..n : us[k].price \in Int BY DEF Units
<1> PICK S, j : S = {us[k] : k \in at \cap (1..n)} /\ j = Select(us, at) OBVIOUS
<1>2. j \in Seq(S) BY <1>1, SelectKeeps
<1>3. \A u \in S : u.price \in Int BY <1>1
<1>4. Len(j) \in Nat /\ DOMAIN j = 1..Len(j) /\ \A k \in 1..Len(j) : j[k] \in S BY <1>2
<1> QED BY <1>3, <1>4 DEF Units

(* What an automatic deal takes off is an integer.                           *)
LEMMA AutoAmountIs ==
  ASSUME NEW ctx, NEW d, DealOK(d), NEW units, Units(units), NEW sub, NEW at, NEW type
  PROVE  AutoAmount(ctx, d, units, sub, at, type) \in Int
<1> DEFINE el == Select(units, {n \in DOMAIN units : Matches(d.el, units[n])})
<1>1. Units(el) BY UnitsSelected
<1>2. PICK n \in Nat : DOMAIN el = 1..n /\ \A k \in 1..n : el[k].price \in Int
  <2> HIDE DEF el
  <2> QED BY <1>1 DEF Units
<1> HIDE DEF el
<1>3. d.each \in Int /\ d.pct \in Int BY DEF DealOK
<1>4. MixAmount(d, el) \in Int
  <2> DEFINE f == [k \in DOMAIN el |-> Max({el[k].price - d.each, 0})]
  <2>1. ASSUME NEW k \in 1..n PROVE Max({el[k].price - d.each, 0}) \in Int
    <3> PICK a, b : a = el[k].price - d.each /\ b = 0 OBVIOUS
    <3>1. a \in Int /\ b \in Int BY <1>2, <1>3
    <3>2. Max({a, b}) \in Int BY <3>1, OfTwo
    <3> QED BY <3>2
  <2>2. Row(f, n) BY <1>2, <2>1 DEF Row
  <2>3. MixAmount(d, el) = IF d.qty > 0 /\ Len(el) >= d.qty THEN Sum(f) ELSE 0 BY DEF MixAmount, Total
  <2> HIDE DEF f
  <2> QED BY <2>2, <2>3, SumIsInt
<1>5. NthAmount(d, el) \in Int
  <2> DEFINE dearer(m) == {k \in DOMAIN el : el[k].price > el[m].price \/ (el[k].price = el[m].price /\ k <= m)}
             f == [m \in DOMAIN el |-> IF d.n >= 1 /\ Cardinality(dearer(m)) % d.n = 0 THEN Pct(el[m].price, d.pct * 100) ELSE 0]
  <2>1. ASSUME NEW k \in 1..n PROVE Pct(el[k].price, d.pct * 100) \in Int BY <1>2, <1>3, PctIs
  <2>2. NthAmount(d, el) = Sum(f) BY DEF NthAmount
  <2> HIDE DEF dearer
  <2>3. Row(f, n) BY <1>2, <2>1 DEF Row
  <2> HIDE DEF f
  <2> QED BY <2>2, <2>3, SumIsInt
<1>6. FreeAmount(d, el, sub) \in Int
  <2> DEFINE f == [k \in DOMAIN el |-> el[k].price]
  <2>1. Row(f, n) BY <1>2 DEF Row
  <2>2. {f[k] : k \in DOMAIN f} = {el[k].price : k \in DOMAIN el} OBVIOUS
  <2> HIDE DEF f
  <2>3. CASE n # 0
    <3>1. Min({f[k] : k \in DOMAIN f}) \in Int BY <2>1, <2>3, RowEnds
    <3>2. Min({el[k].price : k \in DOMAIN el}) \in Int BY <2>2, <3>1
    <3> QED BY <3>2 DEF FreeAmount
  <2>4. CASE n = 0
    <3>1. el \in Seq({units[k] : k \in {m \in DOMAIN units : Matches(d.el, units[m])} \cap DOMAIN units})
      <4>1. PICK m \in Nat : DOMAIN units = 1..m BY DEF Units
      <4> QED BY <4>1, SelectKeeps DEF el
    <3> PICK S : el \in Seq(S) BY <3>1
    <3>2. el = <<>> BY <1>2, <2>4
    <3> QED BY <3>2 DEF FreeAmount
  <2> QED BY <2>3, <2>4
<1>7. AutoAmount(ctx, d, units, sub, at, type) \in {0, MixAmount(d, el), NthAmount(d, el), FreeAmount(d, el, sub)}
  <2> PICK a, b, c : a = MixAmount(d, el) /\ b = NthAmount(d, el) /\ c = FreeAmount(d, el, sub) OBVIOUS
  <2>1. AutoAmount(ctx, d, units, sub, at, type) =
          IF ~Live(d, at, type) \/ d.el = Nil THEN 0
          ELSE CASE d.kind = "mix" -> a [] d.kind = "nth" -> b [] d.kind = "free_item" -> c [] OTHER -> 0
    BY DEF AutoAmount, el
  <2>2. CASE d.kind = "mix" BY <2>1, <2>2
  <2>3. CASE d.kind = "nth" BY <2>1, <2>3
  <2>4. CASE d.kind = "free_item" BY <2>1, <2>4
  <2>5. CASE d.kind \notin {"mix", "nth", "free_item"} BY <2>1, <2>5
  <2> QED BY <2>2, <2>3, <2>4, <2>5
<1> QED BY <1>4, <1>5, <1>6, <1>7

(* The automatic deals that take something off.                              *)
LEMMA AutosAre ==
  ASSUME NEW ctx, DealsOK(ctx.deals), NEW units, Units(units), NEW sub, NEW at, NEW type
  PROVE  Autos(ctx, units, sub, at, type) \in Seq(Int)
<1> DEFINE off == [n \in DOMAIN ctx.deals |-> AutoAmount(ctx, ctx.deals[n], units, sub, at, type)]
           m == Len(ctx.deals)
           S == {off[k] : k \in {n \in DOMAIN off : off[n] > 0} \cap (1..m)}
<1>1. m \in Nat /\ DOMAIN ctx.deals = 1..m BY ListIs DEF DealsOK
<1>2. \A n \in DOMAIN off : off[n] \in Int BY AutoAmountIs DEF DealsOK
<1>3. DOMAIN off = 1..m BY <1>1
<1>4. Autos(ctx, units, sub, at, type) = Select(off, {n \in DOMAIN off : off[n] > 0}) BY DEF Autos
<1> HIDE DEF off, m
<1>5. Select(off, {n \in DOMAIN off : off[n] > 0}) \in Seq(S) BY <1>1, <1>3, SelectKeeps
<1>6. S \subseteq Int BY <1>2, <1>3
<1> HIDE DEF S
<1> QED BY <1>4, <1>5, <1>6, SeqMonotonic

(* A code takes off one amount or none.                                      *)
LEMMA CodeAmountsAre ==
  ASSUME NEW ctx, DealsOK(ctx.deals), NEW cart, NEW sub \in Int, NEW at
  PROVE  CodeAmounts(ctx, cart, sub, at) \in Seq(Int)
<1> DEFINE d == CodeDeal(ctx, cart.code)
           found == {n \in DOMAIN ctx.deals : ctx.deals[n].kind = "code" /\ ctx.deals[n].code = cart.code}
           none == cart.code = Nil \/ CodeIssue(ctx, cart, sub, at) # Nil
           a == IF d.pct > 0 THEN Pct(sub, d.pct * 100) ELSE d.amount
<1>1. CodeAmounts(ctx, cart, sub, at) = IF none THEN <<>> ELSE <<Min({sub, a})>> BY DEF CodeAmounts
<1>2. ASSUME ~none PROVE a \in Int
  <2>1. d # Nil BY <1>2, NilAssumption DEF CodeIssue
  <2>2. d = IF found = {} THEN Nil ELSE ctx.deals[Max(found)] BY DEF CodeDeal
  <2>3. Len(ctx.deals) \in Nat /\ DOMAIN ctx.deals = 1..Len(ctx.deals) BY ListIs DEF DealsOK
  <2>4. found \in SUBSET DOMAIN ctx.deals OBVIOUS
  <2> HIDE DEF found
  <2>5. found # {} /\ found \in SUBSET Int /\ Len(ctx.deals) \in Int /\ \A k \in found : k <= Len(ctx.deals)
    BY <2>1, <2>2, <2>3, <2>4
  <2>6. Max(found) \in DOMAIN ctx.deals BY <2>4, <2>5, MaxIs
  <2>7. DealOK(d) BY <2>2, <2>5, <2>6 DEF DealsOK
  <2>8. d.pct \in Int /\ d.amount \in Int BY <2>7 DEF DealOK
  <2> HIDE DEF d
  <2> PICK bps : bps = d.pct * 100 OBVIOUS
  <2>9. bps \in Int BY <2>8
  <2>10. Pct(sub, bps) \in Int BY <2>9, PctIs
  <2> QED BY <2>8, <2>10 DEF a
<1> HIDE DEF none, a
<1>3. ASSUME ~none PROVE Min({sub, a}) \in Int BY <1>2, <1>3, OfTwo
<1>4. <<>> \in Seq(Int) OBVIOUS
<1> QED BY <1>1, <1>3, <1>4

(* A list of one.                                                            *)
LEMMA Single ==
  ASSUME NEW S, NEW x \in S
  PROVE  <<x>> \in Seq(S)
OBVIOUS

(* The discounts chosen, whatever the stacking.                              *)
LEMMA DiscountsAre ==
  ASSUME NEW ctx, NEW cart, NEW autos \in Seq(Int), NEW code \in Seq(Int)
  PROVE  Discounts(ctx, cart, autos, code) \in Seq(Int)
<1> PICK all : all = autos \o code OBVIOUS
<1>1. all \in Seq(Int) OBVIOUS
<1>2. <<>> \in Seq(Int) OBVIOUS
<1>3. PickOne(autos, code) \in Seq(Int)
  <2>1. PickOne(autos, code) = IF all = <<>> THEN <<>> ELSE <<Max({all[n] : n \in DOMAIN all})>> BY DEF PickOne
  <2>2. CASE all = <<>> BY <1>2, <2>1, <2>2
  <2>3. CASE all # <<>>
    <3>1. Row(all, Len(all)) BY <1>1, IntsAddUp
    <3>2. Len(all) # 0 BY <1>1, <2>3, EmptySeq
    <3>3. Max({all[n] : n \in DOMAIN all}) \in Int BY <3>1, <3>2, RowEnds
    <3> PICK y : y = Max({all[n] : n \in DOMAIN all}) OBVIOUS
    <3>4. PickOne(autos, code) = <<y>> BY <2>1, <2>3
    <3>5. y \in Int BY <3>3
    <3>6. <<y>> \in Seq(Int) BY <3>5, Single
    <3> QED BY <3>4, <3>6, Zenon
  <2> QED BY <2>2, <2>3
<1>4. Discounts(ctx, cart, autos, code) \in {<<>>, all, PickOne(autos, code)}
  <2> PICK one, b : one = PickOne(autos, code) /\ b = \E n \in DOMAIN cart.lines : cart.lines[n].deal # Nil OBVIOUS
  <2>1. Discounts(ctx, cart, autos, code) =
          CASE ctx.st.stacking = "stack" -> all [] ctx.st.stacking = "single" /\ b -> <<>> [] OTHER -> one
    BY DEF Discounts
  <2>2. CASE ctx.st.stacking = "stack" BY <2>1, <2>2
  <2>3. CASE ctx.st.stacking = "single" /\ b BY <2>1, <2>3
  <2>4. CASE ~(ctx.st.stacking = "stack") /\ ~(ctx.st.stacking = "single" /\ b) BY <2>1, <2>4
  <2> QED BY <2>2, <2>3, <2>4
<1> QED BY <1>1, <1>2, <1>3, <1>4


-----------------------------------------------------------------------------
(* Fees, tax and the quote.                                                  *)

(* The food at a rate.                                                       *)
LEMMA GrossIs ==
  ASSUME NEW lines, LinesOK(lines), NEW r
  PROVE  Gross(lines, r) \in Int
<1> DEFINE f == [n \in DOMAIN lines |-> IF lines[n].rate = r THEN lines[n].total ELSE 0]
<1>1. PICK m \in Nat : DOMAIN lines = 1..m /\ \A n \in 1..m : Quotable(lines[n]) BY DEF LinesOK
<1>2. Row(f, m) BY <1>1 DEF Row, Quotable
<1>3. Gross(lines, r) = Sum(f) BY DEF Gross, Total
<1> HIDE DEF f
<1> QED BY <1>2, <1>3, SumIsInt

(* A rate's share of the discounts.                                          *)
LEMMA ShareIs ==
  ASSUME NEW lines, LinesOK(lines), NEW sub \in Int, NEW off \in Int, NEW r
  PROVE  Share(lines, sub, off, r) \in Int
<1> PICK g : g = off * Gross(lines, r) OBVIOUS
<1>1. g \in Int BY GrossIs
<1>2. sub > 0 => g \div sub \in Int BY <1>1, DivIs
<1> QED BY <1>2 DEF Share

(* The tax on the food, over the rates.                                      *)
LEMMA FoodTaxIs ==
  ASSUME NEW lines, LinesOK(lines), NEW sub \in Int, NEW off \in Int
  PROVE  FoodTax(lines, sub, off) \in Int
<1> DEFINE first(n) == lines[n].rate # Nil /\ \A k \in 1..n - 1 : lines[k].rate # lines[n].rate
           last == Max(RatesOf(lines))
           s(r) == Share(lines, sub, off, r)
           part(r) == IF r = last THEN 0 ELSE s(r)
           f == [n \in DOMAIN lines |-> IF first(n) THEN part(lines[n].rate) ELSE 0]
           share(r) == IF r = last /\ sub > 0 THEN off - Sum(f) ELSE s(r)
           tax(r) == Pct(Gross(lines, r) - share(r), r)
           g == [n \in DOMAIN lines |-> IF first(n) THEN tax(lines[n].rate) ELSE 0]
<1>1. PICK m \in Nat : DOMAIN lines = 1..m /\ \A n \in 1..m : Quotable(lines[n]) BY DEF LinesOK
<1>2. OverRates(lines, LAMBDA r : IF r = last THEN 0 ELSE Share(lines, sub, off, r)) = Sum(f) BY DEF OverRates
<1>3. FoodTax(lines, sub, off) = Sum(g) BY DEF FoodTax, OverRates
<1> HIDE DEF last
<1>4. \A r : s(r) \in Int BY ShareIs
<1>5. \A n \in 1..m : first(n) => lines[n].rate \in Int BY <1>1 DEF Quotable
<1> HIDE DEF s, first
<1>6. Sum(f) \in Int
  <2>1. \A r : part(r) \in Int BY <1>4
  <2> HIDE DEF part
  <2>2. Row(f, m) BY <1>1, <2>1 DEF Row
  <2> HIDE DEF f
  <2> QED BY <2>2, SumIsInt
<1> HIDE DEF f
<1>7. \A r : share(r) \in Int BY <1>4, <1>6
<1> HIDE DEF share
<1>8. ASSUME NEW r \in Int PROVE tax(r) \in Int
  <2> PICK a : a = Gross(lines, r) - share(r) OBVIOUS
  <2>1. a \in Int BY <1>7, GrossIs
  <2> QED BY <2>1, PctIs
<1> HIDE DEF tax
<1>9. Row(g, m) BY <1>1, <1>5, <1>8 DEF Row
<1> HIDE DEF g
<1> QED BY <1>3, <1>9, SumIsInt

-----------------------------------------------------------------------------
(* The tax is fair.                                                          *)

(* The lines of a quote, m of them.                                          *)
LinesAre(lines, m) == m \in Nat /\ DOMAIN lines = 1..m /\ \A n \in 1..m : Quotable(lines[n])

(* The first line of its rate.                                               *)
IsFirst(lines, n) == lines[n].rate # Nil /\ \A k \in 1..n - 1 : lines[k].rate # lines[n].rate

(* Every rate has one first line.                                            *)
LEMMA FirstExists ==
  ASSUME NEW lines, NEW m \in Nat, NEW n \in 1..m, lines[n].rate # Nil
  PROVE  \E i \in 1..n : IsFirst(lines, i) /\ lines[i].rate = lines[n].rate
<1> DEFINE S == {i \in 1..n : lines[i].rate = lines[n].rate}
<1>1. S \in SUBSET Nat /\ n \in S OBVIOUS
<1>2. PICK i \in S : \A k \in S : i <= k
  <2> HIDE DEF S
  <2> QED BY <1>1, LeastExists
<1>3. ASSUME NEW k \in 1..i - 1 PROVE lines[k].rate # lines[i].rate
  <2>1. k \notin S
    <3> HIDE DEF S
    <3>1. k \in Nat /\ i \in Nat /\ ~(i <= k) BY <1>1, <1>2
    <3> QED BY <1>2, <3>1
  <2>2. k \in 1..n BY <1>2
  <2> QED BY <1>2, <2>1, <2>2
<1> QED BY <1>2, <1>3 DEF IsFirst

LEMMA FirstIsOne ==
  ASSUME NEW lines, NEW m \in Nat, NEW i \in 1..m, NEW k \in 1..m, IsFirst(lines, i), IsFirst(lines, k),
         lines[i].rate = lines[k].rate
  PROVE  i = k
<1>1. ~(i < k) /\ ~(k < i) BY DEF IsFirst
<1> QED BY <1>1

(* There are as many first lines as rates.                                   *)
LEMMA FirstsCount ==
  ASSUME NEW lines, NEW m, LinesAre(lines, m)
  PROVE  /\ Cardinality(RatesOf(lines)) \in Nat
         /\ Sum([n \in DOMAIN lines |-> IF IsFirst(lines, n) THEN 1 ELSE 0]) = Cardinality(RatesOf(lines))
<1>1. m \in Nat /\ DOMAIN lines = 1..m BY DEF LinesAre
<1> DEFINE f == [n \in DOMAIN lines |-> IF IsFirst(lines, n) THEN 1 ELSE 0]
           upTo(k) == {lines[n].rate : n \in 1..k} \ {Nil}
           P == SumTo(f)
           S == {k \in 0..m : IsFiniteSet(upTo(k)) /\ P[1..k] = Cardinality(upTo(k))}
<1>2. Row(f, m) BY <1>1 DEF Row
<1>3. \A n \in 1..m : f[n] = IF IsFirst(lines, n) THEN 1 ELSE 0 BY <1>1
<1> HIDE DEF f
<1>4. Sum(f) = P[1..m] /\ P[{}] = 0 /\ \A k \in 1..m : P[1..k] = P[1..k - 1] + f[k] BY <1>2, SumsUp
<1> HIDE DEF P
<1>5. 0 \in S
  <2>1. 1..0 = {} /\ upTo(0) = {} OBVIOUS
  <2>2. IsFiniteSet(upTo(0)) /\ Cardinality(upTo(0)) = 0 BY <2>1, FS_EmptySet
  <2>3. 0 \in 0..m BY <1>1
  <2> HIDE DEF upTo
  <2> QED BY <1>4, <2>1, <2>2, <2>3
<1>6. ASSUME NEW k \in 1..m, k - 1 \in S PROVE k \in S
  <2>1. 1..k = (1..k - 1) \cup {k} BY <1>1
  <2>2. IsFiniteSet(upTo(k - 1)) /\ P[1..k - 1] = Cardinality(upTo(k - 1)) BY <1>6
  <2> PICK old, r : old = upTo(k - 1) /\ r = lines[k].rate OBVIOUS
  <2>3. k \in 0..m BY <1>1
  <2>4. CASE r = Nil
    <3>1. upTo(k) = old BY <2>1, <2>4
    <3>2. f[k] = 0 BY <1>3, <2>4 DEF IsFirst
    <3>3. Cardinality(old) \in Nat BY <2>2, FS_CardinalityType
    <3> HIDE DEF upTo
    <3>4. P[1..k] = Cardinality(old) BY <1>4, <2>2, <3>2, <3>3
    <3> QED BY <2>2, <2>3, <3>1, <3>4
  <2>5. CASE r # Nil
    <3>1. upTo(k) = old \cup {r} BY <2>1, <2>5
    <3>2. IsFirst(lines, k) <=> r \notin old BY <2>5 DEF IsFirst
    <3> HIDE DEF upTo
    <3>3. /\ IsFiniteSet(old \cup {r})
          /\ Cardinality(old \cup {r}) = IF r \in old THEN Cardinality(old) ELSE Cardinality(old) + 1
      BY <2>2, FS_AddElement
    <3>4. Cardinality(old) \in Nat BY <2>2, FS_CardinalityType
    <3>5. P[1..k] = Cardinality(old) + f[k] BY <1>4, <2>2
    <3>6. P[1..k] = Cardinality(old \cup {r}) BY <1>3, <3>2, <3>3, <3>4, <3>5
    <3> QED BY <2>3, <3>1, <3>3, <3>6
  <2> QED BY <2>4, <2>5
<1>7. m \in S
  <2> HIDE DEF S
  <2> QED BY <1>1, <1>5, <1>6, Counting
<1>8. RatesOf(lines) = upTo(m) BY <1>1 DEF RatesOf
<1>9. IsFiniteSet(upTo(m)) /\ P[1..m] = Cardinality(upTo(m)) BY <1>7
<1> HIDE DEF upTo
<1>10. Cardinality(upTo(m)) \in Nat BY <1>9, FS_CardinalityType
<1> QED BY <1>4, <1>8, <1>9, <1>10 DEF f

(* The rates are of the lines, and one is the highest.                       *)
LEMMA LastRate ==
  ASSUME NEW lines, NEW m, LinesAre(lines, m), NEW n \in 1..m, lines[n].rate # Nil
  PROVE  /\ Max(RatesOf(lines)) \in Nat /\ lines[n].rate \in Nat /\ lines[n].rate <= Max(RatesOf(lines))
         /\ \E i \in 1..m : IsFirst(lines, i) /\ lines[i].rate = Max(RatesOf(lines))
<1>1. m \in Nat /\ DOMAIN lines = 1..m /\ \A k \in 1..m : lines[k].rate \in Nat \/ lines[k].rate = Nil
  BY DEF LinesAre, Quotable
<1> DEFINE f == [k \in 1..m |-> IF lines[k].rate = Nil THEN 0 ELSE lines[k].rate]
<1>2. Row(f, m) /\ \A k \in 1..m : f[k] = IF lines[k].rate = Nil THEN 0 ELSE lines[k].rate BY <1>1 DEF Row
<1> HIDE DEF f
<1>3. PICK b \in Int : \A k \in 1..m : f[k] <= b BY <1>2, RowBounded
<1> PICK R : R = RatesOf(lines) OBVIOUS
<1>4. R = {lines[k].rate : k \in 1..m} \ {Nil} BY <1>1 DEF RatesOf
<1>5. R \in SUBSET Int /\ R \in SUBSET Nat /\ lines[n].rate \in R /\ \A x \in R : x <= b
  <2>1. ASSUME NEW x \in R PROVE x \in Nat /\ x <= b
    <3> PICK k \in 1..m : x = lines[k].rate /\ x # Nil BY <1>4
    <3> QED BY <1>1, <1>2, <1>3
  <2> QED BY <1>4, <2>1
<1>6. Max(R) \in R /\ \A x \in R : x <= Max(R) BY <1>5, MaxIs
<1>7. PICK k \in 1..m : lines[k].rate = Max(R) /\ lines[k].rate # Nil BY <1>4, <1>6
<1>8. PICK i \in 1..k : IsFirst(lines, i) /\ lines[i].rate = lines[k].rate BY <1>1, <1>7, FirstExists
<1>9. i \in 1..m BY <1>1
<1> QED BY <1>5, <1>6, <1>7, <1>8, <1>9

(* The food of the rates is all the food: a line without a rate costs        *)
(* nothing.                                                                  *)
LEMMA GrossesAddUp ==
  ASSUME NEW lines, NEW m, LinesAre(lines, m)
  PROVE  Sum([n \in DOMAIN lines |-> IF IsFirst(lines, n) THEN Gross(lines, lines[n].rate) ELSE 0])
           = Sum([n \in DOMAIN lines |-> lines[n].total])
<1>1. /\ m \in Nat /\ DOMAIN lines = 1..m
      /\ \A n \in 1..m : lines[n].total \in Int /\ (lines[n].rate = Nil => lines[n].total = 0)
  BY NilAssumption DEF LinesAre, Quotable
<1> DEFINE at(r) == [n \in DOMAIN lines |-> IF lines[n].rate = r THEN lines[n].total ELSE 0]
           t == [n \in DOMAIN lines |-> lines[n].total]
           c(j) == [n \in DOMAIN lines |-> IF IsFirst(lines, n) THEN SumTo(at(lines[n].rate))[1..j] ELSE 0]
           h(j) == [n \in DOMAIN lines |-> IF IsFirst(lines, n) /\ lines[n].rate = lines[j].rate THEN lines[j].total ELSE 0]
           T == SumTo(t)
           S == {j \in 0..m : Sum(c(j)) = T[1..j]}
<1>2. \A r : Row(at(r), m) /\ \A k \in 1..m : at(r)[k] = IF lines[k].rate = r THEN lines[k].total ELSE 0 BY <1>1 DEF Row
<1>3. Row(t, m) /\ \A k \in 1..m : t[k] = lines[k].total BY <1>1 DEF Row
<1> HIDE DEF at, t
<1>4. ASSUME NEW r
      PROVE  /\ Gross(lines, r) = SumTo(at(r))[1..m] /\ SumTo(at(r))[{}] = 0
             /\ \A j \in 0..m : SumTo(at(r))[1..j] \in Int
             /\ \A j \in 1..m : SumTo(at(r))[1..j] = SumTo(at(r))[1..j - 1] + at(r)[j]
  <2>1. Gross(lines, r) = Sum(at(r)) BY DEF Gross, Total, at
  <2>2. Row(at(r), m) BY <1>2
  <2> QED BY <2>1, <2>2, SumsUp
<1>5. Sum(t) = T[1..m] /\ T[{}] = 0 /\ (\A j \in 0..m : T[1..j] \in Int) /\ \A j \in 1..m : T[1..j] = T[1..j - 1] + t[j]
  BY <1>3, SumsUp
<1> HIDE DEF T
<1>6. ASSUME NEW j \in 0..m
      PROVE  /\ Row(c(j), m)
             /\ \A n \in 1..m : c(j)[n] = IF IsFirst(lines, n) THEN SumTo(at(lines[n].rate))[1..j] ELSE 0
  BY <1>1, <1>4 DEF Row
<1>7. ASSUME NEW j \in 1..m
      PROVE  /\ Row(h(j), m)
             /\ \A n \in 1..m : h(j)[n] = IF IsFirst(lines, n) /\ lines[n].rate = lines[j].rate THEN lines[j].total ELSE 0
  BY <1>1 DEF Row
<1>8. Sum([n \in DOMAIN lines |-> IF IsFirst(lines, n) THEN Gross(lines, lines[n].rate) ELSE 0]) = Sum(c(m)) BY <1>4
<1> HIDE DEF c, h
<1>9. 0 \in S
  <2>1. 1..0 = {} /\ 0 \in 0..m BY <1>1
  <2>2. Row(c(0), m) /\ \A n \in 1..m : c(0)[n] = 0 BY <1>4, <1>6, <2>1
  <2>3. Sum(c(0)) = 0 BY <2>2, SumOfZeros
  <2> QED BY <1>5, <2>1, <2>3
<1>10. ASSUME NEW j \in 1..m PROVE Sum(h(j)) = lines[j].total
  <2>1. CASE lines[j].rate = Nil
    <3>1. Row(h(j), m) /\ \A n \in 1..m : h(j)[n] = 0 BY <1>1, <1>7, <2>1
    <3>2. lines[j].total = 0 BY <1>1, <2>1
    <3> QED BY <3>1, <3>2, SumOfZeros
  <2>2. CASE lines[j].rate # Nil
    <3>1. PICK i \in 1..j : IsFirst(lines, i) /\ lines[i].rate = lines[j].rate BY <1>1, <2>2, FirstExists
    <3>2. i \in 1..m /\ h(j)[i] = lines[j].total BY <1>1, <1>7, <3>1
    <3>3. ASSUME NEW n \in 1..m, n # i PROVE h(j)[n] = 0
      <4>1. ~(IsFirst(lines, n) /\ lines[n].rate = lines[j].rate) BY <1>1, <3>1, <3>2, <3>3, FirstIsOne
      <4> QED BY <1>7, <4>1
    <3>4. Row(h(j), m) BY <1>7
    <3> QED BY <3>2, <3>3, <3>4, SumOfOnly
  <2> QED BY <2>1, <2>2
<1>11. ASSUME NEW j \in 1..m, j - 1 \in S PROVE j \in S
  <2>1. j \in 0..m /\ j - 1 \in 0..m BY <1>1
  <2> PICK z : z = [n \in 1..m |-> 0] OBVIOUS
  <2>2. Row(z, m) /\ \A n \in 1..m : z[n] = 0 BY <1>1 DEF Row
  <2>3. Sum(z) = 0 BY <2>2, SumOfZeros
  <2> PICK new, old, one : new = c(j) /\ old = c(j - 1) /\ one = h(j) OBVIOUS
  <2>4. Row(new, m) /\ Row(old, m) /\ Row(one, m) BY <1>6, <1>7, <2>1
  <2>5. ASSUME NEW n \in 1..m PROVE new[n] + z[n] = old[n] + one[n]
    <3> PICK r, x : r = lines[n].rate /\ x = lines[j].total OBVIOUS
    <3>1. CASE IsFirst(lines, n)
      <4> PICK a, b, e : a = SumTo(at(r))[1..j] /\ b = SumTo(at(r))[1..j - 1] /\ e = at(r)[j] OBVIOUS
      <4>1. a \in Int /\ b \in Int /\ a = b + e BY <1>4, <2>1
      <4>2. new[n] = a /\ old[n] = b BY <1>6, <2>1, <3>1
      <4>3. e = IF lines[j].rate = r THEN x ELSE 0 BY <1>2
      <4>4. one[n] = IF r = lines[j].rate THEN x ELSE 0 BY <1>7, <3>1
      <4>5. one[n] = e BY <4>3, <4>4
      <4>6. z[n] = 0 BY <2>2
      <4> QED BY <4>1, <4>2, <4>5, <4>6
    <3>2. CASE ~IsFirst(lines, n)
      <4>1. new[n] = 0 /\ old[n] = 0 /\ one[n] = 0 /\ z[n] = 0 BY <1>6, <1>7, <2>1, <2>2, <3>2
      <4> QED BY <4>1
    <3> QED BY <3>1, <3>2
  <2>6. Sum(new) + Sum(z) = Sum(old) + Sum(one)
    <3>1. Row(z, m) BY <2>2
    <3> HIDE DEF S
    <3>2. \A n \in 1..m : new[n] + z[n] = old[n] + one[n] BY <2>5
    <3> QED BY ONLY <2>4, <3>1, <3>2, SumsBalance
  <2>7. Sum(new) \in Int /\ Sum(old) \in Int BY <2>4, SumIsInt
  <2>8. Sum(one) = t[j] BY <1>3, <1>10
  <2>9. Sum(old) = T[1..j - 1] BY <1>11
  <2>10. Sum(new) = T[1..j] BY <1>5, <2>3, <2>6, <2>7, <2>8, <2>9
  <2> QED BY <2>1, <2>10
<1>12. m \in S
  <2> HIDE DEF S
  <2> QED BY <1>1, <1>9, <1>11, Counting
<1> QED BY <1>5, <1>8, <1>12 DEF t

(* Half up leaves half of the divisor at most.                               *)
LEMMA HalfRounds ==
  ASSUME NEW v \in Int
  PROVE  \E d \in Int : d = (v + 5000) \div 10000 /\ -5000 <= 10000 * d - v /\ 10000 * d - v <= 5000
<1>1. PICK big : big = 10000 OBVIOUS
<1>2. PICK w, d, rest : w = v + 5000 /\ d = w \div big /\ rest = w % big OBVIOUS
<1>3. w \in Int /\ big \in Nat \ {0} BY <1>1, <1>2
<1>4. d \in Int /\ rest \in 0..big - 1 /\ w = (d * big) + rest BY <1>2, <1>3, DivIs
<1>5. rest \in Int /\ 0 <= rest /\ rest <= 9999 BY <1>1, <1>4
<1>6. v + 5000 = 10000 * d + rest
  <2>1. w = (d * 10000) + rest BY <1>1, <1>4
  <2> QED BY <1>2, <1>4, <1>5, <2>1
<1>7. -5000 <= 10000 * d - v /\ 10000 * d - v <= 5000 BY <1>4, <1>5, <1>6
<1>8. d = (v + 5000) \div 10000 BY <1>1, <1>2
<1> QED BY <1>4, <1>7, <1>8

(* A percentage is rounded by half a cent at most.                           *)
LEMMA PctRounds ==
  ASSUME NEW a \in Int, NEW bps \in Int
  PROVE  LET x == 10000 * Pct(a, bps) - a * bps IN x \in Int /\ -5000 <= x /\ x <= 5000
<1> PICK big : big = 10000 OBVIOUS
<1> PICK x, y : x = a * bps /\ y = (-a) * bps OBVIOUS
<1>0. x \in Int /\ y \in Int /\ y = -x
  <2>1. (-a) * bps = -(a * bps) OBVIOUS
  <2> QED BY <2>1
<1> PICK p : p = Pct(a, bps) OBVIOUS
<1>1. p = IF a < 0 THEN -((y + 5000) \div big) ELSE (x + 5000) \div big BY DEF Pct
<1>2. ASSUME NEW v \in Int
      PROVE  \E d \in Int : d = (v + 5000) \div big /\ -5000 <= 10000 * d - v /\ 10000 * d - v <= 5000
  BY HalfRounds
<1>3. CASE a < 0
  <2>1. PICK d \in Int : d = (y + 5000) \div big /\ -5000 <= 10000 * d - y /\ 10000 * d - y <= 5000 BY <1>0, <1>2
  <2>2. p = -d BY <1>1, <1>3, <2>1
  <2>3. 10000 * p - x \in Int /\ -5000 <= 10000 * p - x /\ 10000 * p - x <= 5000 BY <1>0, <2>1, <2>2
  <2> QED BY <2>3
<1>4. CASE ~(a < 0)
  <2>1. PICK d \in Int : d = (x + 5000) \div big /\ -5000 <= 10000 * d - x /\ 10000 * d - x <= 5000 BY <1>0, <1>2
  <2>2. p = d BY <1>1, <1>4, <2>1
  <2>3. 10000 * p - x \in Int /\ -5000 <= 10000 * p - x /\ 10000 * p - x <= 5000 BY <1>0, <2>1, <2>2
  <2> QED BY <2>3
<1> QED BY <1>3, <1>4

(* Amounts F that are scaled the exact X, but for the rest D a share H of    *)
(* off leaves and an error E of at most `most` where `one` is 1.             *)
Spread(m, F, X, G, H, D, E, one, sub, off, last, scale, most) ==
  /\ Row(F, m) /\ Row(X, m) /\ Row(G, m) /\ Row(H, m) /\ Row(D, m) /\ Row(E, m) /\ Row(one, m)
  /\ {sub, off, last, scale, most} \subseteq Int
  /\ Sum(G) = sub /\ Sum(H) = off
  /\ \A n \in 1..m : D[n] = off * G[n] - sub * H[n]
  /\ \A n \in 1..m : scale * F[n] = X[n] + (E[n] + last * D[n])
  /\ \A n \in 1..m : -(most * one[n]) <= E[n] /\ E[n] <= most * one[n]

(* The rests cancel: what is left are the errors.                            *)
LEMMA ErrorsAddUp ==
  ASSUME NEW m, NEW F, NEW X, NEW G, NEW H, NEW D, NEW E, NEW one,
         NEW sub, NEW off, NEW last, NEW scale, NEW most,
         Spread(m, F, X, G, H, D, E, one, sub, off, last, scale, most)
  PROVE  /\ -(most * Sum(one)) <= scale * Sum(F) - Sum(X)
         /\ scale * Sum(F) - Sum(X) <= most * Sum(one)
<1> USE DEF Spread
<1> sub \in Int /\ off \in Int /\ last \in Int /\ scale \in Int /\ most \in Int OBVIOUS
<1> Row(F, m) /\ Row(X, m) /\ Row(G, m) /\ Row(H, m) /\ Row(D, m) /\ Row(E, m) /\ Row(one, m) OBVIOUS
<1> Sum(G) = sub /\ Sum(H) = off OBVIOUS
<1> \A n \in 1..m : D[n] = off * G[n] - sub * H[n] OBVIOUS
<1> \A n \in 1..m : scale * F[n] = X[n] + (E[n] + last * D[n]) OBVIOUS
<1> \A n \in 1..m : -(most * one[n]) <= E[n] /\ E[n] <= most * one[n] OBVIOUS
<1> HIDE DEF Spread
<1>0. m \in Nat /\ \A n \in 1..m : {F[n], X[n], G[n], H[n], D[n], E[n], one[n]} \subseteq Int BY DEF Row
<1>1. PICK OG : Row(OG, m) /\ (\A n \in 1..m : OG[n] = off * G[n]) /\ Sum(OG) = off * Sum(G) BY ScaledRow
<1>2. PICK SH : Row(SH, m) /\ (\A n \in 1..m : SH[n] = sub * H[n]) /\ Sum(SH) = sub * Sum(H) BY ScaledRow
<1>3. Sum(OG) = Sum(D) + Sum(SH) /\ Sum(D) \in Int
  <2>1. \A n \in 1..m : OG[n] = D[n] + SH[n]
    <3> SUFFICES ASSUME NEW n \in 1..m PROVE OG[n] = D[n] + SH[n] OBVIOUS
    <3> PICK x, y : x = off * G[n] /\ y = sub * H[n] OBVIOUS
    <3>1. x \in Int /\ y \in Int BY <1>0
    <3>2. OG[n] = x /\ SH[n] = y /\ D[n] = x - y BY <1>1, <1>2
    <3> QED BY <3>1, <3>2
  <2>2. Row(OG, m) /\ Row(SH, m) BY <1>1, <1>2
  <2> QED BY ONLY <2>1, <2>2, Row(D, m), AddedRow
<1>4. Sum(D) = 0
  <2> PICK x : x = off * sub OBVIOUS
  <2>1. x \in Int /\ sub * off = x OBVIOUS
  <2> QED BY <1>1, <1>2, <1>3, <2>1
<1>5. PICK LD : Row(LD, m) /\ (\A n \in 1..m : LD[n] = last * D[n]) /\ Sum(LD) = last * Sum(D) BY ScaledRow
<1>6. PICK SF : Row(SF, m) /\ (\A n \in 1..m : SF[n] = scale * F[n]) /\ Sum(SF) = scale * Sum(F) BY ScaledRow
<1>7. PICK U : Row(U, m) /\ (\A n \in 1..m : U[n] = most * one[n]) /\ Sum(U) = most * Sum(one) BY ScaledRow
<1> PICK W : W = [n \in 1..m |-> E[n] + LD[n]] OBVIOUS
<1>8. /\ Row(W, m) /\ \A n \in 1..m : W[n] = E[n] + LD[n]
  <2>1. \A n \in 1..m : LD[n] \in Int BY <1>5 DEF Row
  <2>2. \A n \in 1..m : E[n] \in Int BY DEF Row
  <2>3. \A n \in 1..m : W[n] = E[n] + LD[n] OBVIOUS
  <2>4. m \in Nat /\ DOMAIN W = 1..m BY <1>0
  <2>5. \A n \in 1..m : W[n] \in Int BY ONLY <2>1, <2>2, <2>3
  <2> QED BY <2>3, <2>4, <2>5 DEF Row
<1>9. Sum(W) = Sum(E) + Sum(LD) /\ Sum(E) \in Int
  <2>1. Row(LD, m) BY <1>5
  <2> QED BY ONLY <1>8, <2>1, Row(E, m), AddedRow
<1>10. Sum(SF) = Sum(X) + Sum(W) /\ Sum(X) \in Int
  <2>1. \A n \in 1..m : SF[n] = X[n] + W[n] BY <1>5, <1>6, <1>8
  <2>2. Row(SF, m) /\ Row(W, m) BY <1>6, <1>8
  <2> QED BY ONLY <2>1, <2>2, Row(X, m), AddedRow
<1>11. Sum(LD) = 0 BY <1>4, <1>5
<1>12. Sum(SF) - Sum(X) = Sum(E) BY <1>9, <1>10, <1>11
<1>13. Sum(E) <= Sum(U)
  <2>1. \A n \in 1..m : E[n] <= U[n] BY <1>7
  <2>2. Row(U, m) BY <1>7
  <2> QED BY ONLY <2>1, <2>2, Row(E, m), SumAtMost
<1>14. -Sum(U) <= Sum(E)
  <2>1. PICK V : Row(V, m) /\ (\A n \in 1..m : V[n] = (-1) * U[n]) /\ Sum(V) = (-1) * Sum(U)
    BY <1>7, -1 \in Int, ScaledRow
  <2>2. \A n \in 1..m : V[n] <= E[n]
    <3> SUFFICES ASSUME NEW n \in 1..m PROVE V[n] <= E[n] OBVIOUS
    <3> PICK u : u = most * one[n] OBVIOUS
    <3>1. u \in Int BY <1>0
    <3>2. U[n] = u /\ -u <= E[n] BY <1>7
    <3>3. V[n] = (-1) * u BY <2>1, <3>2
    <3> QED BY <3>1, <3>2, <3>3
  <2>3. Row(V, m) BY <2>1
  <2>4. Sum(V) <= Sum(E) BY ONLY <2>2, <2>3, Row(E, m), SumAtMost
  <2>5. Sum(U) \in Int BY <1>7, SumIsInt
  <2>6. Sum(V) = -Sum(U) BY <2>1, <2>5
  <2> QED BY <2>4, <2>6
<1> QED BY <1>6, <1>7, <1>12, <1>13, <1>14

(* The tax at one rate: what its own rounding and its share's move.          *)
OneRate(sub, off, r, last, g, s, d, e, most) ==
  /\ {sub, off, g, s, d} \subseteq Int /\ sub > 0 /\ r \in Nat /\ last \in Nat /\ r <= last
  /\ d = off * g - sub * s
  /\ r = last \/ (0 <= d /\ d <= sub)
  /\ e = (sub * 10000) * Pct(g - s, r) - (r * g * (sub - off) + last * d)
  /\ most = (5000 + last) * sub

LEMMA RateError ==
  ASSUME NEW sub, NEW off, NEW r, NEW last, NEW g, NEW s, NEW d, NEW e, NEW most,
         OneRate(sub, off, r, last, g, s, d, e, most)
  PROVE  -most <= e /\ e <= most
<1> USE DEF OneRate
<1> sub \in Int /\ off \in Int /\ g \in Int /\ s \in Int /\ d \in Int OBVIOUS
<1> sub > 0 /\ r \in Nat /\ last \in Nat /\ r <= last OBVIOUS
<1> d = off * g - sub * s /\ (r = last \/ (0 <= d /\ d <= sub)) OBVIOUS
<1> e = (sub * 10000) * Pct(g - s, r) - (r * g * (sub - off) + last * d) /\ most = (5000 + last) * sub OBVIOUS
<1> HIDE DEF OneRate
<1> PICK p : p = Pct(g - s, r) OBVIOUS
<1> PICK gap : gap = g - s OBVIOUS
<1> PICK a : a = 10000 * p - gap * r OBVIOUS
<1>1. p \in Int /\ a \in Int /\ -5000 <= a /\ a <= 5000
  <2>1. gap \in Int /\ p = Pct(gap, r) OBVIOUS
  <2>2. p \in Int BY <2>1, PctIs
  <2>3. a \in Int /\ -5000 <= a /\ a <= 5000 BY <2>1, PctRounds
  <2> QED BY <2>2, <2>3
<1>2. e = sub * a + (r - last) * d
  <2>1. 10000 * p = a + gap * r BY <1>1
  <2>2. (sub * 10000) * p = sub * a + sub * (gap * r)
    <3>1. (sub * 10000) * p = sub * (10000 * p) BY <1>1
    <3>2. gap * r \in Int OBVIOUS
    <3>3. sub * (a + gap * r) = sub * a + sub * (gap * r) BY <1>1, <3>2
    <3> QED BY <2>1, <3>1, <3>3
  <2>3. sub * (gap * r) = r * g * sub - r * (sub * s) OBVIOUS
  <2>4. r * g * (sub - off) = r * g * sub - r * (off * g) OBVIOUS
  <2>5. (r - last) * d = r * (off * g) - r * (sub * s) - last * d OBVIOUS
  <2> PICK t, u, v, w, y : t = sub * a /\ u = r * g * sub /\ v = r * (sub * s) /\ w = r * (off * g) /\ y = last * d OBVIOUS
  <2>6. t \in Int /\ u \in Int /\ v \in Int /\ w \in Int /\ y \in Int BY <1>1
  <2> QED BY <2>2, <2>3, <2>4, <2>5, <2>6
<1> PICK x, y : x = sub * a /\ y = (r - last) * d OBVIOUS
<1> PICK m, k : m = 5000 * sub /\ k = last * sub OBVIOUS
<1>3. x \in Int /\ -m <= x /\ x <= m /\ m \in Nat BY <1>1
<1>4. y \in Int /\ -k <= y /\ y <= 0
  <2>1. CASE r = last BY <2>1
  <2>2. CASE 0 <= d /\ d <= sub
    <3> PICK c : c = last - r OBVIOUS
    <3>1. c \in Nat /\ c <= last OBVIOUS
    <3>2. y = -(c * d) BY <3>1
    <3>3. c * d <= last * sub /\ 0 <= c * d BY <2>2, <3>1
    <3> QED BY <3>1, <3>2, <3>3
  <2> QED BY <2>1, <2>2
<1>5. (5000 + last) * sub = m + k /\ k \in Nat OBVIOUS
<1>6. e = x + y BY <1>2
<1>7. e \in Int /\ -(m + k) <= e /\ e <= m + k BY <1>3, <1>4, <1>5, <1>6
<1> QED BY <1>5, <1>7

(* The tax on the food is the exact tax, each rate bearing its share of the  *)
(* discounts, to half a cent a rate and what rounding the shares moves.      *)
LEMMA FoodTaxIsFair ==
  ASSUME NEW lines, LinesOK(lines), NEW sub, sub = Sum([n \in DOMAIN lines |-> lines[n].total]), sub > 0,
         NEW off \in Int
  PROVE  LET last == Max(RatesOf(lines))
             err == (sub * 10000) * FoodTax(lines, sub, off) - ExactTax(lines, sub, off)
             most == ((5000 + last) * sub) * Cardinality(RatesOf(lines))
         IN  -most <= err /\ err <= most
<1>1. PICK m : LinesAre(lines, m) BY DEF LinesOK, LinesAre
<1>2. m \in Nat /\ DOMAIN lines = 1..m /\ \A n \in 1..m : lines[n].total \in Int BY <1>1 DEF LinesAre, Quotable
<1>3. sub \in Int /\ \E n \in 1..m : lines[n].rate # Nil
  <2> PICK t : t = [n \in DOMAIN lines |-> lines[n].total] OBVIOUS
  <2>1. Row(t, m) BY <1>2 DEF Row
  <2>2. SUFFICES ASSUME \A n \in 1..m : lines[n].rate = Nil PROVE FALSE BY <2>1, SumIsInt
  <2>3. \A n \in 1..m : t[n] = 0 BY <1>1, <1>2, <2>2, NilAssumption DEF LinesAre, Quotable
  <2>4. Sum(t) = 0 BY <2>1, <2>3, SumOfZeros
  <2> QED BY <2>4
<1> DEFINE last == Max(RatesOf(lines))
           s(r) == Share(lines, sub, off, r)
           part(n) == IF lines[n].rate = last THEN 0 ELSE s(lines[n].rate)
           f == [n \in DOMAIN lines |-> IF IsFirst(lines, n) THEN part(n) ELSE 0]
           share(r) == IF r = last /\ sub > 0 THEN off - Sum(f) ELSE s(r)
           tax(r) == Pct(Gross(lines, r) - share(r), r)
           F == [n \in DOMAIN lines |-> IF IsFirst(lines, n) THEN tax(lines[n].rate) ELSE 0]
           X == [n \in DOMAIN lines |-> IF IsFirst(lines, n) THEN lines[n].rate * Gross(lines, lines[n].rate) * (sub - off) ELSE 0]
           G == [n \in DOMAIN lines |-> IF IsFirst(lines, n) THEN Gross(lines, lines[n].rate) ELSE 0]
           H == [n \in DOMAIN lines |-> IF IsFirst(lines, n) THEN share(lines[n].rate) ELSE 0]
           one == [n \in DOMAIN lines |-> IF IsFirst(lines, n) THEN 1 ELSE 0]
           D == [n \in 1..m |-> off * G[n] - sub * H[n]]
           E == [n \in 1..m |-> (sub * 10000) * F[n] - (X[n] + last * D[n])]
           most == (5000 + last) * sub
<1>4. FoodTax(lines, sub, off) = Sum(F) BY DEF FoodTax, OverRates, IsFirst
<1>5. ExactTax(lines, sub, off) = Sum(X) BY DEF ExactTax, OverRates, IsFirst
<1>6. Sum(G) = sub BY <1>1, GrossesAddUp
<1>7. Sum(one) = Cardinality(RatesOf(lines)) BY <1>1, FirstsCount
<1>8. PICK i \in 1..m : IsFirst(lines, i) /\ lines[i].rate = last BY <1>1, <1>3, LastRate
<1>9. last \in Nat /\ \A n \in 1..m : IsFirst(lines, n) => lines[n].rate \in Nat /\ lines[n].rate <= last
  BY <1>1, <1>3, LastRate DEF IsFirst
<1>10. \A n \in 1..m : IsFirst(lines, n) /\ lines[n].rate = last => n = i BY <1>2, <1>8, FirstIsOne
<1> HIDE DEF last
<1>11. \A r : Gross(lines, r) \in Int /\ s(r) \in Int BY <1>3, GrossIs, ShareIs
<1>12. ASSUME NEW r
       PROVE  /\ off * Gross(lines, r) - sub * s(r) \in Int
              /\ 0 <= off * Gross(lines, r) - sub * s(r) /\ off * Gross(lines, r) - sub * s(r) <= sub
  <2> PICK x : x = off * Gross(lines, r) OBVIOUS
  <2>1. x \in Int /\ sub \in Nat \ {0} BY <1>3, <1>11
  <2> PICK d, rest : d = x \div sub /\ rest = x % sub OBVIOUS
  <2>2. d \in Int /\ rest \in 0..sub - 1 /\ x = (d * sub) + rest BY <2>1, DivIs
  <2>3. s(r) = d BY DEF Share
  <2>4. sub * d = d * sub BY <2>1, <2>2
  <2>5. x - sub * d = rest BY <2>2, <2>4, <2>1
  <2> HIDE DEF s
  <2> QED BY <2>1, <2>2, <2>3, <2>5
<1> HIDE DEF s
<1>13. /\ Row(f, m)
       /\ \A n \in 1..m : f[n] = IF IsFirst(lines, n) THEN part(n) ELSE 0
  BY <1>2, <1>11 DEF Row
<1> HIDE DEF f
<1>14. Sum(f) \in Int BY <1>13, SumIsInt
<1>15. \A r : share(r) \in Int BY <1>11, <1>14
<1>16. share(last) = off - Sum(f) /\ \A r : r # last => share(r) = s(r) OBVIOUS
<1> HIDE DEF share
<1>17. /\ Row(H, m)
       /\ \A n \in 1..m : H[n] = IF IsFirst(lines, n) THEN share(lines[n].rate) ELSE 0
  BY <1>2, <1>15 DEF Row
<1>18. /\ Row(G, m)
       /\ \A n \in 1..m : G[n] = IF IsFirst(lines, n) THEN Gross(lines, lines[n].rate) ELSE 0
  BY <1>2, <1>11 DEF Row
<1>19. /\ Row(one, m)
       /\ \A n \in 1..m : one[n] = IF IsFirst(lines, n) THEN 1 ELSE 0
  BY <1>2 DEF Row
<1>20. ASSUME NEW r \in Int PROVE tax(r) \in Int
  <2> PICK a : a = Gross(lines, r) - share(r) OBVIOUS
  <2>1. a \in Int BY <1>11, <1>15
  <2> QED BY <2>1, PctIs
<1> HIDE DEF tax
<1>21. /\ Row(F, m)
       /\ \A n \in 1..m : F[n] = IF IsFirst(lines, n) THEN tax(lines[n].rate) ELSE 0
  <2>1. \A n \in 1..m : IsFirst(lines, n) => tax(lines[n].rate) \in Int
    <3> HIDE DEF F
    <3> SUFFICES ASSUME NEW n \in 1..m, IsFirst(lines, n) PROVE tax(lines[n].rate) \in Int OBVIOUS
    <3>1. lines[n].rate \in Int BY <1>9
    <3> QED BY <1>20, <3>1
  <2>2. \A n \in 1..m : F[n] = IF IsFirst(lines, n) THEN tax(lines[n].rate) ELSE 0 BY <1>2
  <2>3. DOMAIN F = 1..m BY <1>2
  <2> HIDE DEF F
  <2> QED BY <1>2, <2>1, <2>2, <2>3 DEF Row
<1>22. /\ Row(X, m)
       /\ \A n \in 1..m : X[n] = IF IsFirst(lines, n) THEN lines[n].rate * Gross(lines, lines[n].rate) * (sub - off) ELSE 0
  <2>1. ASSUME NEW n \in 1..m PROVE X[n] \in Int
    <3> PICK r, g : r = lines[n].rate /\ g = Gross(lines, lines[n].rate) OBVIOUS
    <3>1. IsFirst(lines, n) => r \in Int BY <1>9
    <3>2. g \in Int BY <1>11
    <3>3. X[n] = IF IsFirst(lines, n) THEN r * g * (sub - off) ELSE 0 BY <1>2
    <3> HIDE DEF X
    <3> QED BY <1>3, <3>1, <3>2, <3>3
  <2>2. DOMAIN X = 1..m BY <1>2
  <2>3. \A n \in 1..m : X[n] = IF IsFirst(lines, n) THEN lines[n].rate * Gross(lines, lines[n].rate) * (sub - off) ELSE 0
    BY <1>2
  <2> HIDE DEF X
  <2> QED BY <1>2, <2>1, <2>2, <2>3 DEF Row
<1> HIDE DEF F, X, G, H, one
<1>23. Sum(H) = off
  <2> PICK x : x = off - Sum(f) OBVIOUS
  <2> PICK L : L = [n \in 1..m |-> IF n = i THEN x ELSE 0] OBVIOUS
  <2>1. x \in Int BY <1>14
  <2>2. Row(L, m) /\ L[i] = x /\ \A n \in 1..m : n # i => L[n] = 0 BY <1>2, <2>1 DEF Row
  <2>3. Sum(L) = x
    <3>1. Row(L, m) /\ \A n \in 1..m : n # i => L[n] = 0 BY <2>2
    <3> QED BY <2>2, <3>1, SumOfOnly
  <2>4. ASSUME NEW n \in 1..m PROVE H[n] = f[n] + L[n]
    <3> PICK r : r = lines[n].rate OBVIOUS
    <3>1. CASE n = i
      <4>1. H[n] = x /\ f[n] = 0 /\ L[n] = x BY <1>8, <1>13, <1>16, <1>17, <2>2, <3>1
      <4> QED BY <2>1, <4>1
    <3>2. CASE n # i /\ IsFirst(lines, n)
      <4>1. r # last BY <1>10, <3>2
      <4>2. H[n] = s(r) /\ f[n] = s(r) /\ L[n] = 0 BY <1>13, <1>16, <1>17, <2>2, <3>2, <4>1
      <4> QED BY <1>11, <4>2
    <3>3. CASE n # i /\ ~IsFirst(lines, n)
      <4>1. H[n] = 0 /\ f[n] = 0 /\ L[n] = 0 BY <1>13, <1>17, <2>2, <3>3
      <4> QED BY <4>1
    <3> QED BY <3>1, <3>2, <3>3
  <2>5. Row(H, m) /\ Row(f, m) /\ Row(L, m) BY <1>13, <1>17, <2>2
  <2>6. Sum(H) = Sum(f) + Sum(L) BY ONLY <2>4, <2>5, AddedRow
  <2> QED BY <1>14, <2>3, <2>6
<1>24. /\ Row(D, m)
       /\ \A n \in 1..m : D[n] = off * G[n] - sub * H[n]
  <2>1. ASSUME NEW n \in 1..m PROVE off * G[n] - sub * H[n] \in Int
    <3> PICK g, h : g = G[n] /\ h = H[n] OBVIOUS
    <3>1. g \in Int /\ h \in Int BY <1>17, <1>18 DEF Row
    <3> QED BY <1>3, <3>1
  <2>2. \A n \in 1..m : D[n] = off * G[n] - sub * H[n] OBVIOUS
  <2>3. DOMAIN D = 1..m OBVIOUS
  <2> HIDE DEF D
  <2> QED BY <1>2, <2>1, <2>2, <2>3 DEF Row
<1> HIDE DEF D
<1>25. ASSUME NEW n \in 1..m
       PROVE  /\ E[n] \in Int /\ (sub * 10000) * F[n] = X[n] + (E[n] + last * D[n])
              /\ -(most * one[n]) <= E[n] /\ E[n] <= most * one[n]
  <2> PICK e : e = E[n] OBVIOUS
  <2> PICK r, g, h : r = lines[n].rate /\ g = Gross(lines, lines[n].rate) /\ h = share(lines[n].rate) OBVIOUS
  <2> PICK b : b = most OBVIOUS
  <2> PICK d, x, y : d = D[n] /\ x = (sub * 10000) * F[n] /\ y = last * D[n] OBVIOUS
  <2>1. e = x - (X[n] + y) OBVIOUS
  <2> HIDE DEF E, most
  <2>2. d \in Int /\ F[n] \in Int /\ X[n] \in Int BY <1>21, <1>22, <1>24 DEF Row
  <2>3. x \in Int /\ y \in Int
    <3> PICK v : v = F[n] OBVIOUS
    <3>1. v \in Int BY <2>2
    <3>2. x = (sub * 10000) * v OBVIOUS
    <3> QED BY <1>3, <1>9, <2>2, <3>1, <3>2
  <2>4. e \in Int /\ x = X[n] + (e + y) BY <2>1, <2>2, <2>3
  <2>5. b \in Int BY <1>3, <1>9 DEF most
  <2>6. -(b * one[n]) <= e /\ e <= b * one[n]
    <3>1. CASE ~IsFirst(lines, n)
      <4>1. F[n] = 0 /\ X[n] = 0 /\ G[n] = 0 /\ H[n] = 0 /\ one[n] = 0 BY <1>17, <1>18, <1>19, <1>21, <1>22, <3>1
      <4>2. d = 0
        <5>1. d = off * 0 - sub * 0 BY <1>24, <4>1
        <5> QED BY <1>3, <5>1
      <4>3. x = 0 /\ y = 0 BY <1>3, <1>9, <4>1, <4>2
      <4>4. e = 0 BY <2>1, <4>1, <4>3
      <4>5. b * one[n] = 0 BY <2>5, <4>1
      <4> QED BY <4>4, <4>5
    <3>2. CASE IsFirst(lines, n)
      <4>1. /\ F[n] = Pct(g - h, r) /\ X[n] = r * g * (sub - off) /\ G[n] = g /\ H[n] = h /\ one[n] = 1
        BY <1>17, <1>18, <1>19, <1>21, <1>22, <3>2 DEF tax
      <4>2. r \in Nat /\ r <= last /\ last \in Nat /\ g \in Int /\ h \in Int BY <1>9, <1>11, <1>15, <3>2
      <4>3. d = off * g - sub * h BY <1>24, <4>1
      <4>4. r = last \/ (0 <= d /\ d <= sub) BY <1>12, <1>16, <4>3
      <4> PICK a : a = (sub * 10000) * Pct(g - h, r) - (r * g * (sub - off) + last * d) OBVIOUS
      <4>5. -b <= a /\ a <= b
        <5> PICK l : l = last OBVIOUS
        <5>1. l \in Nat /\ r <= l /\ (r = l \/ (0 <= d /\ d <= sub)) BY <4>2, <4>4
        <5>2. a = (sub * 10000) * Pct(g - h, r) - (r * g * (sub - off) + l * d) /\ b = (5000 + l) * sub BY DEF most
        <5>3. r \in Nat /\ g \in Int /\ h \in Int /\ sub \in Int /\ sub > 0 BY <1>3, <4>2
        <5>4. OneRate(sub, off, r, l, g, h, d, a, b) BY ONLY <2>2, <4>3, <5>1, <5>2, <5>3, off \in Int DEF OneRate
        <5> QED BY <5>4, RateError
      <4>6. e = a BY <2>1, <4>1
      <4>7. b * one[n] = b BY <2>5, <4>1
      <4> QED BY <4>5, <4>6, <4>7
    <3> QED BY <3>1, <3>2
  <2> QED BY <2>4, <2>6
<1>26. Row(E, m)
  <2>1. DOMAIN E = 1..m OBVIOUS
  <2> HIDE DEF E
  <2> QED BY <1>2, <1>25, <2>1 DEF Row
<1> HIDE DEF E
<1> PICK k : k = sub * 10000 OBVIOUS
<1> PICK b : b = most OBVIOUS
<1>27. k \in Int /\ b \in Int BY <1>3, <1>9
<1> HIDE DEF most
<1>28. -(b * Sum(one)) <= k * Sum(F) - Sum(X) /\ k * Sum(F) - Sum(X) <= b * Sum(one)
  <2>1. \A n \in 1..m : k * F[n] = X[n] + (E[n] + last * D[n]) BY <1>25
  <2>2. \A n \in 1..m : -(b * one[n]) <= E[n] /\ E[n] <= b * one[n] BY <1>25
  <2>3. Row(F, m) /\ Row(X, m) /\ Row(G, m) /\ Row(H, m) /\ Row(D, m) /\ Row(E, m) /\ Row(one, m)
    BY <1>17, <1>18, <1>19, <1>21, <1>22, <1>24, <1>26
  <2>4. \A n \in 1..m : D[n] = off * G[n] - sub * H[n] BY <1>24
  <2>5. sub \in Int /\ last \in Int BY <1>3, <1>9
  <2>6. Spread(m, F, X, G, H, D, E, one, sub, off, last, k, b)
    BY ONLY <1>6, <1>23, <1>27, <2>1, <2>2, <2>3, <2>4, <2>5, off \in Int DEF Spread
  <2> QED BY <2>6, ErrorsAddUp
<1>29. b = (5000 + Max(RatesOf(lines))) * sub BY DEF most, last
<1>30. PICK e : e = ExactTax(lines, sub, off) OBVIOUS
<1>31. PICK x : x = FoodTax(lines, sub, off) OBVIOUS
<1>32. PICK c : c = Cardinality(RatesOf(lines)) OBVIOUS
<1>33. PICK sum, paid, rates : sum = Sum(X) /\ paid = Sum(F) /\ rates = Sum(one) OBVIOUS
<1>34. -(b * rates) <= k * paid - sum /\ k * paid - sum <= b * rates BY <1>28, <1>33
<1>35. e = sum /\ x = paid /\ c = rates BY <1>4, <1>5, <1>7, <1>30, <1>31, <1>32, <1>33
<1>36. -(b * c) <= k * x - e /\ k * x - e <= b * c BY <1>34, <1>35
<1> QED BY <1>29, <1>30, <1>31, <1>32, <1>36

-----------------------------------------------------------------------------
(* The quote.                                                                *)

(* The tip: given, asked for or the default.                                 *)
LEMMA TipIs ==
  ASSUME NEW ctx, CtxOK(ctx), NEW cart, CartOK(cart), NEW after \in Int
  PROVE  Tip(ctx, cart, after) \in Int
<1> PICK p : p = IF cart.tipPct # Nil /\ cart.tipPct \in 0..100 THEN cart.tipPct ELSE ctx.st.tips.default OBVIOUS
<1>1. p \in Int BY DEF CtxOK
<1>2. Pct(after, 100 * p) \in Int
  <2> PICK bps : bps = 100 * p OBVIOUS
  <2>1. bps \in Int BY <1>1
  <2> QED BY <2>1, PctIs
<1>3. Tip(ctx, cart, after) = IF ~ctx.st.tips.enabled THEN 0
                              ELSE IF cart.tip # Nil /\ cart.tip >= 0 THEN cart.tip ELSE Pct(after, 100 * p)
  BY DEF Tip
<1>4. cart.tip # Nil => cart.tip \in Int BY DEF CartOK
<1> QED BY <1>2, <1>3, <1>4

(* A quote whose total is the food, less the discounts, and the rest.        *)
QuoteAdds(q, lines, sub) ==
  /\ q.lines = lines /\ q.discounts \in Seq(Int)
  /\ {q.delivery, q.service, q.tax, q.tip, q.card} \subseteq Int
  /\ q.total = sub - Sum(q.discounts) + q.delivery + q.service + q.tax + q.tip + q.card
  /\ q.errors = {} => \A n \in DOMAIN lines : lines[n].issues = {}

(* A quote whose tax is on the food after the discounts and on the service   *)
(* fee.                                                                      *)
Taxed(ctx, q, lines, sub) ==
  q.sub = sub /\ q.tax = FoodTax(lines, sub, Sum(q.discounts)) + Pct(q.service, ctx.st.tax)

(* One amount appended.                                                      *)
LEMMA SumAppended ==
  ASSUME NEW s \in Seq(Int), NEW x \in Int
  PROVE  Sum(s \o <<x>>) = Sum(s) + x
<1> PICK n : n = Len(s) OBVIOUS
<1> PICK t : t = s \o <<x>> OBVIOUS
<1>1. n \in Nat /\ t \in Seq(Int) /\ Len(t) = n + 1 /\ t[n + 1] = x /\ \A k \in 1..n : t[k] = s[k] OBVIOUS
<1>2. Row(s, n) /\ Row(t, n + 1)
  <2>1. Row(s, Len(s)) /\ Row(t, Len(t)) BY <1>1, IntsAddUp
  <2> QED BY <1>1, <2>1
<1>3. ASSUME NEW u, u = t PROVE Sum(u) = Sum(s) + x
  <2>1. Row(u, n + 1) /\ u[n + 1] = x /\ \A k \in 1..n : u[k] = s[k] BY <1>1, <1>2, <1>3, Zenon
  <2>2. Sum(u) = Sum(s) + u[n + 1] BY <1>2, <2>1, SumGrows
  <2> QED BY <2>1, <2>2
<1> QED BY <1>3

(* From the discounts on, the quote adds up: fees, tax, tip and card fee     *)
(* are on what is left of the food.                                          *)
LEMMA QuotedAdds ==
  ASSUME NEW ctx, CtxOK(ctx), NEW cart, CartOK(cart), NEW lines, LinesOK(lines), NEW sub \in Int,
         NEW taken \in Seq(Int), NEW cash \in Seq(Int), cash = <<>> \/ \E x \in Int : cash = <<x>>, NEW errors
  PROVE  LET q == WithCash(ctx, cart, lines, sub, sub - Sum(taken), taken, errors, cash)
         IN  QuoteAdds(q, lines, sub) /\ Taxed(ctx, q, lines, sub)
<1> DEFINE food == sub - Sum(taken)
           after == food - Sum(cash)
           service == IF lines = <<>> THEN 0 ELSE ctx.st.serviceFee + Pct(after, ctx.st.serviceBps)
           delivery == DeliveryFee(ctx, cart, food)
           tax == FoodTax(lines, sub, sub - after) + Pct(service, ctx.st.tax)
           tip == Tip(ctx, cart, after)
           card == CardFee(ctx, cart, after + delivery + service + tax)
           q == WithCash(ctx, cart, lines, sub, food, taken, errors, cash)
<1>1. food \in Int /\ after \in Int
  <2>1. Sum(taken) \in Int /\ Sum(cash) \in Int BY IntsAddUp
  <2> QED BY <2>1
<1>2. /\ q.lines = lines /\ q.sub = sub /\ q.discounts = taken \o cash /\ q.delivery = delivery /\ q.service = service
      /\ q.tax = tax /\ q.tip = tip /\ q.card = card /\ q.total = after + delivery + service + tax + tip + card
  BY DEF WithCash, WithFees, Quoted
<1>0. tax = FoodTax(lines, sub, sub - after) + Pct(service, ctx.st.tax) OBVIOUS
<1>3. q.errors = {} => \A n \in DOMAIN lines : lines[n].issues = {}
  <2>1. UNION {lines[n].issues : n \in DOMAIN lines} \subseteq q.errors BY DEF WithCash, WithFees, Quoted
  <2> HIDE DEF q
  <2> QED BY <2>1
<1> HIDE DEF q
<1>4. after = sub - Sum(taken \o cash)
  <2>1. CASE cash = <<>>
    <3>1. taken \o cash = taken BY <2>1
    <3>2. Sum(cash) = 0
      <4>1. Row(cash, 0) BY <2>1 DEF Row
      <4> QED BY <4>1, SumIsInt
    <3>3. Sum(taken) \in Int BY IntsAddUp
    <3> QED BY <3>1, <3>2, <3>3
  <2>2. CASE \E x \in Int : cash = <<x>>
    <3> PICK x \in Int : cash = <<x>> BY <2>2
    <3>1. Sum(cash) = x BY SumOfOne
    <3>2. Sum(taken \o cash) = Sum(taken) + x BY SumAppended
    <3>3. Sum(taken) \in Int BY IntsAddUp
    <3> QED BY <3>1, <3>2, <3>3
  <2> QED BY <2>1, <2>2
<1>5. taken \o cash \in Seq(Int) OBVIOUS
<1> HIDE DEF after, food
<1>6. /\ ctx.st.serviceFee \in Int /\ ctx.st.serviceBps \in Int /\ ctx.st.deliveryFee \in Int
      /\ ctx.st.tax \in Int /\ ctx.st.cardFee.bps \in Int
  BY DEF CtxOK, FeesOK
<1>7. delivery \in Int BY <1>6 DEF DeliveryFee
<1>8. service \in Int
  <2>1. Pct(after, ctx.st.serviceBps) \in Int BY <1>1, <1>6, PctIs
  <2> QED BY <1>6, <2>1
<1> HIDE DEF delivery, service
<1>9. tax \in Int
  <2> PICK off : off = sub - after OBVIOUS
  <2>1. off \in Int BY <1>1
  <2>2. FoodTax(lines, sub, off) \in Int BY <2>1, FoodTaxIs
  <2>3. Pct(service, ctx.st.tax) \in Int BY <1>6, <1>8, PctIs
  <2> QED BY <2>2, <2>3
<1> HIDE DEF tax
<1>10. tip \in Int BY <1>1, TipIs
<1>11. card \in Int
  <2> PICK base : base = after + delivery + service + tax OBVIOUS
  <2>1. base \in Int BY <1>1, <1>7, <1>8, <1>9
  <2>2. Pct(base, ctx.st.cardFee.bps) \in Int BY <1>6, <2>1, PctIs
  <2> QED BY <2>2 DEF CardFee
<1> HIDE DEF tip, card
<1>12. q.total = sub - Sum(q.discounts) + q.delivery + q.service + q.tax + q.tip + q.card BY <1>2, <1>4
<1>13. QuoteAdds(q, lines, sub) BY <1>2, <1>3, <1>5, <1>7, <1>8, <1>9, <1>10, <1>11, <1>12 DEF QuoteAdds
<1>14. Taxed(ctx, q, lines, sub)
  <2> PICK off : off = sub - after OBVIOUS
  <2> PICK x : x = Sum(q.discounts) OBVIOUS
  <2>1. x \in Int
    <3>1. q.discounts \in Seq(Int) BY <1>2, <1>5
    <3> QED BY <3>1, IntsAddUp
  <2>2. after = sub - x BY <1>2, <1>4
  <2>3. off = x BY <1>1, <2>1, <2>2
  <2> QED BY <1>0, <1>2, <2>3 DEF Taxed
<1> QED BY <1>13, <1>14 DEF q, food

(* The quote of a cart adds up from the totals of its lines.                 *)
LEMMA PriceAdds ==
  ASSUME NEW ctx, CtxOK(ctx), NEW cart, CartOK(cart), NEW at
  PROVE  LET lines == QuoteLines(ctx, cart, at)
             sub == Sum([n \in DOMAIN lines |-> lines[n].total])
         IN  QuoteAdds(Price(ctx, cart, at), lines, sub) /\ Taxed(ctx, Price(ctx, cart, at), lines, sub)
<1> DEFINE lines == QuoteLines(ctx, cart, at)
           f == [n \in DOMAIN lines |-> lines[n].total]
           sub == Sum(f)
           units == Join([n \in DOMAIN lines |-> lines[n].units])
           autos == Autos(ctx, units, sub, at, cart.type)
           code == CodeAmounts(ctx, cart, sub, at)
           amounts == Discounts(ctx, cart, autos, code)
           ds == Clamped(amounts, sub)
           cash == CashDiscount(ctx, cart, sub - Sum(ds))
<1>1. LinesOK(lines) BY QuoteLinesAre
<1>2. PICK errors : Price(ctx, cart, at) = WithCash(ctx, cart, lines, sub, sub - Sum(ds), ds, errors, cash)
  BY DEF Price, Subtotalled, WithLines, WithCode, WithDeals, Total
<1> HIDE DEF lines
<1>3. sub \in Int
  <2>1. PICK m \in Nat : DOMAIN lines = 1..m /\ \A n \in 1..m : Quotable(lines[n]) BY <1>1 DEF LinesOK
  <2>2. Row(f, m) BY <2>1 DEF Row, Quotable
  <2> HIDE DEF f
  <2> QED BY <2>2, SumIsInt
<1>4. Units(units) BY <1>1, UnitsJoined
<1> HIDE DEF f, sub, units
<1>5. autos \in Seq(Int) BY <1>4, AutosAre DEF CtxOK
<1>6. code \in Seq(Int) BY <1>3, CodeAmountsAre DEF CtxOK
<1> HIDE DEF autos, code
<1>7. amounts \in Seq(Int) BY <1>5, <1>6, DiscountsAre
<1> HIDE DEF amounts
<1>8. ds \in Seq(Int) BY <1>3, <1>7, ClampedIs
<1> HIDE DEF ds
<1>9. cash \in Seq(Int) /\ (cash = <<>> \/ \E x \in Int : cash = <<x>>)
  <2> PICK after : after = sub - Sum(ds) OBVIOUS
  <2>1. after \in Int BY <1>3, <1>8, IntsAddUp
  <2>2. ctx.st.cardFee.bps \in Int BY DEF CtxOK
  <2> PICK x : x = Pct(after, ctx.st.cardFee.bps) OBVIOUS
  <2>3. x \in Int BY <2>1, <2>2, PctIs
  <2>4. cash = <<>> \/ cash = <<x>> BY DEF CashDiscount
  <2>5. <<>> \in Seq(Int) /\ <<x>> \in Seq(Int) BY <2>3, Single
  <2> HIDE DEF cash
  <2> QED BY <2>3, <2>4, <2>5
<1> HIDE DEF cash
<1>10. QuoteAdds(Price(ctx, cart, at), lines, sub) /\ Taxed(ctx, Price(ctx, cart, at), lines, sub)
  BY <1>1, <1>2, <1>3, <1>8, <1>9, QuotedAdds
<1> QED BY <1>10 DEF lines, sub, f

(* A quote's tax follows the food.                                           *)
LEMMA PriceIsFair ==
  ASSUME NEW ctx, CtxOK(ctx), NEW cart, CartOK(cart), NEW at
  PROVE  TaxIsFair(ctx, Price(ctx, cart, at))
<1> PICK q : q = Price(ctx, cart, at) OBVIOUS
<1> PICK lines : lines = QuoteLines(ctx, cart, at) OBVIOUS
<1> PICK sub : sub = Sum([n \in DOMAIN lines |-> lines[n].total]) OBVIOUS
<1> PICK off : off = Sum(q.discounts) OBVIOUS
<1>1. QuoteAdds(q, lines, sub) /\ Taxed(ctx, q, lines, sub) BY PriceAdds
<1>2. LinesOK(lines) BY QuoteLinesAre
<1>3. off \in Int
  <2>1. q.discounts \in Seq(Int) BY <1>1 DEF QuoteAdds
  <2> QED BY <2>1, IntsAddUp
<1> PICK last, k : last = Max(RatesOf(lines)) /\ k = Cardinality(RatesOf(lines)) OBVIOUS
<1> PICK food, exact : food = FoodTax(lines, sub, off) /\ exact = ExactTax(lines, sub, off) OBVIOUS
<1>4. ASSUME sub > 0
      PROVE  /\ -(((5000 + last) * sub) * k) <= (sub * 10000) * food - exact
             /\ (sub * 10000) * food - exact <= ((5000 + last) * sub) * k
  BY <1>2, <1>3, <1>4, FoodTaxIsFair
<1> PICK fee, tax : fee = Pct(q.service, ctx.st.tax) /\ tax = q.tax OBVIOUS
<1>5. tax - fee = food
  <2>1. food \in Int
    <3>1. sub \in Int
      <4> PICK t : t = [n \in DOMAIN lines |-> lines[n].total] OBVIOUS
      <4>1. PICK m \in Nat : DOMAIN lines = 1..m /\ \A n \in 1..m : Quotable(lines[n]) BY <1>2 DEF LinesOK
      <4>2. Row(t, m) BY <4>1 DEF Row, Quotable
      <4>3. sub = Sum(t) OBVIOUS
      <4> QED BY ONLY <4>2, <4>3, SumIsInt
    <3> QED BY ONLY <1>2, <1>3, <3>1, food = FoodTax(lines, sub, off), FoodTaxIs
  <2>2. fee \in Int
    <3>1. q.service \in Int BY <1>1 DEF QuoteAdds
    <3>2. ctx.st.tax \in Int BY DEF CtxOK
    <3> QED BY <3>1, <3>2, PctIs
  <2>3. tax = food + fee BY <1>1 DEF Taxed
  <2> QED BY <2>1, <2>2, <2>3
<1>6. q.lines = lines /\ q.sub = sub BY <1>1 DEF QuoteAdds, Taxed
<1>7. sub > 0 => /\ -(((5000 + last) * sub) * k) <= (sub * 10000) * (tax - fee) - exact
                 /\ (sub * 10000) * (tax - fee) - exact <= ((5000 + last) * sub) * k
  BY <1>4, <1>5
<1> QED BY <1>6, <1>7 DEF TaxIsFair

-----------------------------------------------------------------------------
(* The order's money.                                                        *)

(* An order of the quote adds up to its total, unless a price is negative.   *)
Adds(ctx, cart, q) ==
  PricesIn(ctx.groups, Nat) /\ q.errors = {} =>
    \A m : m = Money(ctx, cart, q) => m.total \in Int /\ m.total = Owed(m)

(* A combo is off its picks by the fee or by the discount.                   *)
LEMMA ComboBalances ==
  ASSUME NEW b \in Int, NEW x \in Int, NEW d, d = b - x
  PROVE  /\ d \in Int /\ Max({-d, 0}) \in Int /\ Max({d, 0}) \in Int
         /\ b + Max({-d, 0}) = x + Max({d, 0})
<1>1. d \in Int OBVIOUS
<1> PICK e, zero : e = -d /\ zero = 0 OBVIOUS
<1>2. e \in Int /\ zero \in Int BY <1>1
<1>3. Max({e, zero}) = IF e <= zero THEN zero ELSE e BY <1>2, OfTwo
<1>4. Max({d, zero}) = IF d <= zero THEN zero ELSE d BY <1>1, <1>2, OfTwo
<1> PICK u, v : u = Max({e, zero}) /\ v = Max({d, zero}) OBVIOUS
<1>5. u \in Int /\ v \in Int /\ b + u = x + v BY <1>1, <1>2, <1>3, <1>4
<1> QED BY <1>1, <1>5

(* What a cart is priced at, its order adds up to (build,                    *)
(* orderport/service.go:377).                                                *)
LEMMA MoneyIs ==
  ASSUME NEW ctx, CtxOK(ctx), NEW cart, CartOK(cart), NEW at
  PROVE  Adds(ctx, cart, Price(ctx, cart, at))
<1> DEFINE q == Price(ctx, cart, at)
           lines == QuoteLines(ctx, cart, at)
           f == [n \in DOMAIN lines |-> lines[n].total]
           built == [n \in DOMAIN cart.lines |-> Sum(BuiltTotals(ctx, cart.lines[n]))]
           diffs == [n \in DOMAIN built |-> IF cart.lines[n].deal = Nil THEN 0 ELSE built[n] - q.lines[n].total]
           over == [n \in DOMAIN diffs |-> Max({-diffs[n], 0})]
           under == [n \in DOMAIN diffs |-> Max({diffs[n], 0})]
           m == Money(ctx, cart, q)
<1>1. SUFFICES ASSUME PricesIn(ctx.groups, Nat), q.errors = {} PROVE m.total \in Int /\ m.total = Owed(m)
  BY DEF Adds
<1>2. QuoteAdds(q, lines, Sum(f)) /\ Taxed(ctx, q, lines, Sum(f)) BY PriceAdds
<1>3. LinesOK(lines) /\ DOMAIN lines = DOMAIN cart.lines BY QuoteLinesAre
<1>4. \A n \in DOMAIN cart.lines : lines[n].issues = {} BY <1>1, <1>2, <1>3 DEF QuoteAdds
<1>5. q.lines = lines BY <1>2 DEF QuoteAdds
<1>6. \A n \in DOMAIN cart.lines : built[n] \in Int /\ (cart.lines[n].deal = Nil => built[n] = lines[n].total)
  BY <1>1, <1>4, QuoteLinesAre
<1>7. PICK k \in Nat : DOMAIN lines = 1..k /\ \A n \in 1..k : lines[n].total \in Int BY <1>3 DEF LinesOK, Quotable
<1>8. /\ m.subtotal = Sum(built) /\ m.tax = q.tax /\ m.tip = q.tip /\ m.total = q.total
      /\ m.fees = Sum(over) + q.delivery + q.service + q.card
      /\ m.discounts = Sum(under) + Sum(q.discounts)
  BY DEF Money, MoneyOf, ComboFees, Total
<1>9. DOMAIN built = 1..k /\ DOMAIN diffs = 1..k BY <1>3, <1>7
<1> HIDE DEF q, lines, built, m
<1>10. ASSUME NEW n \in 1..k
       PROVE  /\ over[n] \in Int /\ under[n] \in Int
              /\ built[n] + over[n] = f[n] + under[n]
  <2>1. PICK b, x, d : b = built[n] /\ x = lines[n].total /\ d = diffs[n] OBVIOUS
  <2>2. b \in Int /\ x \in Int /\ (cart.lines[n].deal = Nil => b = x) BY <1>3, <1>6, <1>7, <2>1
  <2>3. d = IF cart.lines[n].deal = Nil THEN 0 ELSE b - x BY <1>5, <1>9, <2>1
  <2>4. over[n] = Max({-d, 0}) /\ under[n] = Max({d, 0}) /\ f[n] = x
    <3>1. f[n] = x BY <1>7, <2>1
    <3> HIDE DEF diffs
    <3> QED BY <1>9, <2>1, <3>1
  <2> HIDE DEF over, under, f, diffs
  <2>5. d = b - x BY <2>2, <2>3
  <2>7. Max({-d, 0}) \in Int /\ Max({d, 0}) \in Int /\ b + Max({-d, 0}) = x + Max({d, 0})
    BY <2>2, <2>5, ComboBalances
  <2> QED BY <2>1, <2>4, <2>7
<1>11. DOMAIN over = 1..k /\ DOMAIN under = 1..k /\ DOMAIN f = 1..k BY <1>7, <1>9
<1> HIDE DEF over, under
<1>12. \A n \in 1..k : f[n] \in Int /\ built[n] \in Int BY <1>3, <1>6, <1>7
<1> HIDE DEF f, diffs
<1>13. Row(built, k) /\ Row(over, k) /\ Row(f, k) /\ Row(under, k) BY <1>9, <1>10, <1>11, <1>12 DEF Row
<1>14. Sum(built) + Sum(over) = Sum(f) + Sum(under)
  <2>1. \A n \in 1..k : built[n] + over[n] = f[n] + under[n] BY <1>10
  <2> QED BY <1>13, <2>1, SumsBalance
<1>15. Sum(built) \in Int /\ Sum(over) \in Int /\ Sum(f) \in Int /\ Sum(under) \in Int BY <1>13, SumIsInt
<1>16. Sum(q.discounts) \in Int /\ q.delivery \in Int /\ q.service \in Int /\ q.tax \in Int /\ q.tip \in Int /\ q.card \in Int
  BY <1>2, IntsAddUp DEF QuoteAdds
<1>17. q.total = Sum(f) - Sum(q.discounts) + q.delivery + q.service + q.tax + q.tip + q.card BY <1>2 DEF QuoteAdds
<1> PICK B, O, F, U, D : B = Sum(built) /\ O = Sum(over) /\ F = Sum(f) /\ U = Sum(under) /\ D = Sum(q.discounts) OBVIOUS
<1> PICK de, se, ta, ti, ca, to : /\ de = q.delivery /\ se = q.service /\ ta = q.tax
                                  /\ ti = q.tip /\ ca = q.card /\ to = q.total
  OBVIOUS
<1>18. /\ {B, O, F, U, D, de, se, ta, ti, ca} \subseteq Int /\ B + O = F + U
       /\ to = F - D + de + se + ta + ti + ca
  BY <1>14, <1>15, <1>16, <1>17
<1>19. m.subtotal = B /\ m.tax = ta /\ m.tip = ti /\ m.total = to
  BY <1>8
<1>20. m.fees = O + de + se + ca /\ m.discounts = U + D BY <1>8
<1>21. Owed(m) = B + ta + ti + (O + de + se + ca) - (U + D) BY <1>19, <1>20 DEF Owed
<1> QED BY <1>18, <1>19, <1>21

-----------------------------------------------------------------------------
(* The shop's invariant.                                                     *)

(* The request being placed: what it holds at each step.                     *)
PlacingOK ==
  \/ place = Browsing
  \/ /\ place = [at |-> place.at, kind |-> place.kind, cart |-> place.cart,
                 promised |-> place.promised, expected |-> place.expected]
     /\ place.at \in {"sent", "taken"} /\ CartOK(place.cart)
  \/ /\ place = [at |-> place.at, kind |-> place.kind, cart |-> place.cart, ctx |-> place.ctx, quote |-> place.quote]
     /\ place.at \in {"priced", "checked"}
     /\ GroupsOK(place.ctx.groups) /\ place.quote.errors = {} /\ Adds(place.ctx, place.cart, place.quote)
     /\ TaxIsFair(place.ctx, place.quote)
  \/ place.at \in {"built", "unbuildable"} /\ MoneyAddsUp /\ TaxFollowsFood

(* What is stored was validated; what the request holds adds up and is       *)
(* taxed fairly.                                                             *)
SaleInv == ShopOK(settings, overrides, deals) /\ PlacingOK

(* What is within a bound is an integer.                                     *)
LEMMA WithinIs ==
  ASSUME NEW x, NEW most \in Int, Within(x, most)
  PROVE  x \in Nat
BY DEF Within

(* Valid sets of fees, tips and card fee.                                    *)
LEMMA SetsAre ==
  ASSUME NEW o, ValidSets(o)
  PROVE  /\ o.fees # Nil => FeesOK(o.fees)
         /\ o.tips # Nil => o.tips.default \in Int
         /\ o.cardFee # Nil => o.cardFee.bps \in Int
<1> PICK a, b, c, d : a = 10000 /\ b = 3000 /\ c = 100 /\ d = 1000 OBVIOUS
<1>1. /\ o.fees # Nil => Within(o.fees.serviceFee, a) /\ Within(o.fees.serviceBps, b) /\ Within(o.fees.deliveryFee, a)
      /\ o.tips # Nil => Within(o.tips.default, c)
      /\ o.cardFee # Nil => Within(o.cardFee.bps, d)
  BY DEF ValidSets
<1>2. a \in Int /\ b \in Int /\ c \in Int /\ d \in Int OBVIOUS
<1>3. o.fees # Nil => FeesOK(o.fees) BY <1>1, <1>2, WithinIs DEF FeesOK
<1> QED BY <1>1, <1>2, <1>3, WithinIs

(* A kind's overrides over the store's settings.                             *)
LEMMA EffectiveIs ==
  ASSUME NEW s, NEW o, s.tax \in Nat, FeesOK(s.fees), s.tips.default \in Int, s.cardFee.bps \in Int, ValidSets(o)
  PROVE  LET st == Effective(s, o)
         IN  FeesOK(st) /\ st.tax \in Nat /\ st.tips.default \in Int /\ st.cardFee.bps \in Int
<1> DEFINE fees == IF o.fees = Nil THEN s.fees ELSE o.fees
           tips == IF o.tips = Nil THEN s.tips ELSE o.tips
           card == IF o.cardFee = Nil THEN s.cardFee ELSE o.cardFee
           st == Effective(s, o)
<1>1. /\ st.serviceFee = fees.serviceFee /\ st.serviceBps = fees.serviceBps /\ st.deliveryFee = fees.deliveryFee
      /\ st.tax = s.tax /\ st.tips = tips /\ st.cardFee = card
  BY DEF Effective
<1>2. FeesOK(fees) BY SetsAre
<1>3. tips.default \in Int BY SetsAre
<1>4. card.bps \in Int BY SetsAre
<1> HIDE DEF st, fees, tips, card
<1>5. FeesOK(st) BY <1>1, <1>2 DEF FeesOK
<1> QED BY <1>1, <1>3, <1>4, <1>5 DEF st

(* What is stored was valid, or is the defaults.                             *)
LEMMA StoredIs ==
  ASSUME ShopOK(settings, overrides, deals)
  PROVE  LET s == Stored.store
         IN  /\ s.tax \in Nat /\ FeesOK(s.fees) /\ s.tips.default \in Int /\ s.cardFee.bps \in Int
             /\ \A k \in DOMAIN Stored.kinds : ValidSets(Stored.kinds[k])
<1>1. CASE settings = Nil
  <2>1. Stored.store = DefaultStore /\ Stored.kinds = DefaultOverrides
    BY <1>1 DEF Stored, ListPricingSettings
  <2>2. /\ DefaultStore.tax = 600 /\ DefaultStore.tips.default = 18 /\ DefaultStore.cardFee.bps = 0
        /\ FeesOK(DefaultStore.fees)
    BY DEF DefaultStore, FeesOK
  <2>3. DOMAIN DefaultOverrides = {"web"} /\ DefaultOverrides["web"] = [NoOverride EXCEPT !.tips = [enabled |-> TRUE, default |-> 18]]
    BY DEF DefaultOverrides
  <2>4. ValidSets(DefaultOverrides["web"])
    <3> PICK o : o = DefaultOverrides["web"] OBVIOUS
    <3>1. o.fees = Nil /\ o.cardFee = Nil /\ o.tips.default = 18 BY <2>3 DEF NoOverride
    <3>2. Within(18, 100) BY DEF Within
    <3> QED BY <3>1, <3>2 DEF ValidSets
  <2>5. \A k \in DOMAIN Stored.kinds : ValidSets(Stored.kinds[k]) BY <2>1, <2>3, <2>4
  <2> QED BY <2>1, <2>2, <2>5
<1>2. CASE settings # Nil
  <2>1. Stored.store = settings /\ Stored.kinds = overrides BY <1>2 DEF Stored, ListPricingSettings
  <2>2. ValidStore(settings) /\ HasSets(settings) /\ \A k \in DOMAIN overrides : ValidSets(overrides[k])
    BY <1>2 DEF ShopOK
  <2> PICK most : most = 3000 OBVIOUS
  <2>3. most \in Int /\ Within(settings.tax, most) /\ ValidSets(settings) BY <2>2 DEF ValidStore
  <2>4. settings.tax \in Nat BY <2>3, WithinIs
  <2>5. /\ FeesOK(settings.fees) /\ settings.tips.default \in Int /\ settings.cardFee.bps \in Int
    BY <2>2, <2>3, SetsAre DEF HasSets
  <2> QED BY <2>1, <2>2, <2>4, <2>5
<1> QED BY <1>1, <1>2

(* The channel's items: selling out changes no price.                        *)
LEMMA ItemsAre == ItemsOK(ChannelItems)
<1> DEFINE out == ListSoldOutItems
<1>1. DOMAIN ChannelItems = DOMAIN Menu.items /\ ItemsOK(Menu.items) BY ShopAssumption DEF ChannelItems
<1>2. SUFFICES ASSUME NEW i \in DOMAIN Menu.items
      PROVE  LET it == ChannelItems[i]
             IN  /\ PricedOK(it) /\ {"choices", "groups"} \subseteq DOMAIN it /\ IsList(it.groups)
                 /\ \A c \in DOMAIN it.choices : PricedOK(it.choices[c])
  BY <1>1 DEF ItemsOK
<1> PICK old : old = Menu.items[i] OBVIOUS
<1> PICK it : it = ChannelItems[i] OBVIOUS
<1>3. /\ PricedOK(old) /\ {"choices", "groups"} \subseteq DOMAIN old /\ IsList(old.groups)
      /\ \A c \in DOMAIN old.choices : PricedOK(old.choices[c])
  BY <1>1 DEF ItemsOK
<1> PICK choices : choices = [c \in DOMAIN old.choices |-> [old.choices[c] EXCEPT !.soldOut = c \in out]] OBVIOUS
<1>4. it = [old EXCEPT !.soldOut = old.bank \in out, !.choices = choices] BY DEF ChannelItems
<1>5. DOMAIN it = DOMAIN old /\ \A f \in DOMAIN old \ {"soldOut", "choices"} : it[f] = old[f] BY <1>4, Zenon
<1>6. it.choices = choices BY <1>3, <1>4, Zenon
<1>7. ASSUME NEW c \in DOMAIN old.choices PROVE PricedOK(choices[c])
  <2>1. PricedOK(old.choices[c]) BY <1>3
  <2> PICK b : b = old.choices[c] OBVIOUS
  <2> PICK e : e = choices[c] OBVIOUS
  <2>2. e = [b EXCEPT !.soldOut = c \in out] OBVIOUS
  <2>3. DOMAIN e = DOMAIN b /\ \A f \in DOMAIN b \ {"soldOut"} : e[f] = b[f] BY <2>2, Zenon
  <2>4. {"price", "sizes"} \subseteq DOMAIN b /\ e.price = b.price /\ e.sizes = b.sizes BY <2>1, <2>3 DEF PricedOK
  <2> QED BY <2>1, <2>3, <2>4 DEF PricedOK
<1>8. it.price = old.price /\ it.sizes = old.sizes /\ it.groups = old.groups BY <1>3, <1>5 DEF PricedOK
<1>9. PricedOK(it) BY <1>3, <1>5, <1>8 DEF PricedOK
<1>10. DOMAIN choices = DOMAIN old.choices OBVIOUS
<1> QED BY <1>3, <1>5, <1>6, <1>7, <1>8, <1>9, <1>10

(* The channel's groups: nor does it change an option's.                     *)
LEMMA GroupsAre == GroupsOK(ChannelGroups)
<1>1. DOMAIN ChannelGroups = DOMAIN Menu.groups /\ GroupsOK(Menu.groups) BY ShopAssumption DEF ChannelGroups
<1>2. SUFFICES ASSUME NEW g \in DOMAIN Menu.groups
      PROVE  LET opts == ChannelGroups[g].opts
             IN  /\ "opts" \in DOMAIN ChannelGroups[g] /\ IsFiniteSet(DOMAIN opts)
                 /\ \A o \in DOMAIN opts : OptionOK(opts[o])
  BY <1>1 DEF GroupsOK
<1> PICK old : old = Menu.groups[g] OBVIOUS
<1> PICK new : new = ChannelGroups[g] OBVIOUS
<1>3. "opts" \in DOMAIN old /\ IsFiniteSet(DOMAIN old.opts) /\ \A o \in DOMAIN old.opts : OptionOK(old.opts[o])
  BY <1>1 DEF GroupsOK
<1> PICK opts : opts = [o \in DOMAIN old.opts |-> [old.opts[o] EXCEPT !.soldOut = o \in optionsOut]] OBVIOUS
<1>4. new = [old EXCEPT !.opts = opts] BY DEF ChannelGroups
<1>5. new.opts = opts /\ DOMAIN new = DOMAIN old BY <1>3, <1>4, Zenon
<1>6. ASSUME NEW o \in DOMAIN old.opts PROVE OptionOK(opts[o])
  <2>1. OptionOK(old.opts[o]) BY <1>3
  <2> PICK b : b = old.opts[o] OBVIOUS
  <2> PICK e : e = opts[o] OBVIOUS
  <2>2. e = [b EXCEPT !.soldOut = o \in optionsOut] OBVIOUS
  <2>3. DOMAIN e = DOMAIN b /\ \A f \in DOMAIN b \ {"soldOut"} : e[f] = b[f] BY <2>2, Zenon
  <2>4. {"price", "prices"} \subseteq DOMAIN b /\ e.price = b.price /\ e.prices = b.prices BY <2>1, <2>3 DEF OptionOK
  <2> QED BY <2>1, <2>3, <2>4 DEF OptionOK
<1>7. DOMAIN opts = DOMAIN old.opts OBVIOUS
<1> QED BY <1>3, <1>5, <1>6, <1>7

(* The deals a channel sees are some of the store's.                         *)
LEMMA DealsAre ==
  ASSUME DealsOK(deals), NEW kind
  PROVE  DealsOK(ListDeals(kind))
<1> DEFINE at == {n \in DOMAIN deals : deals[n].active /\ kind \in deals[n].kinds}
           R == {deals[k] : k \in at \cap (1..Len(deals))}
           kept == ListDeals(kind)
<1>1. Len(deals) \in Nat /\ DOMAIN deals = 1..Len(deals) /\ \A k \in DOMAIN deals : DealOK(deals[k])
  BY ListIs DEF DealsOK
<1>2. kept = Select(deals, at) BY DEF ListDeals
<1> HIDE DEF kept, at
<1>3. kept \in Seq(R) BY <1>1, <1>2, SelectKeeps
<1>4. \A d \in R : DealOK(d) BY <1>1
<1> HIDE DEF R
<1>5. IsList(kept) BY <1>3, ListOf
<1>6. \A n \in DOMAIN kept : kept[n] \in R BY <1>3
<1> QED BY <1>4, <1>5, <1>6 DEF DealsOK, kept

(* Every channel prices with integers, whatever the manager saved.           *)
LEMMA ContextIs ==
  ASSUME ShopOK(settings, overrides, deals), NEW kind
  PROVE  CtxOK(Context(kind))
<1> DEFINE o == IF kind \in DOMAIN Stored.kinds THEN Stored.kinds[kind] ELSE NoOverride
           st == Effective(Stored.store, o)
           ctx == Context(kind)
<1>1. /\ ctx.items = ChannelItems /\ ctx.groups = ChannelGroups /\ ctx.facts = Menu.facts
      /\ ctx.st = st /\ ctx.deals = ListDeals(kind)
  BY DEF Context
<1>2. ValidSets(o)
  <2>1. ValidSets(NoOverride) BY DEF ValidSets, NoOverride
  <2> QED BY <2>1, StoredIs
<1> HIDE DEF o, ctx
<1>3. FeesOK(st) /\ st.tax \in Nat /\ st.tips.default \in Int /\ st.cardFee.bps \in Int
  BY <1>2, StoredIs, EffectiveIs
<1> HIDE DEF st
<1>4. DealsOK(ListDeals(kind)) BY DealsAre DEF ShopOK
<1>5. ItemsOK(ctx.items) /\ GroupsOK(ctx.groups) /\ FactsOK(ctx.facts) /\ DealsOK(ctx.deals)
  BY <1>1, <1>4, ItemsAre, GroupsAre, ShopAssumption
<1> QED BY <1>1, <1>3, <1>5 DEF CtxOK, ctx

(* A list of deals, however it was edited.                                   *)
LEMMA DealsEdited ==
  ASSUME NEW R, NEW ds \in Seq(R), \A d \in R : DealOK(d)
  PROVE  DealsOK(ds)
<1>1. IsList(ds) BY ListOf
<1>2. \A n \in DOMAIN ds : ds[n] \in R OBVIOUS
<1> QED BY <1>1, <1>2 DEF DealsOK

(* The invariant holds of the shops the model starts with.                   *)
LEMMA SaleInvStarts == StorefrontInit => SaleInv
<1> SUFFICES ASSUME StorefrontInit PROVE SaleInv OBVIOUS
<1>1. PICK s \in Shops : settings = s.store /\ overrides = s.kinds /\ deals = s.deals BY DEF StorefrontInit
<1>2. ShopOK(settings, overrides, deals) BY <1>1, ShopAssumption
<1> QED BY <1>2 DEF StorefrontInit, SaleInv, PlacingOK

(* The manager's saves keep the shop valid and leave the request alone.      *)
LEMMA PricesEdited ==
  ASSUME SaleInv, ManagePrices
  PROVE  ShopOK(settings', overrides', deals') /\ place' = place
<1>1. ShopOK(settings, overrides, deals) BY DEF SaleInv
<1>2. ASSUME NEW s \in Settings, SaveSettings(s.store, s.kinds)
      PROVE  ShopOK(settings', overrides', deals') /\ place' = place
  <2> PICK over : over = s.kinds OBVIOUS
  <2>1. /\ ValidStore(settings') /\ HasSets(settings') /\ deals' = deals /\ place' = place
        /\ \A k \in DOMAIN over : ValidSets(over[k])
        /\ overrides' = UpsertPricingSettings(DeletePricingSettings(over), over)
    BY <1>2, ShopAssumption DEF SaveSettings
  <2>2. \A k \in DOMAIN overrides' : k \in DOMAIN over /\ overrides'[k] = over[k]
    BY <2>1 DEF UpsertPricingSettings, DeletePricingSettings
  <2>3. DealsOK(deals') BY <1>1, <2>1 DEF ShopOK
  <2> QED BY <2>1, <2>2, <2>3 DEF ShopOK
<1> PICK m : m = Len(deals) OBVIOUS
<1>3. m \in Nat /\ DOMAIN deals = 1..m /\ deals \in Seq({deals[k] : k \in DOMAIN deals}) /\ \A k \in DOMAIN deals : DealOK(deals[k])
  BY <1>1, ListIs DEF ShopOK, DealsOK
<1> PICK R : R = {deals[k] : k \in DOMAIN deals} OBVIOUS
<1>4. deals \in Seq(R) /\ \A d \in R : DealOK(d) BY <1>3
<1>5. ASSUME DealEdit, DealsOK(deals') PROVE ShopOK(settings', overrides', deals') /\ place' = place
  <2>1. settings' = settings /\ overrides' = overrides /\ place' = place BY <1>5 DEF DealEdit
  <2> QED BY <1>1, <1>5, <2>1 DEF ShopOK
<1>6. ASSUME NEW d \in Deals, CreateDeal(d) PROVE DealEdit /\ DealsOK(deals')
  <2>1. deals' = Append(deals, d) /\ DealEdit BY <1>6 DEF CreateDeal
  <2>2. DealOK(d) BY ShopAssumption
  <2> PICK S : S = R \cup {d} OBVIOUS
  <2>3. deals' \in Seq(S) BY <1>4, <2>1
  <2>4. \A x \in S : DealOK(x) BY <1>4, <2>2
  <2> QED BY <2>1, <2>3, <2>4, DealsEdited
<1>7. ASSUME NEW d \in Deals, NEW n \in DOMAIN deals, UpdateDeal(n, d) PROVE DealEdit /\ DealsOK(deals')
  <2> PICK e : e = [d EXCEPT !.id = deals[n].id] OBVIOUS
  <2>1. deals' = [deals EXCEPT ![n] = e] /\ DealEdit BY <1>7 DEF UpdateDeal
  <2>2. DealOK(e)
    <3>1. DealOK(d) BY ShopAssumption
    <3>2. DOMAIN e = DOMAIN d /\ \A f \in DOMAIN d \ {"id"} : e[f] = d[f] BY Zenon
    <3>3. e.price = d.price /\ e.each = d.each /\ e.pct = d.pct /\ e.amount = d.amount /\ e.slots = d.slots
      BY <3>1, <3>2 DEF DealOK
    <3> QED BY <3>1, <3>2, <3>3 DEF DealOK
  <2> PICK S : S = R \cup {e} OBVIOUS
  <2>3. deals' \in Seq(S)
    <3>1. deals \in Seq(S) /\ e \in S BY <1>4
    <3> QED BY <1>3, <2>1, <3>1
  <2>4. \A x \in S : DealOK(x) BY <1>4, <2>2
  <2> QED BY <2>1, <2>3, <2>4, DealsEdited
<1>8. ASSUME NEW n \in DOMAIN deals, DeleteDeal(n) PROVE DealEdit /\ DealsOK(deals')
  <2>1. deals' = SubSeq(deals, 1, n - 1) \o SubSeq(deals, n + 1, m) /\ DealEdit
    BY <1>8 DEF DeleteDeal, RemoveAt
  <2>2. SubSeq(deals, 1, n - 1) \in Seq(R)
    <3>1. \A k \in 1..n - 1 : deals[k] \in R BY <1>3, <1>4
    <3>2. 1 \in Int /\ n - 1 \in Int BY <1>3
    <3> QED BY <3>1, <3>2, SubSeqProperties
  <2>3. SubSeq(deals, n + 1, m) \in Seq(R)
    <3>1. \A k \in n + 1..m : deals[k] \in R BY <1>3, <1>4
    <3>2. n + 1 \in Int /\ m \in Int BY <1>3
    <3> QED BY <3>1, <3>2, SubSeqProperties
  <2>4. deals' \in Seq(R) BY <2>1, <2>2, <2>3
  <2> QED BY <1>4, <2>1, <2>4, DealsEdited
<1> QED BY <1>2, <1>5, <1>6, <1>7, <1>8 DEF ManagePrices

(* A cart is sent.                                                           *)
LEMMA QuoteKeeps ==
  ASSUME SaleInv, NEW r \in Carts, Quote(r)
  PROVE  PlacingOK'
<1>1. CartOK(r.cart) BY ShopAssumption
<1> PICK e : e = Price(Context(r.kind), r.cart, PriceTime).total OBVIOUS
<1>2. place' = [at |-> "sent", kind |-> r.kind, cart |-> r.cart, promised |-> r.promised, expected |-> e] BY DEF Quote
<1> PICK p : p = place' OBVIOUS
<1>3. p = [at |-> p.at, kind |-> p.kind, cart |-> p.cart, promised |-> p.promised, expected |-> p.expected]
  BY <1>2
<1>4. p.at = "sent" /\ p.cart = r.cart BY <1>2
<1> QED BY <1>1, <1>3, <1>4 DEF PlacingOK

(* The store takes it or not.                                                *)
LEMMA CheckKeeps ==
  ASSUME SaleInv, CheckStore
  PROVE  PlacingOK'
<1>1. place.at = "sent" BY DEF CheckStore
<1>2. /\ place = [at |-> place.at, kind |-> place.kind, cart |-> place.cart,
                  promised |-> place.promised, expected |-> place.expected]
      /\ CartOK(place.cart)
  BY <1>1 DEF SaleInv, PlacingOK, Browsing
<1>3. place' = Browsing \/ place' = [place EXCEPT !.at = "taken"] BY DEF CheckStore, Step
<1>4. CASE place' = Browsing BY <1>4 DEF PlacingOK, Browsing
<1>5. CASE place' = [place EXCEPT !.at = "taken"]
  <2> PICK p, o : p = place' /\ o = place OBVIOUS
  <2>1. p = [at |-> "taken", kind |-> o.kind, cart |-> o.cart, promised |-> o.promised, expected |-> o.expected]
    BY <1>2, <1>5
  <2>2. p = [at |-> p.at, kind |-> p.kind, cart |-> p.cart, promised |-> p.promised, expected |-> p.expected] BY <2>1
  <2>3. p.at = "taken" /\ p.cart = o.cart BY <2>1
  <2> QED BY <1>2, <2>2, <2>3 DEF PlacingOK
<1> QED BY <1>3, <1>4, <1>5

(* It is priced again: what is kept adds up, whatever was edited since.      *)
LEMMA PriceAgainKeeps ==
  ASSUME SaleInv, PriceAgain
  PROVE  PlacingOK'
<1>1. place.at = "taken" BY DEF PriceAgain
<1>2. CartOK(place.cart) BY <1>1 DEF SaleInv, PlacingOK, Browsing
<1> PICK o : o = place OBVIOUS
<1> PICK ctx : ctx = Context(o.kind) OBVIOUS
<1> PICK q : q = Price(ctx, o.cart, PriceTime) OBVIOUS
<1>3. \/ place' = Browsing
      \/ q.errors = {} /\ place' = [at |-> "priced", kind |-> o.kind, cart |-> o.cart, ctx |-> ctx, quote |-> q]
  BY DEF PriceAgain, Step
<1>4. CtxOK(ctx) BY ContextIs DEF SaleInv
<1>5. Adds(ctx, o.cart, q) BY <1>2, <1>4, MoneyIs
<1>6. GroupsOK(ctx.groups) /\ TaxIsFair(ctx, q)
  <2>1. TaxIsFair(ctx, q) BY <1>2, <1>4, PriceIsFair
  <2> QED BY <1>4, <2>1 DEF CtxOK
<1>7. CASE place' = Browsing BY <1>7 DEF PlacingOK, Browsing
<1>8. CASE q.errors = {} /\ place' = [at |-> "priced", kind |-> o.kind, cart |-> o.cart, ctx |-> ctx, quote |-> q]
  <2> PICK p : p = place' OBVIOUS
  <2>1. p = [at |-> p.at, kind |-> p.kind, cart |-> p.cart, ctx |-> p.ctx, quote |-> p.quote] BY <1>8
  <2>2. p.at = "priced" /\ p.cart = o.cart /\ p.ctx = ctx /\ p.quote = q BY <1>8
  <2> QED BY <1>5, <1>6, <1>8, <2>1, <2>2 DEF PlacingOK
<1> QED BY <1>3, <1>7, <1>8

(* The address is checked.                                                   *)
LEMMA CheckedKeeps ==
  ASSUME SaleInv, DeliveryCheck
  PROVE  PlacingOK'
<1> PICK o : o = place OBVIOUS
<1>1. o.at = "priced" BY DEF DeliveryCheck
<1>2. /\ o = [at |-> o.at, kind |-> o.kind, cart |-> o.cart, ctx |-> o.ctx, quote |-> o.quote]
      /\ GroupsOK(o.ctx.groups) /\ o.quote.errors = {} /\ Adds(o.ctx, o.cart, o.quote)
      /\ TaxIsFair(o.ctx, o.quote)
  BY <1>1 DEF SaleInv, PlacingOK, Browsing
<1>3. place' = Browsing \/ place' = [o EXCEPT !.at = "checked"] BY DEF DeliveryCheck, Step
<1>4. CASE place' = Browsing BY <1>4 DEF PlacingOK, Browsing
<1>5. CASE place' = [o EXCEPT !.at = "checked"]
  <2> PICK p : p = place' OBVIOUS
  <2>1. p = [at |-> "checked", kind |-> o.kind, cart |-> o.cart, ctx |-> o.ctx, quote |-> o.quote] BY <1>2, <1>5
  <2>2. p = [at |-> p.at, kind |-> p.kind, cart |-> p.cart, ctx |-> p.ctx, quote |-> p.quote] BY <2>1
  <2>3. p.at = "checked" /\ p.cart = o.cart /\ p.ctx = o.ctx /\ p.quote = o.quote BY <2>1
  <2> QED BY <1>2, <2>2, <2>3 DEF PlacingOK
<1> QED BY <1>3, <1>4, <1>5

(* A menu without a negative price.                                          *)
LEMMA NoNegative ==
  ASSUME NEW groups, GroupsOK(groups),
         \A g \in DOMAIN groups : \A o \in DOMAIN groups[g].opts : ~Negative(groups[g].opts[o])
  PROVE  PricesIn(groups, Nat)
<1>1. SUFFICES ASSUME NEW g \in DOMAIN groups, NEW opts, opts = groups[g].opts
      PROVE  /\ IsFiniteSet(DOMAIN opts)
             /\ \A o \in DOMAIN opts : opts[o].price \in Nat /\ \A z \in DOMAIN opts[o].prices : opts[o].prices[z] \in Nat
  BY DEF PricesIn
<1>2. IsFiniteSet(DOMAIN opts) /\ \A o \in DOMAIN opts : OptionOK(opts[o]) BY <1>1 DEF GroupsOK
<1>3. ASSUME NEW o \in DOMAIN opts, NEW x, x = opts[o]
      PROVE  x.price \in Nat /\ \A z \in DOMAIN x.prices : x.prices[z] \in Nat
  <2>1. OptionOK(x) /\ ~Negative(x) BY <1>1, <1>2, <1>3
  <2>2. x.price \in Int /\ \A z \in DOMAIN x.prices : x.prices[z] \in Int BY <2>1 DEF OptionOK
  <2>3. ~(x.price < 0) /\ \A z \in DOMAIN x.prices : ~(x.prices[z] < 0) BY <2>1 DEF Negative
  <2> QED BY <2>2, <2>3
<1> QED BY <1>2, <1>3

(* The order is built: it reconciles.                                        *)
LEMMA BuildKeeps ==
  ASSUME SaleInv, Build
  PROVE  PlacingOK'
<1> PICK o : o = place OBVIOUS
<1>1. o.at = "checked" BY DEF Build
<1>2. GroupsOK(o.ctx.groups) /\ o.quote.errors = {} /\ Adds(o.ctx, o.cart, o.quote) /\ TaxIsFair(o.ctx, o.quote)
  BY <1>1 DEF SaleInv, PlacingOK, Browsing
<1> PICK m : m = Money(o.ctx, o.cart, o.quote) OBVIOUS
<1> PICK to : to = IF MoneyReconciles(m) THEN "built" ELSE "unbuildable" OBVIOUS
<1>3. place' = [at |-> to, ctx |-> o.ctx, cart |-> o.cart, quote |-> o.quote, money |-> m] BY DEF Build, Step
<1> PICK p : p = place' OBVIOUS
<1>4. p.at = to /\ p.ctx = o.ctx /\ p.quote = o.quote /\ p.money = m BY <1>3
<1>5. ASSUME \A g \in DOMAIN o.ctx.groups : \A x \in DOMAIN o.ctx.groups[g].opts : ~Negative(o.ctx.groups[g].opts[x])
      PROVE  to = "built" /\ m.total = Owed(m)
  <2>1. PricesIn(o.ctx.groups, Nat) BY <1>2, <1>5, NoNegative
  <2>2. m.total \in Int /\ m.total = Owed(m) BY <1>2, <2>1 DEF Adds
  <2>3. m.total - Owed(m) = 0 BY <2>2
  <2>4. MoneyReconciles(m) BY <2>3 DEF MoneyReconciles
  <2> QED BY <2>2, <2>4
<1>6. MoneyAddsUp' BY <1>4, <1>5 DEF MoneyAddsUp
<1>7. p.at \in {"built", "unbuildable"} BY <1>4
<1>8. TaxFollowsFood' BY <1>2, <1>4 DEF TaxFollowsFood
<1> QED BY <1>6, <1>7, <1>8 DEF PlacingOK

(* Every step keeps the invariant.                                           *)
LEMMA SaleInvStays ==
  ASSUME SaleInv, [StorefrontNext]_storefrontVars
  PROVE  SaleInv'
<1>1. ASSUME priceVars' = priceVars, PlacingOK' PROVE SaleInv'
  BY <1>1 DEF SaleInv, priceVars
<1>2. ASSUME place' = place PROVE PlacingOK'
  BY <1>2 DEF SaleInv, PlacingOK, MoneyAddsUp, TaxFollowsFood, Priced
<1>3. CASE StatusNext /\ UNCHANGED <<priceVars, place>> BY <1>1, <1>2, <1>3
<1>4. CASE ManagePrices BY <1>2, <1>4, PricesEdited DEF SaleInv
<1>5. ASSUME NEW to, Step(to) PROVE priceVars' = priceVars BY <1>5 DEF Step
<1>6. ASSUME NEW r \in Carts, Quote(r) PROVE SaleInv'
  <2>1. priceVars' = priceVars BY <1>6 DEF Quote
  <2> QED BY <1>1, <1>6, <2>1, QuoteKeeps
<1>7. CASE CheckStore
  <2>1. priceVars' = priceVars BY <1>5, <1>7 DEF CheckStore
  <2> QED BY <1>1, <1>7, <2>1, CheckKeeps
<1>8. CASE PriceAgain
  <2>1. priceVars' = priceVars BY <1>5, <1>8 DEF PriceAgain
  <2> QED BY <1>1, <1>8, <2>1, PriceAgainKeeps
<1>9. CASE DeliveryCheck
  <2>1. priceVars' = priceVars BY <1>5, <1>9 DEF DeliveryCheck
  <2> QED BY <1>1, <1>9, <2>1, CheckedKeeps
<1>10. CASE Build
  <2>1. priceVars' = priceVars BY <1>5, <1>10 DEF Build
  <2> QED BY <1>1, <1>10, <2>1, BuildKeeps
<1>11. CASE Leave
  <2>1. place' = Browsing /\ priceVars' = priceVars BY <1>11 DEF Leave, Step
  <2> QED BY <1>1, <2>1 DEF PlacingOK, Browsing
<1>12. CASE UNCHANGED storefrontVars
  <2>1. priceVars' = priceVars /\ place' = place BY <1>12 DEF storefrontVars
  <2> QED BY <1>1, <1>2, <2>1
<1> QED BY <1>3, <1>4, <1>6, <1>7, <1>8, <1>9, <1>10, <1>11, <1>12 DEF StorefrontNext, Sell

(* MoneyAddsUp for every menu, every valid settings and deals, every cart    *)
(* and every interleaving of the manager's edits with Place: an order is     *)
(* never refused by build, and its parts add up to the total to the cent.    *)
THEOREM MoneyIsExact == StorefrontSpec => []MoneyAddsUp
<1>1. SaleInv => MoneyAddsUp
  <2> SUFFICES ASSUME SaleInv PROVE MoneyAddsUp OBVIOUS
  <2> QED BY DEF SaleInv, PlacingOK, MoneyAddsUp, Browsing
<1> QED BY <1>1, SaleInvStarts, SaleInvStays, PTL DEF StorefrontSpec

(* TaxFollowsFood for every menu, rates, deals and cart: however the lines   *)
(* mix rates and whatever is taken off, the tax on the food differs from the *)
(* exact one by roundings alone.                                             *)
THEOREM TaxIsExact == StorefrontSpec => []TaxFollowsFood
<1>1. SaleInv => TaxFollowsFood
  <2> SUFFICES ASSUME SaleInv PROVE TaxFollowsFood OBVIOUS
  <2> QED BY DEF SaleInv, PlacingOK, TaxFollowsFood, Priced, Browsing
<1> QED BY <1>1, SaleInvStarts, SaleInvStays, PTL DEF StorefrontSpec

=============================================================================
