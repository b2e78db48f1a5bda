---------------------------- MODULE OrderPlacement ----------------------------
(***************************************************************************)
(* The order port (app/orderport/service.go Place): a channel's order is   *)
(* looked up by its client_order_id, checked, priced, charged and saved;   *)
(* when saving fails the charge is refunded.  The gateway is the one of    *)
(* domain/payment: it remembers, in memory, charges by idempotency key and *)
(* refunds by the charge's reference; Place also allows for a gateway that *)
(* fails.                                                                  *)
(*                                                                         *)
(* A request is one run of Place.  Requests with the same key overlap: a   *)
(* customer taps twice, a channel retries after a timeout.  Calls to the   *)
(* database and the gateway are steps of their own.                        *)
(*                                                                         *)
(* Faults: failures of the database or the gateway, restarts.              *)
(***************************************************************************)
EXTENDS Naturals, FiniteSets, Faults

CONSTANTS
  Keys,        \* (channel, client_order_id) pairs
  Requests,    \* slots for concurrently running Place calls
  Cash,        \* the keys whose orders are paid in cash; the others by card
  MaxPlaces    \* bound: Place calls in all

ASSUME PlacementAssumption ==
  /\ Cash \subseteq Keys
  /\ MaxPlaces \in Nat

VARIABLES
  req,         \* the requests: their key and where they are in Place
  orders,      \* orders with their channel_orders link: key -> state
  charges,     \* the gateway: charges taken per idempotency key
  refunds,     \* the gateway: refunds made per charge reference
  answers,     \* ghost: what Place has answered for each key
  inserts,     \* ghost: orders rows ever inserted per key
  deletes,     \* ghost: orders rows ever deleted per key
  stranded,    \* ghost: keys with a charge left behind by a failed refund or a
               \* gateway that charged without saying so
  places,      \* ghost: Place calls so far
  crossed,     \* ghost: keys two Place calls had at once
  spoilt       \* ghost: keys whose charge was given back when a save failed

placementVars == <<req, orders, charges, refunds, answers, inserts, deletes, stranded, places, crossed, spoilt, faults>>
gatewayVars == <<charges, refunds>>

Steps == {"lookup", "check", "charge", "create", "refund", "refund_dup", "reread"}
NoRequest == [at |-> "idle"]

PlacementTypeOK ==
  /\ req \in [Requests -> {NoRequest} \cup [at : Steps, key : Keys]]
  /\ orders \in [Keys -> {"none", "saved", "deleted"}]
  /\ charges \in [Keys -> 0..MaxPlaces]
  /\ refunds \in [Keys -> 0..MaxPlaces]
  /\ answers \in [Keys -> SUBSET {"created", "existing", "refused", "error"}]
  /\ inserts \in [Keys -> 0..MaxPlaces]
  /\ deletes \in [Keys -> 0..MaxPlaces]
  /\ stranded \in SUBSET Keys
  /\ places \in 0..MaxPlaces
  /\ crossed \in SUBSET Keys
  /\ spoilt \in SUBSET Keys
  /\ faults \in 0..MaxFaults

PlacementInit ==
  /\ req = [r \in Requests |-> NoRequest]
  /\ orders = [k \in Keys |-> "none"]
  /\ charges = [k \in Keys |-> 0]
  /\ refunds = [k \in Keys |-> 0]
  /\ answers = [k \in Keys |-> {}]
  /\ inserts = [k \in Keys |-> 0]
  /\ deletes = [k \in Keys |-> 0]
  /\ stranded = {}
  /\ places = 0
  /\ crossed = {}
  /\ spoilt = {}
  /\ faults = 0

At(r, step) == req[r] # NoRequest /\ req[r].at = step
Goto(r, step) == req' = [req EXCEPT ![r].at = step] /\ UNCHANGED answers
Answer(r, a) ==
  /\ req' = [req EXCEPT ![r] = NoRequest]
  /\ answers' = [answers EXCEPT ![req[r].key] = @ \cup {a}]

Quiet(k) == \A r \in Requests : req[r] # NoRequest => req[r].key # k

-----------------------------------------------------------------------------
(* A channel calls Place; a request it may not make is refused before      *)
(* anything is read, and changes nothing.                                  *)
Place(r, k) ==
  /\ req[r] = NoRequest
  /\ places < MaxPlaces
  /\ places' = places + 1
  /\ crossed' = IF Quiet(k) THEN crossed ELSE crossed \cup {k}
  /\ req' = [req EXCEPT ![r] = [at |-> "lookup", key |-> k]]
  /\ UNCHANGED <<orders, gatewayVars, answers, inserts, deletes, stranded, spoilt, faults>>

(* Mutant: the client_order_id is not looked up.                           *)
Lookup_None(r) ==
  /\ At(r, "lookup")
  /\ \/ Goto(r, "check") /\ NoFault
     \/ Answer(r, "error") /\ Fault
  /\ UNCHANGED <<orders, gatewayVars, inserts, stranded, deletes, places, crossed, spoilt>>

(* The same key again: the same order.                                     *)
Lookup(r) ==
  /\ At(r, "lookup")
  /\ \/ orders[req[r].key] = "saved" /\ Answer(r, "existing") /\ NoFault
     \/ orders[req[r].key] # "saved" /\ Goto(r, "check") /\ NoFault
     \/ Answer(r, "error") /\ Fault
  /\ UNCHANGED <<orders, gatewayVars, inserts, stranded, deletes, places, crossed, spoilt>>

(* The gateway, the store's status, the prices, the delivery address and a *)
(* first build of the order: any of them may refuse.                       *)
Check(r) ==
  /\ At(r, "check")
  /\ \/ Goto(r, "charge") /\ NoFault
     \/ Answer(r, "refused") /\ NoFault
     \/ Answer(r, "error") /\ Fault
  /\ UNCHANGED <<orders, gatewayVars, inserts, stranded, deletes, places, crossed, spoilt>>

(* Gateway.Charge: a key it has seen returns the charge it made for it;    *)
(* otherwise the card is charged or declined.  Cash charges nothing.       *)
Charged(k) ==
  IF k \in Cash \/ charges[k] # 0 THEN charges ELSE [charges EXCEPT ![k] = @ + 1]

Charge(r) ==
  LET k == req[r].key
      charge == charges' = Charged(k)
  IN  /\ At(r, "charge")
      /\ \/ charge /\ Goto(r, "create") /\ NoFault /\ UNCHANGED stranded
         \/ k \notin Cash /\ charges[k] = 0 /\ Answer(r, "refused") /\ NoFault /\ UNCHANGED <<charges, stranded>>
         \/ Answer(r, "error") /\ Fault /\ UNCHANGED <<charges, stranded>>
         \/ charge /\ Answer(r, "error") /\ Fault /\ stranded' = stranded \cup {k}
      /\ UNCHANGED <<orders, refunds, inserts, deletes, places, crossed, spoilt>>

(* The second build and Orders.Create: one insert per key, a second one is *)
(* ErrDuplicate; any other failure leaves no order, except a commit whose  *)
(* confirmation is lost.                                                   *)
Create_Overwrites(r) ==
  /\ At(r, "create")
  /\ orders' = [orders EXCEPT ![req[r].key] = "saved"]
  /\ inserts' = [inserts EXCEPT ![req[r].key] = @ + 1]
  /\ Answer(r, "created")
  /\ UNCHANGED <<gatewayVars, stranded, deletes, places, crossed, spoilt, faults>>

Create_NoRefund(r) ==
  LET k == req[r].key
  IN  /\ At(r, "create")
      /\ \/ /\ orders[k] # "saved"
            /\ orders' = [orders EXCEPT ![k] = "saved"]
            /\ inserts' = [inserts EXCEPT ![k] = @ + 1]
            /\ Answer(r, "created") /\ NoFault
         \/ /\ Answer(r, "error") /\ Fault
            /\ UNCHANGED <<orders, inserts>>
      /\ UNCHANGED <<gatewayVars, stranded, deletes, places, crossed, spoilt>>

Create(r) ==
  LET k == req[r].key
      insert == /\ orders' = [orders EXCEPT ![k] = "saved"]
                /\ inserts' = [inserts EXCEPT ![k] = @ + 1]
  IN  /\ At(r, "create")
      /\ \/ orders[k] # "saved" /\ insert /\ Answer(r, "created") /\ NoFault
         \/ orders[k] # "saved" /\ insert /\ Goto(r, "refund") /\ Fault
         \/ orders[k] = "saved" /\ Goto(r, "refund_dup") /\ NoFault /\ UNCHANGED <<orders, inserts>>
         \/ Goto(r, "refund") /\ Fault /\ UNCHANGED <<orders, inserts>>
      /\ UNCHANGED <<gatewayVars, stranded, deletes, places, crossed, spoilt>>

(* refund: nothing for cash (no reference); a failed refund is reported to *)
(* the owner, to be made by hand.                                          *)
Refund(r) ==
  LET k == req[r].key
      next == IF req[r].at = "refund_dup" THEN Goto(r, "reread") ELSE Answer(r, "error")
  IN  /\ At(r, "refund") \/ At(r, "refund_dup")
      /\ \/ /\ refunds' = IF k \in Cash THEN refunds ELSE [refunds EXCEPT ![k] = @ + 1]
            /\ spoilt' = IF At(r, "refund") THEN spoilt \cup {k} ELSE spoilt
            /\ UNCHANGED stranded /\ NoFault
         \/ /\ k \notin Cash /\ stranded' = stranded \cup {k}
            /\ UNCHANGED <<refunds, spoilt>> /\ Fault
      /\ next
      /\ UNCHANGED <<orders, charges, inserts, deletes, places, crossed>>

(* The order that got there first is answered, if it is still there.       *)
Reread(r) ==
  /\ At(r, "reread")
  /\ \/ orders[req[r].key] = "saved" /\ Answer(r, "existing") /\ NoFault
     \/ orders[req[r].key] # "saved" /\ Answer(r, "error") /\ NoFault
     \/ Answer(r, "error") /\ Fault
  /\ UNCHANGED <<orders, gatewayVars, inserts, stranded, deletes, places, crossed, spoilt>>

(* Admin deletion: the order and its link go together.                     *)
DeleteOrder(k) ==
  /\ orders[k] = "saved"
  /\ orders' = [orders EXCEPT ![k] = "deleted"]
  /\ deletes' = [deletes EXCEPT ![k] = @ + 1]
  /\ UNCHANGED <<req, gatewayVars, answers, inserts, stranded, places, crossed, spoilt, faults>>

(* main restarts: the running requests are gone, and so is what the        *)
(* gateway of this build kept in memory.                                   *)
MainRestarts ==
  /\ Fault
  /\ req' = [r \in Requests |-> NoRequest]
  /\ charges' = [k \in Keys |-> 0]
  /\ refunds' = [k \in Keys |-> 0]
  /\ stranded' = {}
  /\ spoilt' = {}
  /\ UNCHANGED <<orders, answers, inserts, deletes, places, crossed>>

PlacementNext ==
  \/ \E r \in Requests :
       \/ \E k \in Keys : Place(r, k)
       \/ Lookup(r) \/ Check(r) \/ Charge(r) \/ Create(r) \/ Refund(r) \/ Reread(r)
  \/ \E k \in Keys : DeleteOrder(k)
  \/ MainRestarts

PlacementSpec == PlacementInit /\ [][PlacementNext]_placementVars

-----------------------------------------------------------------------------
(* Placing is idempotent on client_order_id ("the same order comes back"): *)
(* however requests with one key race, fail and are repeated, a second     *)
(* order is only inserted after an admin deleted the first, and "created"  *)
(* or "existing" is only answered for an order that was saved.             *)
PlacedOnce ==
  \A k \in Keys :
    /\ inserts[k] <= 1 + deletes[k]
    /\ answers[k] \cap {"created", "existing"} # {} => inserts[k] > 0

(* No money is kept for an order that was never saved: once no request     *)
(* with the key is running, its charge has been refunded, unless the       *)
(* refund failed (and was reported to the owner) or the charge was not     *)
(* confirmed.                                                              *)
MoneyBack ==
  \A k \in Keys :
    Quiet(k) /\ charges[k] > 0 /\ inserts[k] = 0 /\ k \notin stranded => refunds[k] > 0

(* A card order that is saved has its money: through declines, failures at *)
(* any step, lost confirmations, retries one after the other, deletions    *)
(* and placing it again, no step gives back the charge a saved order rests *)
(* on.  Two exceptions, which the code has: two calls with one key at once *)
(* (the one that meets the duplicate refunds the charge they share), and a *)
(* charge given back because a save failed, which the gateway remembers    *)
(* and returns to a retry as captured (spoilt).                            *)
PaidStaysPaid ==
  \A k \in Keys \ Cash : orders[k] = "saved" /\ k \notin crossed \cup spoilt => refunds[k] = 0

=============================================================================
