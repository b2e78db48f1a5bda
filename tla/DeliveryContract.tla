--------------------------- MODULE DeliveryContract ---------------------------
(***************************************************************************)
(* What order delivery promises, without streams, outbox or retries: an    *)
(* order is placed once, its store then holds it, and only an order the    *)
(* store holds is confirmed.  Nothing is ever taken back.                  *)
(***************************************************************************)
CONSTANT Orders

VARIABLES placed, held, confirmed

contractVars == <<placed, held, confirmed>>

ContractInit == placed = {} /\ held = {} /\ confirmed = {}

Place(o) ==
  /\ o \notin placed
  /\ placed' = placed \cup {o}
  /\ UNCHANGED <<held, confirmed>>

Hold(o) ==
  /\ o \in placed \ held
  /\ held' = held \cup {o}
  /\ UNCHANGED <<placed, confirmed>>

Confirm(o) ==
  /\ o \in held \ confirmed
  /\ confirmed' = confirmed \cup {o}
  /\ UNCHANGED <<placed, held>>

ContractNext == \E o \in Orders : Place(o) \/ Hold(o) \/ Confirm(o)

ContractSpec == ContractInit /\ [][ContractNext]_contractVars
=============================================================================
