--------------------------- MODULE ChainOfCustody ---------------------------
(***************************************************************************)
(* What the fulfillment of an order promises about its goods: they are     *)
(* with one party at a time, they leave the merchant into a rider's hands, *)
(* pass from rider to rider, and end with the customer or back with the    *)
(* merchant; each change of hands is on record at the moment it happens    *)
(* and nothing else moves them.  An order may be cancelled while its goods *)
(* are still in the shop.                                                  *)
(***************************************************************************)
EXTENDS Sequences

CONSTANTS Rider, Merchant, Customer

VARIABLES
  holder,   \* who has the goods
  phase,    \* "shop", "road" or "done"
  trail     \* who received them, in order

chain == <<holder, phase, trail>>

Init ==
  /\ holder = Merchant
  /\ phase = "shop"
  /\ trail = <<>>

HandOver(p) ==
  /\ holder' = p
  /\ trail' = Append(trail, p)

PickUp(r) == phase = "shop" /\ phase' = "road" /\ HandOver(r)

Transfer(r) == phase = "road" /\ r # holder /\ HandOver(r) /\ UNCHANGED phase

(* Delivered to the customer or returned to the merchant.                  *)
Finish == /\ phase = "road"
          /\ phase' = "done"
          /\ HandOver(Customer) \/ HandOver(Merchant)

Cancel == phase = "shop" /\ phase' = "done" /\ UNCHANGED <<holder, trail>>

Next ==
  \/ \E r \in Rider : PickUp(r) \/ Transfer(r)
  \/ Finish
  \/ Cancel

Spec == Init /\ [][Next]_chain
=============================================================================
