---------------------------- MODULE SaleLifecycle ----------------------------
(* What the checkout promises of a sale, with nothing said of holds, provider *)
(* calls, handlers or faults: a sale is completed only when it was paid, its  *)
(* tickets are delivered one by one and never more than the cart holds, a     *)
(* completion may be taken back only while nothing was delivered, and FAILED  *)
(* is the end.                                                                *)
EXTENDS Naturals

CONSTANTS Sales, Tiers

VARIABLES
    cart,       \* tickets ordered, by sale and tier
    final,      \* sales whose provider gives one final answer
    status, tickets, pay
vars == <<cart, final, status, tickets, pay>>

Nothing == [t \in Tiers |-> 0]

Init ==
    /\ cart \in [Sales -> [Tiers -> Nat]]
    /\ final \in SUBSET Sales
    /\ status = [s \in Sales |-> "none"]
    /\ tickets = [s \in Sales |-> Nothing]
    /\ pay = [s \in Sales |-> "none"]

Move(s, from, to) ==
    /\ status[s] = from
    /\ status' = [status EXCEPT ![s] = to]
    /\ UNCHANGED <<cart, final, tickets, pay>>

Create(s)   == Move(s, "none", "PENDING")
Fail(s)     == Move(s, "PENDING", "FAILED")
Complete(s) == pay[s] = "paid" /\ Move(s, "PENDING", "COMPLETED")
(* On a rail that reports failed attempts a report may come after the payment *)
(* and overturn the sale. *)
Overturn(s) == s \notin final /\ Move(s, "COMPLETED", "FAILED")
GiveBack(s) == tickets[s] = Nothing /\ Move(s, "COMPLETED", "PENDING")

Deliver(s, t) ==
    /\ status[s] = "COMPLETED" \/ (s \notin final /\ status[s] = "FAILED")
    /\ tickets[s][t] < cart[s][t]
    /\ tickets' = [tickets EXCEPT ![s][t] = @ + 1]
    /\ UNCHANGED <<cart, final, status, pay>>

(* The provider's answer changes until it is final. *)
Settle(s) ==
    /\ \/ pay[s] = "none" /\ status[s] = "PENDING"
          /\ pay' = [pay EXCEPT ![s] = "open"]
       \/ pay[s] = "open"
          /\ \E p \in {"paid", "mismatch", "declined"} :
               pay' = [pay EXCEPT ![s] = p]
    /\ UNCHANGED <<cart, final, status, tickets>>

Next == \E s \in Sales :
    \/ Create(s) \/ Fail(s) \/ Complete(s) \/ GiveBack(s)
    \/ Overturn(s) \/ Settle(s)
    \/ \E t \in Tiers : Deliver(s, t)

Spec == Init /\ [][Next]_vars
=============================================================================
