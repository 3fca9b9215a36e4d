-------------------------- MODULE MCTicketCheckout --------------------------
(* Instances of TicketCheckout small enough for TLC. *)
EXTENDS TicketCounters

CONSTANTS s1, s2, t1, t2, w1, w2, w3

CartsOf(n)       == [Tiers -> 0 .. n] \ {Nothing}
OrdersBy(rails, coupons, carts) ==
    {[rail |-> r, coupon |-> c, cart |-> k] :
        r \in rails, c \in coupons, k \in carts}

EveryOrder == OrdersBy(Rails, BOOLEAN, {[t \in Tiers |-> 2]})
MomoOrders == OrdersBy({"MOMO"}, {FALSE}, CartsOf(1))
YeboPayOrders == OrdersBy({"YEBOPAY"}, {FALSE}, CartsOf(1))

OneSeat   == [t \in Tiers |-> 1]
TwoSeats  == [t \in Tiers |-> 2]

Upto(n, kinds) == [f \in Faults |-> IF f \in kinds THEN n ELSE 0]
NoFaults    == Upto(0, Faults)
OneOfEach   == Upto(1, Faults)
OneError    == Upto(1, {"error"})
ErrorAndCrash == Upto(1, {"error", "crash"})
OneUncaught == Upto(1, {"uncaught"})
=============================================================================
