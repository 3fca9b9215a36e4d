---------------------------- MODULE TicketCounters ----------------------------
(* What the inventory counters of TicketCheckout should say of its holds and  *)
(* tickets.                                                                   *)
EXTENDS TicketCheckout, FiniteSetsExt

Quiet == \A w \in Workers : At(w, "idle")

Held(t)   == MapThenSumSet(LAMBDA s : order[s].cart[t],
                           {s \in Sales : hold[s] = "held"})
Minted(t) == MapThenSumSet(LAMBDA s : tickets[s][t], Sales)

(* A hold keeps its seats: between handlers, `reserved` is no less than what  *)
(* is held.                                                                   *)
HoldsCovered == Quiet => \A t \in Tiers : reserved[t] >= Held(t)

(* No tier delivers more tickets than it has. *)
NoOversell == \A t \in Tiers : Minted(t) =< Quantity[t]
=============================================================================
