--------------------------- MODULE TicketCheckout ---------------------------
(* The asynchronous checkout: a cart becomes a PENDING sale with a hold on    *)
(* inventory, a payment provider is asked to collect, and whoever hears first *)
(* (poll, callback, return page, reconciler) finalizes the sale by claiming   *)
(* it and minting its tickets.  Sources: services/ticket.service.ts,          *)
(* services/reservation.service.ts, services/cart.service.ts.                 *)
(*                                                                            *)
(* A Worker is one asynchronous handler in flight: an HTTP request, a webhook *)
(* or one iteration of a background sweep.  Every `await` of a database or    *)
(* provider call separates two steps, and other workers run in between.       *)
(* Several handlers keep a document they read before an await and save it     *)
(* afterwards; the value they read is in job[w].seen.                         *)
EXTENDS Integers

CONSTANTS
    Sales,      \* TicketSale documents that may be created
    Tiers,      \* ticket types of the one event being sold
    Workers,    \* handlers in flight at a time
    NoSale, NoTier,
    Quantity,   \* ticketTypes[t].quantity
    Orders,     \* what a buyer may ask for
    Budget      \* bound on the faults of each kind in a behaviour

Rails  == {"MOMO", "CARD", "DELTAPAY", "YOCO", "YEBOPAY"}

(* A write fails where the code catches it; a read or a write fails outside   *)
(* the try block of fulfilClaimedSale; a provider's answer is lost; a payment *)
(* outlives maxPendingMs; the process dies.                                   *)
Faults == {"error", "uncaught", "lost", "overdue", "crash"}

(* The rail, whether a coupon is applied, and the quantity of the cart's line *)
(* for each tier (0: no line).                                                *)
Order == [rail : Rails, coupon : BOOLEAN, cart : [Tiers -> Nat]]

ASSUME ConstantsAssumption ==
    /\ NoSale \notin Sales
    /\ NoTier \notin Tiers
    /\ Quantity \in [Tiers -> Nat]
    /\ Orders \subseteq Order
    /\ \A o \in Orders : \E t \in Tiers : o.cart[t] > 0
    /\ Budget \in [Faults -> Nat]

VARIABLES
    order,      \* what the request that creates the sale asks for
    status,     \* TicketSale.paymentStatus ("none": no document yet)
    ref,        \* the provider's reference is saved on the sale
    hold,       \* TicketReservation.status ("none": no document yet)
    lapsed,     \* TicketReservation.expiresAt is past
    reserved,   \* ticketTypes[t].reserved
    sold,       \* ticketTypes[t].sold
    tickets,    \* tickets[s][t]: Ticket documents minted for s in tier t
    linked,     \* TicketSale.ticketIds is not empty
    pay,        \* the payment as the provider knows it
    events,     \* signed webhook payloads the provider has emitted
    job,        \* what each handler is doing, and what it remembers
    spent       \* faults so far

saleVars  == <<order, status, ref, linked>>
stockVars == <<reserved, sold>>
provVars  == <<pay, events>>
vars == <<saleVars, hold, lapsed, stockVars, tickets, provVars, job, spent>>

Lines(s) == {t \in Tiers : order[s].cart[t] > 0}

PCs   == {"idle", "checkout", "adjust", "adjusting", "request", "saveRef",
          "ask", "judge", "claim", "load", "mint", "find", "fail", "abandon",
          "expire", "sell", "selling", "recount", "unclaim"}
Goals == {"none", "reserve", "confirm", "fail", "drop", "abandon", "expire",
          "poll", "reconcile", "success", "mismatch", "rejected"}

Nothing == [t \in Tiers |-> 0]
Task(p, s, g, ts, t, n, m) ==
    [pc |-> p, sale |-> s, goal |-> g, todo |-> ts, tier |-> t, seen |-> n,
     made |-> m]
Idle == Task("idle", NoSale, "none", {}, NoTier, 0, Nothing)
Job  == [pc : PCs, sale : Sales \cup {NoSale}, goal : Goals,
         todo : SUBSET Tiers, tier : Tiers \cup {NoTier}, seen : Nat,
         made : [Tiers -> Nat]]

At(w, p)        == job[w].pc = p
Becomes(w, j)   == job' = [job EXCEPT ![w] = j]
(* w goes on, or starts, with s at p; at p for each tier of ts; it has read   *)
(* the counter n of tier t; it returns.                                       *)
Begin(w, s, p, g)    == Becomes(w, Task(p, s, g, {}, NoTier, 0, Nothing))
Each(w, s, p, g, ts) == Becomes(w, Task(p, s, g, ts, NoTier, 0, Nothing))
Read(w, p, t, n)     == Becomes(w, Task(p, job[w].sale, job[w].goal,
                                        job[w].todo, t, n, Nothing))
Return(w)            == Becomes(w, Idle)
Spend(f)       == /\ spent[f] < Budget[f]
                  /\ spent' = [spent EXCEPT ![f] = @ + 1]

Init ==
    /\ order \in [Sales -> Orders]
    /\ status = [s \in Sales |-> "none"]
    /\ ref = [s \in Sales |-> FALSE]
    /\ linked = [s \in Sales |-> FALSE]
    /\ hold = [s \in Sales |-> "none"]
    /\ lapsed = [s \in Sales |-> FALSE]
    /\ reserved = [t \in Tiers |-> 0]
    /\ sold = [t \in Tiers |-> 0]
    /\ tickets = [s \in Sales |-> Nothing]
    /\ pay = [s \in Sales |-> "none"]
    /\ events = [s \in Sales |-> {}]
    /\ job = [w \in Workers |-> Idle]
    /\ spent = [f \in Faults |-> 0]

-----------------------------------------------------------------------------
(* resolveCart, prepareCheckout and the provider request.                     *)

(* computeAvailable, without its clamp at zero: a line has at least 1. *)
Available(t, n) == sold[t] + reserved[t] + n =< Quantity[t]

ResolveCart(w, s) ==
    /\ At(w, "idle")
    /\ status[s] = "none"
    /\ \A v \in Workers : job[v].sale # s
    /\ \A t \in Lines(s) : Available(t, order[s].cart[t])
    /\ Begin(w, s, "checkout", "reserve")
    /\ UNCHANGED <<saleVars, hold, lapsed, stockVars, tickets, provVars, spent>>

SaveCheckout(w) ==
    LET s == job[w].sale IN
    /\ At(w, "checkout")
    /\ status' = [status EXCEPT ![s] = "PENDING"]
    /\ Each(w, s, "adjust", "reserve", Lines(s))
    /\ UNCHANGED <<order, ref, linked, hold, lapsed, stockVars, tickets, provVars,
                   spent>>

(* adjustReserved reads the whole event and saves it after an await, so two   *)
(* adjustments can read the same counter and one of them is lost.             *)
AdjustRead(w, t) ==
    /\ At(w, "adjust")
    /\ t \in job[w].todo
    /\ Read(w, "adjusting", t, reserved[t])
    /\ UNCHANGED <<saleVars, hold, lapsed, stockVars, tickets, provVars, spent>>

AdjustedUnclamped(seen, n, goal) ==
    IF goal = "reserve" THEN seen + n ELSE seen - n
Adjusted(seen, n, goal) ==
    IF goal = "reserve" THEN seen + n ELSE IF seen >= n THEN seen - n ELSE 0

AdjustSave(w) ==
    LET s == job[w].sale
        t == job[w].tier IN
    /\ At(w, "adjusting")
    /\ reserved' = [reserved EXCEPT
                      ![t] = Adjusted(job[w].seen, order[s].cart[t], job[w].goal)]
    /\ Each(w, s, "adjust", job[w].goal, job[w].todo \ {t})
    /\ UNCHANGED <<saleVars, hold, lapsed, sold, tickets, provVars, spent>>

(* The hold exists only once every line has been added to its counter. *)
CreateHold(w) ==
    /\ At(w, "adjust")
    /\ job[w].goal = "reserve"
    /\ job[w].todo = {}
    /\ hold' = [hold EXCEPT ![job[w].sale] = "held"]
    /\ Begin(w, job[w].sale, "request", "reserve")
    /\ UNCHANGED <<saleVars, lapsed, stockVars, tickets, provVars, spent>>

(* prepareCheckout's catch: the sale fails first, its hold (if it got that    *)
(* far) is released second.                                                   *)
PrepareFails(w) ==
    /\ \/ At(w, "adjusting") /\ job[w].goal = "reserve"
       \/ At(w, "request")
    /\ Spend("error")
    /\ status' = [status EXCEPT ![job[w].sale] = "FAILED"]
    /\ Begin(w, job[w].sale, "find", "drop")
    /\ UNCHANGED <<order, ref, linked, hold, lapsed, stockVars, tickets, provVars>>

OpenPayment(w, r) ==
    LET s == job[w].sale IN
    /\ At(w, "request")
    /\ order[s].rail = r
    /\ pay' = [pay EXCEPT ![s] = "open"]
    /\ Begin(w, s, "saveRef", "reserve")
    /\ UNCHANGED <<saleVars, hold, lapsed, stockVars, tickets, events, spent>>

RequestMomo(w)     == OpenPayment(w, "MOMO")
RequestCard(w)     == OpenPayment(w, "CARD")
RequestDeltapay(w) == OpenPayment(w, "DELTAPAY")
RequestYoco(w)     == OpenPayment(w, "YOCO")
RequestYeboPay(w)  == OpenPayment(w, "YEBOPAY")

SaveRef(w) ==
    /\ At(w, "saveRef")
    /\ ref' = [ref EXCEPT ![job[w].sale] = TRUE]
    /\ Return(w)
    /\ UNCHANGED <<order, status, linked, hold, lapsed, stockVars, tickets, provVars,
                   spent>>

(* failCheckoutInitiation: a coupon sale stays PENDING and reserved, any      *)
(* other is released and failed, whether or not the provider did its part.    *)
FailInitiationAlways(w) == Begin(w, job[w].sale, "find", "fail")
FailInitiation(w) ==
    \/ order[job[w].sale].coupon /\ Return(w)
    \/ ~order[job[w].sale].coupon /\ Begin(w, job[w].sale, "find", "fail")

RequestRefused(w) ==
    /\ At(w, "request")
    /\ FailInitiation(w)
    /\ UNCHANGED <<saleVars, hold, lapsed, stockVars, tickets, provVars, spent>>

(* The provider opened the payment and its answer, or the reference's save,   *)
(* was lost on the way back.                                                  *)
RequestLost(w) ==
    /\ At(w, "request")
    /\ Spend("lost")
    /\ pay' = [pay EXCEPT ![job[w].sale] = "open"]
    /\ FailInitiation(w)
    /\ UNCHANGED <<saleVars, hold, lapsed, stockVars, tickets, events>>

-----------------------------------------------------------------------------
(* The provider and the buyer (external): what src/ relies on.                *)

(* The buyer pays what was asked ("paid") or the provider confirms another    *)
(* amount or currency ("mismatch"); either is final.                          *)
BuyerPays(s) ==
    /\ pay[s] = "open"
    /\ \/ /\ pay' = [pay EXCEPT ![s] = "paid"]
          /\ events' = [events EXCEPT ![s] = @ \cup {"success"}]
       \/ /\ pay' = [pay EXCEPT ![s] = "mismatch"]
          /\ events' = [events EXCEPT ![s] = @ \cup {"mismatch"}]
    /\ UNCHANGED <<saleVars, hold, lapsed, stockVars, tickets, job, spent>>

(* Declined, cancelled or expired at the provider: final, except that Yoco    *)
(* reports a failed attempt while its checkout stays open for another.        *)
ProviderDeclines(s) ==
    /\ pay[s] = "open"
    /\ pay' = IF order[s].rail = "YOCO" THEN pay
              ELSE [pay EXCEPT ![s] = "declined"]
    /\ events' = [events EXCEPT ![s] = @ \cup {"rejected"}]
    /\ UNCHANGED <<saleVars, hold, lapsed, stockVars, tickets, job, spent>>

Answer(s) == CASE pay[s] = "paid"     -> "success"
               [] pay[s] = "mismatch" -> "mismatch"
               [] pay[s] = "declined" -> "rejected"
               [] OTHER               -> "pending"

-----------------------------------------------------------------------------
(* Finalizers.  All return at once unless the sale is PENDING.                *)

Finalizable(s, r) == order[s].rail = r /\ ref[s] /\ status[s] = "PENDING"

(* What a finalizer does with a verdict: claim, release and fail, or return   *)
(* (still pending, ignored, or a mismatch on a coupon sale, which throws).    *)
VerdictTrustsAmount(w, s, answer) ==
    \/ answer \in {"success", "mismatch"} /\ Begin(w, s, "claim", "none")
    \/ answer = "rejected" /\ Begin(w, s, "find", "fail")
    \/ answer = "pending" /\ Return(w)

Verdict(w, s, answer) ==
    \/ answer = "success" /\ Begin(w, s, "claim", "none")
    \/ /\ answer = "rejected" \/ (answer = "mismatch" /\ ~order[s].coupon)
       /\ Begin(w, s, "find", "fail")
    \/ /\ answer = "pending" \/ (answer = "mismatch" /\ order[s].coupon)
       /\ Return(w)

StartAsking(w, s, r, g) ==
    /\ At(w, "idle")
    /\ Finalizable(s, r)
    /\ Begin(w, s, "ask", g)
    /\ UNCHANGED <<saleVars, hold, lapsed, stockVars, tickets, provVars, spent>>

FinalizeMomo(w, s)      == StartAsking(w, s, "MOMO", "poll")
ReconcileMomo(w, s)     == StartAsking(w, s, "MOMO", "reconcile")
FinalizeCard(w, s)      == StartAsking(w, s, "CARD", "poll")
FinalizeDeltapay(w, s)  == StartAsking(w, s, "DELTAPAY", "poll")

(* The provider's status query. *)
Ask(w) ==
    LET s == job[w].sale IN
    /\ At(w, "ask")
    /\ Verdict(w, s, Answer(s))
    /\ UNCHANGED <<saleVars, hold, lapsed, stockVars, tickets, provVars, spent>>

(* The reconciler abandons a MoMo sale still pending past maxPendingMs. *)
GiveUp(w) ==
    LET s == job[w].sale IN
    /\ At(w, "ask")
    /\ job[w].goal = "reconcile"
    /\ Answer(s) = "pending"
    /\ ~order[s].coupon
    /\ Spend("overdue")
    /\ Begin(w, s, "find", "abandon")
    /\ UNCHANGED <<saleVars, hold, lapsed, stockVars, tickets, provVars>>

(* A signed Yoco webhook: the payload is the verdict. *)
FinalizeYoco(w, s, e) ==
    /\ At(w, "idle")
    /\ Finalizable(s, "YOCO")
    /\ e \in events[s]
    /\ Verdict(w, s, e)
    /\ UNCHANGED <<saleVars, hold, lapsed, stockVars, tickets, provVars, spent>>

(* YeboPay: a webhook, the reconciler's poll, or the buyer's return page.     *)
(* The return page passes any status but COMPLETED on as checkout.expired.    *)
HearYeboPay(w, s, a) ==
    /\ At(w, "idle")
    /\ order[s].rail = "YEBOPAY"
    /\ ref[s]
    /\ a # "pending"
    /\ Begin(w, s, "judge", a)
    /\ UNCHANGED <<saleVars, hold, lapsed, stockVars, tickets, provVars, spent>>

WebhookYeboPay(w, s, e)  == e \in events[s] /\ HearYeboPay(w, s, e)
ReconcileYeboPay(w, s)   == status[s] = "PENDING" /\ HearYeboPay(w, s, Answer(s))
ReturnYeboPay(w, s)      ==
    HearYeboPay(w, s, IF Answer(s) \in {"success", "mismatch"}
                      THEN Answer(s) ELSE "rejected")

FinalizeYeboPay(w) ==
    LET s == job[w].sale IN
    /\ At(w, "judge")
    /\ IF Finalizable(s, "YEBOPAY") THEN Verdict(w, s, job[w].goal)
       ELSE Return(w)
    /\ UNCHANGED <<saleVars, hold, lapsed, stockVars, tickets, provVars, spent>>

(* findOneAndUpdate({_id, PENDING} -> COMPLETED): the only exclusion between  *)
(* concurrent finalizers.                                                     *)
ClaimableUnguarded(s) == TRUE
ClaimableAgain(s)     == status[s] # "COMPLETED"
Claimable(s)          == status[s] = "PENDING"

Claim(w) ==
    LET s == job[w].sale IN
    /\ At(w, "claim")
    /\ IF Claimable(s)
       THEN /\ status' = [status EXCEPT ![s] = "COMPLETED"]
            /\ Begin(w, s, "load", "none")
       ELSE /\ Return(w)
            /\ UNCHANGED status
    /\ UNCHANGED <<order, ref, linked, hold, lapsed, stockVars, tickets, provVars,
                   spent>>

-----------------------------------------------------------------------------
(* fulfilClaimedSale, after the event was loaded for the confirmations.       *)

LoadEvent(w) ==
    /\ At(w, "load")
    /\ Begin(w, job[w].sale, "mint", "none")
    /\ UNCHANGED <<saleVars, hold, lapsed, stockVars, tickets, provVars, spent>>

Mint(w, t) ==
    LET s == job[w].sale IN
    /\ At(w, "mint")
    /\ job[w].made[t] < order[s].cart[t]
    /\ tickets' = [tickets EXCEPT ![s][t] = @ + 1]
    /\ Becomes(w, Task("mint", s, "none", {}, NoTier, 0,
                       [job[w].made EXCEPT ![t] = @ + 1]))
    /\ UNCHANGED <<saleVars, hold, lapsed, stockVars, provVars, spent>>

LinkTickets(w) ==
    LET s == job[w].sale IN
    /\ At(w, "mint")
    /\ job[w].made = order[s].cart
    /\ linked' = [linked EXCEPT ![s] = TRUE]
    /\ Begin(w, s, "find", "confirm")
    /\ UNCHANGED <<order, status, ref, hold, lapsed, stockVars, tickets, provVars,
                   spent>>

(* updateTicketsSold, another read-modify-write of the event. *)
SoldRead(w, t) ==
    /\ At(w, "sell")
    /\ t \in job[w].todo
    /\ Read(w, "selling", t, sold[t])
    /\ UNCHANGED <<saleVars, hold, lapsed, stockVars, tickets, provVars, spent>>

SoldSave(w) ==
    LET s == job[w].sale
        t == job[w].tier IN
    /\ At(w, "selling")
    /\ sold' = [sold EXCEPT ![t] = job[w].seen + order[s].cart[t]]
    /\ Each(w, s, "sell", "none", job[w].todo \ {t})
    /\ UNCHANGED <<saleVars, hold, lapsed, reserved, tickets, provVars, spent>>

SoldDone(w) ==
    /\ At(w, "sell")
    /\ job[w].todo = {}
    /\ Return(w)
    /\ UNCHANGED <<saleVars, hold, lapsed, stockVars, tickets, provVars, spent>>

(* A database error anywhere in the try block of fulfilClaimedSale. *)
FulfilFails(w) ==
    /\ \/ job[w].pc \in {"mint", "selling"}
       \/ At(w, "adjusting") /\ job[w].goal = "confirm"
    /\ Spend("error")
    /\ Begin(w, job[w].sale, "recount", "none")
    /\ UNCHANGED <<saleVars, hold, lapsed, stockVars, tickets, provVars>>

(* The event's load, or a query of the catch block, throws: nothing gives the *)
(* claim back.                                                                *)
FinalizeThrows(w) ==
    /\ job[w].pc \in {"load", "recount", "unclaim"}
    /\ Spend("uncaught")
    /\ Return(w)
    /\ UNCHANGED <<saleVars, hold, lapsed, stockVars, tickets, provVars>>

NothingMintedForgotten(s) == TRUE
NothingMintedIgnored(s)   == FALSE
NothingMinted(s)          == tickets[s] = Nothing

Recount(w) ==
    /\ At(w, "recount")
    /\ IF NothingMinted(job[w].sale)
       THEN Begin(w, job[w].sale, "unclaim", "none") ELSE Return(w)
    /\ UNCHANGED <<saleVars, hold, lapsed, stockVars, tickets, provVars, spent>>

(* Nothing minted: the claim goes back to PENDING for the next finalizer. *)
Unclaim(w) ==
    LET s == job[w].sale IN
    /\ At(w, "unclaim")
    /\ status' = IF status[s] = "COMPLETED" /\ ~linked[s]
                 THEN [status EXCEPT ![s] = "PENDING"] ELSE status
    /\ Return(w)
    /\ UNCHANGED <<order, ref, linked, hold, lapsed, stockVars, tickets, provVars,
                   spent>>

-----------------------------------------------------------------------------
(* ReservationService: confirm and release look the hold up and then undo it  *)
(* line by line; the sweep starts from a list of holds it read earlier.       *)

(* What follows once the hold is settled, or was not held any more. *)
Settled(w) ==
    LET s == job[w].sale
        g == job[w].goal IN
    \/ g = "confirm" /\ Each(w, s, "sell", "none", Lines(s))
    \/ g \in {"fail", "abandon", "expire"} /\ Begin(w, s, g, "none")
    \/ g = "drop" /\ Return(w)

FindHold(w) ==
    LET s == job[w].sale IN
    /\ At(w, "find")
    /\ IF hold[s] = "held"
       THEN Each(w, s, "adjust", job[w].goal, Lines(s))
       ELSE Settled(w)
    /\ UNCHANGED <<saleVars, hold, lapsed, stockVars, tickets, provVars, spent>>

SaveHold(w) ==
    LET g == job[w].goal IN
    /\ At(w, "adjust")
    /\ g # "reserve"
    /\ job[w].todo = {}
    /\ hold' = [hold EXCEPT ![job[w].sale] =
                  IF g = "confirm" THEN "confirmed" ELSE "released"]
    /\ Settled(w)
    /\ UNCHANGED <<saleVars, lapsed, stockVars, tickets, provVars, spent>>

(* adjustReserved throws (a concurrent edit of the event, a deleted tier, the *)
(* database): the caller stops with the hold as it was.                       *)
SettleFails(w) ==
    /\ At(w, "adjusting")
    /\ job[w].goal \in {"fail", "drop", "abandon", "expire"}
    /\ Spend("error")
    /\ Return(w)
    /\ UNCHANGED <<saleVars, hold, lapsed, stockVars, tickets, provVars>>

SweepablePendingOnly(s) == hold[s] = "held" /\ lapsed[s] /\ status[s] = "PENDING"
Sweepable(s)            == hold[s] = "held" /\ lapsed[s]

SweepExpired(w, s) ==
    /\ At(w, "idle")
    /\ Sweepable(s)
    /\ Each(w, s, "adjust", "expire", Lines(s))
    /\ UNCHANGED <<saleVars, hold, lapsed, stockVars, tickets, provVars, spent>>

(* `sale.paymentStatus = FAILED; await sale.save()` on a document read before *)
(* the provider was asked: no condition on the stored status.                 *)
FailSale(w) ==
    /\ At(w, "fail")
    /\ status' = [status EXCEPT ![job[w].sale] = "FAILED"]
    /\ Return(w)
    /\ UNCHANGED <<order, ref, linked, hold, lapsed, stockVars, tickets, provVars,
                   spent>>

(* updateOne({_id, PENDING, no coupon} -> FAILED), RECONCILE_TIMEOUT. *)
AbandonSale(w) ==
    LET s == job[w].sale IN
    /\ At(w, "abandon")
    /\ status' = IF status[s] = "PENDING" /\ ~order[s].coupon
                 THEN [status EXCEPT ![s] = "FAILED"] ELSE status
    /\ Return(w)
    /\ UNCHANGED <<order, ref, linked, hold, lapsed, stockVars, tickets, provVars,
                   spent>>

AutoFailsMomo(s) == ~order[s].coupon /\ order[s].rail \notin {"YOCO", "YEBOPAY"}
AutoFails(s) ==
    /\ ~order[s].coupon
    /\ order[s].rail \notin {"YOCO", "YEBOPAY"}
    /\ ~(order[s].rail = "MOMO" /\ ref[s])

ExpireSale(w) ==
    LET s == job[w].sale IN
    /\ At(w, "expire")
    /\ status' = IF status[s] = "PENDING" /\ AutoFails(s)
                 THEN [status EXCEPT ![s] = "FAILED"] ELSE status
    /\ Return(w)
    /\ UNCHANGED <<order, ref, linked, hold, lapsed, stockVars, tickets, provVars,
                   spent>>

(* The TTL of a hold (5 to 15 minutes) passes.  It is longer than the         *)
(* handler that created it runs.                                              *)
Lapse(s) ==
    /\ hold[s] = "held"
    /\ ~lapsed[s]
    /\ \A w \in Workers :
         job[w].sale = s => job[w].pc \notin {"request", "saveRef"}
    /\ lapsed' = [lapsed EXCEPT ![s] = TRUE]
    /\ UNCHANGED <<saleVars, hold, stockVars, tickets, provVars, job, spent>>

(* The process dies: every handler in flight is gone. *)
Crash ==
    /\ \E w \in Workers : ~At(w, "idle")
    /\ Spend("crash")
    /\ job' = [w \in Workers |-> Idle]
    /\ UNCHANGED <<saleVars, hold, lapsed, stockVars, tickets, provVars>>

-----------------------------------------------------------------------------
Checkout(w) ==
    \/ SaveCheckout(w) \/ CreateHold(w) \/ SaveRef(w)
    \/ RequestMomo(w) \/ RequestCard(w) \/ RequestDeltapay(w)
    \/ RequestYoco(w) \/ RequestYeboPay(w)

Adjust(w) == AdjustSave(w) \/ \E t \in Tiers : AdjustRead(w, t)

Finalize(w) == Ask(w) \/ FinalizeYeboPay(w) \/ Claim(w)

Fulfil(w) ==
    \/ LoadEvent(w) \/ LinkTickets(w) \/ SoldSave(w) \/ SoldDone(w) \/ Recount(w) \/ Unclaim(w)
    \/ \E t \in Tiers : Mint(w, t) \/ SoldRead(w, t)

Settle(w) == FindHold(w) \/ SaveHold(w) \/ FailSale(w) \/ AbandonSale(w)
             \/ ExpireSale(w)

(* Steps of a handler in flight. *)
Continue(w) == Checkout(w) \/ Adjust(w) \/ Finalize(w) \/ Fulfil(w) \/ Settle(w)

Fault(w) == RequestRefused(w) \/ RequestLost(w) \/ PrepareFails(w)
            \/ FulfilFails(w) \/ FinalizeThrows(w) \/ SettleFails(w)
            \/ GiveUp(w)

(* The timers of startBackgroundTasks. *)
Timer(w, s) ==
    \/ SweepExpired(w, s)
    \/ ReconcileMomo(w, s) \/ FinalizeCard(w, s) \/ FinalizeDeltapay(w, s)
    \/ ReconcileYeboPay(w, s)

(* Requests from outside. *)
Request(w, s) ==
    \/ ResolveCart(w, s) \/ FinalizeMomo(w, s) \/ ReturnYeboPay(w, s)
    \/ \E e \in events[s] : FinalizeYoco(w, s, e) \/ WebhookYeboPay(w, s, e)

World(s) == BuyerPays(s) \/ ProviderDeclines(s) \/ Lapse(s)

Next ==
    \/ \E w \in Workers :
         Continue(w) \/ Fault(w) \/ \E s \in Sales : Timer(w, s) \/ Request(w, s)
    \/ \E s \in Sales : World(s)
    \/ Crash

Spec == Init /\ [][Next]_vars

(* A handler in flight goes on, and each timer gets its turn for each sale. *)
Fairness ==
    /\ \A w \in Workers : WF_vars(Continue(w))
    /\ \A s \in Sales :
         /\ SF_vars(\E w \in Workers : SweepExpired(w, s))
         /\ SF_vars(\E w \in Workers : ReconcileMomo(w, s))
         /\ SF_vars(\E w \in Workers : FinalizeCard(w, s))
         /\ SF_vars(\E w \in Workers : FinalizeDeltapay(w, s))
         /\ SF_vars(\E w \in Workers : ReconcileYeboPay(w, s))
         /\ WF_vars(Lapse(s))

FairSpec == Spec /\ Fairness

-----------------------------------------------------------------------------
(* Properties.                                                                *)

(* Every variable keeps its type. *)
TypeOK ==
    /\ order \in [Sales -> Orders]
    /\ status \in [Sales -> {"none", "PENDING", "COMPLETED", "FAILED"}]
    /\ ref \in [Sales -> BOOLEAN]
    /\ linked \in [Sales -> BOOLEAN]
    /\ hold \in [Sales -> {"none", "held", "confirmed", "released"}]
    /\ lapsed \in [Sales -> BOOLEAN]
    /\ reserved \in [Tiers -> Nat]
    /\ sold \in [Tiers -> Nat]
    /\ tickets \in [Sales -> [Tiers -> Nat]]
    /\ pay \in [Sales -> {"none", "open", "paid", "mismatch", "declined"}]
    /\ events \in [Sales -> SUBSET {"success", "mismatch", "rejected"}]
    /\ job \in [Workers -> Job]
    /\ spent \in [Faults -> Nat]

(* However many polls, callbacks, return pages and reconcilers finalize a     *)
(* sale at once, and whatever fails or crashes in the middle of a             *)
(* fulfilment, a sale never mints more tickets than its cart holds.           *)
NoDoubleMint == \A s \in Sales, t \in Tiers : tickets[s][t] =< order[s].cart[t]

(* A ticket exists only for a payment the provider confirmed, in the exact    *)
(* amount and currency.                                                       *)
MintedOnlyIfPaid ==
    \A s \in Sales : tickets[s] # Nothing => pay[s] = "paid"

(* "Once a sale is FAILED ... there is no path back for any rail."            *)
FailedIsFinal ==
    [][\A s \in Sales : status[s] = "FAILED" => status'[s] = "FAILED"]_vars

(* A sale that delivered tickets stays COMPLETED on the rails whose provider  *)
(* gives one final answer: neither the give-back of a claim nor a finalizer   *)
(* that saves the FAILED it decided before an await takes it away.            *)
FinalAnswer(s) == order[s].rail \in {"MOMO", "CARD", "DELTAPAY"}
DeliveredStaysCompleted ==
    [][\A s \in Sales :
         /\ FinalAnswer(s)
         /\ status[s] = "COMPLETED"
         /\ tickets[s] # Nothing
         => status'[s] = "COMPLETED"]_vars

Never(faults) == \A f \in faults : spent[f] = 0

(* The carve-out of sweepExpired: a MoMo buyer who was debited is never left  *)
(* with a FAILED sale, whatever the sweep, the finalizers and failing writes  *)
(* do, unless MTN's answer to the request was lost, the process died before   *)
(* the reference was saved, or the sale was abandoned as overdue.             *)
PaidMomoNotFailed ==
    \A s \in Sales :
       /\ order[s].rail = "MOMO"
       /\ pay[s] = "paid"
       /\ Never({"lost", "crash", "overdue"})
       => status[s] # "FAILED"

(* A YeboPay sale that reached the provider fails only on the provider's own  *)
(* verdict.                                                                   *)
YeboPayFailsOnVerdict ==
    \A s \in Sales :
       /\ order[s].rail = "YEBOPAY"
       /\ ref[s]
       /\ status[s] = "FAILED"
       => pay[s] \in {"declined", "mismatch"}

(* "Never unlock a voucher while an external checkout may still collect       *)
(* payment": a voucher is free again when its sale is FAILED.  On the rails   *)
(* with a final answer no lost answer, crash or timeout unlocks it.           *)
CouponStaysLocked ==
    \A s \in Sales :
       /\ order[s].coupon
       /\ FinalAnswer(s)
       /\ pay[s] \in {"open", "paid"}
       => status[s] # "FAILED"

(* The sweep releases every lapsed hold, although handlers throw, and crash   *)
(* between the save of a line and the mark on the hold.                       *)
LapsedHoldReleased ==
    \A s \in Sales : (hold[s] = "held" /\ lapsed[s]) ~> hold[s] # "held"

(* "so the sale can be retried rather than stranded COMPLETED with no         *)
(* tickets": a claim without tickets has a handler that is fulfilling it.     *)
NoStrandedClaim ==
    \A s \in Sales :
       /\ status[s] = "COMPLETED"
       /\ tickets[s] = Nothing
       /\ Never({"crash"})
       => \E w \in Workers : job[w].sale = s

(* A MoMo sale MTN debited is minted, if only by the reconciler, although a   *)
(* fulfilment may fail before it minted anything, unless a handler crashed.   *)
PaidMomoMinted ==
    \A s \in Sales :
       (/\ order[s].rail = "MOMO"
        /\ pay[s] = "paid"
        /\ ref[s]
        /\ status[s] = "PENDING") ~> (tickets[s] # Nothing \/ ~Never({"crash"}))

(* The checkout implements SaleLifecycle. *)
Lifecycle == INSTANCE SaleLifecycle WITH
    cart <- [s \in Sales |-> order[s].cart],
    final <- {s \in Sales : FinalAnswer(s)}
LifecycleSpec == Lifecycle!Spec
=============================================================================
