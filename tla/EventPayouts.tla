----------------------------- MODULE EventPayouts -----------------------------
(***************************************************************************)
(* Paying an organiser for the sales of one event: the requests of         *)
(* services/eventPayout, each handler a snapshot transaction, next to what *)
(* moves the balance under it: sales, refunds, a reseller's settlement and *)
(* the older payout of a whole period (services/settlement).               *)
(***************************************************************************)
EXTENDS Integers, FiniteSetsExt

CONSTANTS
    EventSales,     \* sales of the event
    SaleTotal,      \* what a buyer pays for one of them
    SaleProceeds,   \* the organiser's part of it
    Requests,       \* payout requests
    Offices         \* transactions in flight

ASSUME PayoutAssumption ==
    /\ IsFiniteSet(EventSales) /\ IsFiniteSet(Requests)
    /\ SaleTotal \in Nat /\ SaleProceeds \in 0..SaleTotal

VARIABLES
    earned,     \* sale rows: who holds the money, what went back to the buyer
    ended,      \* the event is over
    remittance, \* the reseller's settlement of the period
    period,     \* the organiser's payout of the period
    payout,     \* the event's payout requests
    office,     \* what each transaction in flight will write
    inHand      \* history: requests paid, or being paid, when the period's payout
                \* was frozen

payoutVars == <<earned, ended, remittance, period, payout, office, inHand>>

NoSale == [custody |-> "none", refund |-> 0, remitted |-> FALSE]
NoPayout == [status |-> "none", amount |-> 0]
Idle == [op |-> "idle"]
Amounts == Int
Moves == {"approved", "declined", "paid"}

PayoutTypeOK ==
    /\ earned \in [EventSales ->
          [custody : {"none", "carrot", "reseller", "vendor"},
           refund : 0..SaleTotal, remitted : BOOLEAN]]
    /\ ended \in BOOLEAN
    /\ remittance \in {"none", "pending_payment", "stamped", "settled"}
    /\ period \in {"none", "looked", "pending_payment", "settled"}
    /\ payout \in [Requests -> [amount : Amounts,
          status : {"none", "pending"} \cup Moves]]
    /\ office \in [Offices -> {Idle} \cup [op : {"request"}, amount : Amounts]
          \cup [op : {"move"}, id : Requests, to : Moves]]
    /\ inHand \subseteq Requests

PayoutInit ==
    /\ earned = [s \in EventSales |-> NoSale]
    /\ ended = FALSE
    /\ remittance = "none" /\ period = "none"
    /\ payout = [r \in Requests |-> NoPayout]
    /\ office = [o \in Offices |-> Idle]
    /\ inHand = {}

(***************************************************************************)
(* payoutBreakdown: the original fees are kept, the whole refund comes off *)
(* the organiser's proceeds, and the fees on what the organiser collected  *)
(* are set against what Carrot holds.                                      *)
(***************************************************************************)
Active(r) == payout[r].status \in {"pending", "approved"}
Paid == { r \in Requests : payout[r].status = "paid" }
TotalPaid == MapThenSumSet(LAMBDA r : payout[r].amount, Paid)

HeldByCarrot(s) == \/ earned[s].custody = "carrot"
                   \/ earned[s].custody = "reseller" /\ earned[s].remitted
VendorFees == (SaleTotal - SaleProceeds)
                * Cardinality({ s \in EventSales : earned[s].custody = "vendor" })

AvailableBalance ==
    MapThenSumSet(LAMBDA s : SaleProceeds - earned[s].refund,
                  { s \in EventSales : HeldByCarrot(s) })
    - VendorFees - TotalPaid

BeingPaid == { r \in Requests : \E o \in Offices :
                 office[o].op = "move" /\ office[o].id = r /\ office[o].to = "paid" }

LegacyCovered == period \in {"pending_payment", "settled"}
                 /\ \E s \in EventSales : earned[s].custody # "none"

(***************************************************************************)
(* What happens beside the requests.                                       *)
(***************************************************************************)
SellTicket(s, custody) ==
    /\ earned[s].custody = "none"
    /\ earned' = [earned EXCEPT ![s].custody = custody]
    /\ UNCHANGED <<ended, remittance, period, payout, office, inHand>>

RefundTicket(s, back) ==
    /\ earned[s].custody # "none" /\ back > earned[s].refund
    /\ earned' = [earned EXCEPT ![s].refund = back]
    /\ UNCHANGED <<ended, remittance, period, payout, office, inHand>>

EndEvent ==
    /\ ~ended /\ ended' = TRUE
    /\ UNCHANGED <<earned, remittance, period, payout, office, inHand>>

\* The reseller's settlement: a frozen snapshot, a stamp on every sale of the
\* period, then the flip; a retry stamps again.
CloseSettlement ==
    /\ remittance = "none" /\ remittance' = "pending_payment"
    /\ UNCHANGED <<earned, ended, period, payout, office, inHand>>

StampRemitted ==
    /\ remittance \in {"pending_payment", "stamped"}
    /\ remittance' = "stamped"
    /\ earned' = [s \in EventSales |->
          [earned[s] EXCEPT !.remitted = @ \/ earned[s].custody = "reseller"]]
    /\ UNCHANGED <<ended, period, payout, office, inHand>>

FlipSettled ==
    /\ remittance = "stamped" /\ remittance' = "settled"
    /\ UNCHANGED <<earned, ended, period, payout, office, inHand>>

\* The payout of a period: look for another of the period, then freeze, then pay.
\* What the requests of an event were paid is not looked at.
LookForPeriod ==
    /\ period = "none" /\ period' = "looked"
    /\ UNCHANGED <<earned, ended, remittance, payout, office, inHand>>

ClosePeriod ==
    /\ period = "looked" /\ period' = "pending_payment"
    /\ inHand' = Paid \cup BeingPaid
    /\ UNCHANGED <<earned, ended, remittance, payout, office>>

PayPeriod ==
    /\ period = "pending_payment" /\ period' = "settled"
    /\ UNCHANGED <<earned, ended, remittance, payout, office, inHand>>

(***************************************************************************)
(* Requests.  A handler decides on the snapshot it began with; its commit  *)
(* fails only on the request it writes, or on the unique active index.     *)
(***************************************************************************)
BeginRequest(o) ==
    /\ office[o] = Idle
    /\ ended /\ ~LegacyCovered
    /\ \A r \in Requests : ~Active(r)
    /\ AvailableBalance > 0
    /\ office' = [office EXCEPT ![o] = [op |-> "request", amount |-> AvailableBalance]]
    /\ UNCHANGED <<earned, ended, remittance, period, payout, inHand>>

\* No unique index: two requests at a time may be active.
OneActiveUnindexed == TRUE

\* "The database arbitrates simultaneous clicks": one active request an event.
OneActive == \A r \in Requests : ~Active(r)

NewPayout(r) ==
    /\ payout[r].status = "none"
    /\ r = CHOOSE q \in Requests : payout[q].status = "none"

CommitRequest(o, r) ==
    /\ office[o].op = "request"
    /\ NewPayout(r)
    /\ OneActive
    /\ payout' = [payout EXCEPT ![r] = [status |-> "pending", amount |-> office[o].amount]]
    /\ office' = [office EXCEPT ![o] = Idle]
    /\ UNCHANGED <<earned, ended, remittance, period, inHand>>

Allowed(r, to) ==
    CASE to = "approved" -> payout[r].status = "pending"
      [] to = "paid" -> payout[r].status = "approved"
      [] to = "declined" -> Active(r)

\* The live balance is looked at again before money is promised or sent.
StillCovered(r) ==
    /\ AvailableBalance >= payout[r].amount
    /\ ~LegacyCovered /\ ended

BeginMove(o, r, to) ==
    /\ office[o] = Idle
    /\ Allowed(r, to)
    /\ to # "declined" => StillCovered(r)
    /\ office' = [office EXCEPT ![o] = [op |-> "move", id |-> r, to |-> to]]
    /\ UNCHANGED <<earned, ended, remittance, period, payout, inHand>>

\* Another administrator who moves the same request makes this one abort.
CommitMove(o) ==
    /\ office[o].op = "move"
    /\ payout' = [payout EXCEPT ![office[o].id].status = office[o].to]
    /\ office' = [x \in Offices |->
          IF office[x].op = "move" /\ office[x].id = office[o].id
          THEN Idle ELSE office[x]]
    /\ UNCHANGED <<earned, ended, remittance, period, inHand>>

AbandonPayout(o) ==
    /\ office[o] # Idle
    /\ office' = [office EXCEPT ![o] = Idle]
    /\ UNCHANGED <<earned, ended, remittance, period, payout, inHand>>

PayoutNext ==
    \/ \E s \in EventSales :
          \/ \E c \in {"carrot", "reseller", "vendor"} : SellTicket(s, c)
          \/ \E back \in 1..SaleTotal : RefundTicket(s, back)
    \/ EndEvent \/ CloseSettlement \/ StampRemitted \/ FlipSettled
    \/ LookForPeriod \/ ClosePeriod \/ PayPeriod
    \/ \E o \in Offices :
          \/ BeginRequest(o) \/ CommitMove(o) \/ AbandonPayout(o)
          \/ \E r \in Requests :
                CommitRequest(o, r) \/ \E to \in Moves : BeginMove(o, r, to)

PayoutSpec == PayoutInit /\ [][PayoutNext]_payoutVars

(***************************************************************************)
(* What the requests promise.                                              *)
(***************************************************************************)
\* Whatever requests, decisions, refunds and stamps overlap, the requests marked
\* paid never add up to more than the proceeds of the sales whose money Carrot
\* holds; and once the payout of a period covers the event no request is paid any
\* more, but for one whose transaction had begun.
RequestsPaidOnce ==
    /\ TotalPaid <= SaleProceeds
                      * Cardinality({ s \in EventSales : HeldByCarrot(s) })
    /\ LegacyCovered => Paid \subseteq inHand
=============================================================================
