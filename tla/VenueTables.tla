----------------------------- MODULE VenueTables -----------------------------
(***************************************************************************)
(* One table of a venue: rounds sent to the stalls, their handover, lines  *)
(* taken off again, and any number of payments against the running bill    *)
(* (services/venueTable, voidTable and advanceArrayRow of services/table). *)
(* A round r sends at most one line to each stall, of price 1; <<r, m>>    *)
(* names the line and its order row.  A payment reads the bill first and   *)
(* commits a transaction later; every other handler re-checks in the       *)
(* filter of its one write all that it read before.                        *)
(***************************************************************************)
EXTENDS Integers, FiniteSetsExt

CONSTANTS
    Rounds,         \* clientTxnIds of rounds
    BarStalls,
    PaymentIds,     \* clientTxnIds of payments; a retry reuses one
    Tills,          \* payments in flight
    Shelf,          \* what each stall has in stock
    MaxRevision     \* bound: changes of the lines of the table

ASSUME VenueAssumption ==
    /\ IsFiniteSet(Rounds) /\ IsFiniteSet(BarStalls) /\ IsFiniteSet(PaymentIds)
    /\ Shelf \in Nat /\ MaxRevision \in Nat

VARIABLES
    bill,       \* status, subtotal, paidTotal, revision of the table
    lines,      \* items: on the bill? paid for?
    orders,     \* the status of the order row of a line
    onHand,     \* stock of each stall
    payments,   \* VenuePayment rows: what each applied, 0 when there is none
    takings,    \* MerchantCharge rows of the settled table
    till        \* a payment between its reads and its commit

venueVars == <<bill, lines, orders, onHand, payments, takings, till>>

Line == Rounds \X BarStalls
NoTill == [id |-> "none"]
Bill == [status : {"open", "settled", "voided"}, subtotal : Int, paid : Nat, rev : Nat]

VenueTypeOK ==
    /\ bill \in Bill
    /\ lines \in [Line -> {"off", "unpaid", "paid"}]
    /\ orders \in [Line -> {"none", "sent", "handed_out", "collected"}]
    /\ onHand \in [BarStalls -> 0..Shelf]
    /\ payments \in [PaymentIds -> Nat]
    /\ takings \in [BarStalls -> Nat]
    /\ till \in [Tills -> {NoTill}
          \cup [id : PaymentIds, applied : Nat, items : SUBSET Line, seen : Bill,
                shares : [BarStalls -> Nat]]]

VenueInit ==
    /\ bill = [status |-> "open", subtotal |-> 0, paid |-> 0, rev |-> 0]
    /\ lines = [l \in Line |-> "off"]
    /\ orders = [l \in Line |-> "none"]
    /\ onHand = [m \in BarStalls |-> Shelf]
    /\ payments = [p \in PaymentIds |-> 0]
    /\ takings = [m \in BarStalls |-> 0]
    /\ till = [h \in Tills |-> NoTill]

OnBill == { l \in Line : lines[l] # "off" }
Share(m) == Cardinality({ l \in OnBill : l[2] = m })
SentAlready(r) == \E m \in BarStalls : orders[<<r, m>>] # "none"

(***************************************************************************)
(* Rounds.                                                                 *)
(***************************************************************************)
\* One transaction: the lines, the order rows and the stock of every stall.
SendOrder(r, stalls) ==
    /\ bill.status = "open" /\ ~SentAlready(r)
    /\ \A m \in stalls : onHand[m] > 0
    /\ LET sent == {r} \X stalls IN
       /\ lines' = [l \in Line |-> IF l \in sent THEN "unpaid" ELSE lines[l]]
       /\ orders' = [l \in Line |-> IF l \in sent THEN "sent" ELSE orders[l]]
    /\ onHand' = [m \in BarStalls |-> IF m \in stalls THEN onHand[m] - 1 ELSE onHand[m]]
    /\ bill' = [bill EXCEPT !.subtotal = @ + Cardinality(stalls), !.rev = @ + 1]
    /\ UNCHANGED <<payments, takings, till>>

\* handOutOrder and acceptOrder; also after the table was paid for.
AdvanceOrder(l, from, to) ==
    /\ bill.status # "voided" /\ orders[l] = from
    /\ orders' = [orders EXCEPT ![l] = to]
    /\ UNCHANGED <<bill, lines, onHand, payments, takings, till>>

\* A removal may not leave a part-paid bill without a balance to pay.
StrandsPaidBill(worth) == bill.paid > 0 /\ bill.subtotal - worth <= bill.paid

RemoveLine(l) ==
    /\ bill.status = "open"
    /\ lines[l] = "unpaid" /\ orders[l] = "sent"
    /\ ~StrandsPaidBill(1)
    /\ lines' = [lines EXCEPT ![l] = "off"]
    /\ orders' = [orders EXCEPT ![l] = "none"]
    /\ onHand' = [onHand EXCEPT ![l[2]] = @ + 1]
    /\ bill' = [bill EXCEPT !.subtotal = @ - 1, !.rev = @ + 1]
    /\ UNCHANGED <<payments, takings, till>>

(***************************************************************************)
(* Payments: the bill is read, an earlier attempt is looked for, the       *)
(* amount is checked against what was read.                                *)
(***************************************************************************)
StartPay(h, p, applied, items) ==
    /\ till[h] = NoTill /\ payments[p] = 0
    /\ bill.status = "open"
    /\ applied \in 1..(bill.subtotal - bill.paid)
    /\ items \subseteq { l \in Line : lines[l] = "unpaid" }
    /\ items # {} => Cardinality(items) = applied
    /\ till' = [till EXCEPT ![h] =
          [id |-> p, applied |-> applied, items |-> items, seen |-> bill,
           shares |-> [m \in BarStalls |-> Share(m)]]]
    /\ UNCHANGED <<bill, lines, orders, onHand, payments, takings>>

\* The money as it was read, whatever became of the lines.
BillPaidUnchanged(h) ==
    /\ bill.status = "open"
    /\ bill.paid = till[h].seen.paid

\* The bill exactly as it was read.
BillUnchanged(h) ==
    /\ bill.status = "open"
    /\ bill.rev = till[h].seen.rev
    /\ bill.paid = till[h].seen.paid

\* The payment that brings what was read to zero settles the table and writes
\* each stall's charge, from the lines that were read; charges that do not add
\* up to the bill abort it.
CommitPay(h) ==
    /\ till[h] # NoTill /\ BillUnchanged(h)
    /\ LET t == till[h]
           closing == t.seen.paid + t.applied = t.seen.subtotal IN
       /\ payments[t.id] = 0
       /\ closing => MapThenSumSet(LAMBDA m : t.shares[m], BarStalls) = t.seen.subtotal
       /\ payments' = [payments EXCEPT ![t.id] = t.applied]
       /\ lines' = [l \in Line |-> IF l \in t.items THEN "paid" ELSE lines[l]]
       /\ bill' = [bill EXCEPT !.paid = @ + t.applied,
                               !.status = IF closing THEN "settled" ELSE @]
       /\ takings' = IF closing THEN t.shares ELSE takings
    /\ till' = [till EXCEPT ![h] = NoTill]
    /\ UNCHANGED <<orders, onHand>>

\* "the bill changed", a replay of what the same id committed, or a failure:
\* nothing is written.
PayEndsUnwritten(h) ==
    /\ till[h] # NoTill
    /\ till' = [till EXCEPT ![h] = NoTill]
    /\ UNCHANGED <<bill, lines, orders, onHand, payments, takings>>

(***************************************************************************)
(* A waiter cancels an empty table, a manager writes off a walkout.        *)
(***************************************************************************)
CloseUnpaid(mayBeUsed) ==
    /\ bill.status = "open"
    /\ ~mayBeUsed => OnBill = {} /\ bill.paid = 0
    /\ bill' = [bill EXCEPT !.status = "voided"]
    /\ UNCHANGED <<lines, orders, onHand, payments, takings, till>>

CancelEmptyTable == CloseUnpaid(FALSE)
VoidTable == CloseUnpaid(TRUE)

VenueNext ==
    \/ \E r \in Rounds, stalls \in (SUBSET BarStalls) \ {{}} :
          bill.rev < MaxRevision /\ SendOrder(r, stalls)
    \/ \E l \in Line :
          \/ AdvanceOrder(l, "sent", "handed_out")
          \/ AdvanceOrder(l, "handed_out", "collected")
          \/ bill.rev < MaxRevision /\ RemoveLine(l)
    \/ \E h \in Tills :
          \/ \E p \in PaymentIds, n \in 1..Cardinality(Line), items \in SUBSET Line :
                StartPay(h, p, n, items)
          \/ CommitPay(h) \/ PayEndsUnwritten(h)
    \/ CancelEmptyTable \/ VoidTable

VenueSpec == VenueInit /\ [][VenueNext]_venueVars

(***************************************************************************)
(* What the running bill promises.                                         *)
(***************************************************************************)
\* The bill adds up, whatever rounds, removals and payments overlap: the subtotal
\* is the lines, the money is the payments, an open table with money in it still
\* has a balance to pay, and a settled one is paid in full and credits each stall
\* with exactly its own lines.
BillAddsUp ==
    /\ bill.subtotal = Cardinality(OnBill)
    /\ bill.paid = MapThenSumSet(LAMBDA p : payments[p], PaymentIds)
    /\ bill.status = "open" /\ bill.paid > 0 => bill.paid < bill.subtotal
    /\ bill.status = "settled" =>
          /\ bill.paid = bill.subtotal
          /\ \A m \in BarStalls : takings[m] = Share(m)
    /\ bill.status # "settled" => \A m \in BarStalls : takings[m] = 0
    /\ \A m \in BarStalls : onHand[m] + Share(m) = Shelf
=============================================================================
