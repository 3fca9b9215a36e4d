------------------------------ MODULE BoxOffice ------------------------------
(***************************************************************************)
(* Tickets of one tier sold at a till (sellTickets, which the wallet and   *)
(* free rails and the resellers' cash also end in), issued as a wristband  *)
(* batch, refunded (refundTicket) and admitted (checkInTicket).            *)
(*                                                                         *)
(* A sale mints in a transaction but counts what it sold outside of it,    *)
(* with a read and a later save of the event, beside other sellers; a      *)
(* batch does all of it without one, ticket by ticket.  A refund and an    *)
(* admission are transactions: what they read is a snapshot, the write of  *)
(* a document that another has written since, or holds, aborts them.       *)
(***************************************************************************)
EXTENDS Integers, FiniteSetsExt

CONSTANTS
    BoxTickets,
    BoxSales, NoBoxSale,
    TierQuantity,
    BoxDesks        \* handlers in flight

ASSUME BoxAssumption ==
    /\ IsFiniteSet(BoxTickets) /\ NoBoxSale \notin BoxSales
    /\ TierQuantity \in Nat

VARIABLES
    ticket,     \* status, and the sale it belongs to
    boxSale,    \* sale rows: how many tickets, how many refunded
    tierSold,   \* the tier's sold counter on the event
    lost,       \* history: tickets of batches that died before they were counted
    crowd,      \* history: tickets of sales that were made beside another sale
    counterJob, \* the handler at each desk
    entered     \* tickets for which a gate was answered "checked in"

boxVars == <<ticket, boxSale, tierSold, lost, crowd, counterJob, entered>>

EventDoc == "event"
AtRest == [op |-> "none"]
NoSaleRow == [quantity |-> 0, refunded |-> 0]
SellerStages == {"charge", "mint", "row", "link", "read", "save", "commit"}

BoxTypeOK ==
    /\ ticket \in [BoxTickets -> [sale : BoxSales \cup {NoBoxSale},
           status : {"none", "sold", "checked_in", "refunded"}]]
    /\ boxSale \in [BoxSales -> [quantity : Nat, refunded : Nat]]
    /\ tierSold \in Int /\ lost \subseteq BoxTickets
    /\ entered \subseteq BoxTickets /\ crowd \subseteq BoxTickets
    /\ counterJob \in [BoxDesks -> {AtRest}
          \cup [op : {"sell", "batch"}, at : SellerStages,
                sale : BoxSales, tickets : SUBSET BoxTickets, seen : Int]
          \cup [op : {"refund", "checkin"}, at : {"save", "commit"}, t : BoxTickets,
                sold : Int, refunded : Nat]]

BoxInit ==
    /\ ticket = [t \in BoxTickets |-> [sale |-> NoBoxSale, status |-> "none"]]
    /\ boxSale = [s \in BoxSales |-> NoSaleRow]
    /\ tierSold = 0 /\ lost = {} /\ crowd = {} /\ entered = {}
    /\ counterJob = [k \in BoxDesks |-> AtRest]

Does(k, j) == counterJob' = [counterJob EXCEPT ![k] = j]
IsSeller(j) == j.op \in {"sell", "batch"}
SellerAt(k, at) == IsSeller(counterJob[k]) /\ counterJob[k].at = at
GoTo(k, at) == Does(k, [counterJob[k] EXCEPT !.at = at])
Live == { t \in BoxTickets : ticket[t].status \in {"sold", "checked_in"} }

(***************************************************************************)
(* Transactions on tickets, sales and the event.                           *)
(***************************************************************************)
DocsOf(j) ==
    IF j.op = "refund" THEN {j.t, ticket[j.t].sale, EventDoc}
    ELSE IF j.op = "checkin" THEN {j.t} ELSE {}

\* The documents that the other transactions have written and not committed.
Held(k) == UNION { DocsOf(counterJob[x]) :
    x \in { y \in BoxDesks \ {k} : counterJob[y].op \in {"refund", "checkin"}
                                   /\ counterJob[y].at = "commit" } }

\* Reads that are not in the transaction: nobody aborts.
AbortNobody(docs) == counterJob

\* A committed write of docs: a transaction that has read one of them and not
\* written it yet will abort when it does.
AbortReaders(docs) == [x \in BoxDesks |->
    IF DocsOf(counterJob[x]) \cap docs # {} THEN AtRest ELSE counterJob[x]]

(***************************************************************************)
(* Selling.  The ids of the tickets and of the sale are new.               *)
(***************************************************************************)
Reserved == UNION { counterJob[k].tickets \cup {counterJob[k].sale} :
                      k \in { x \in BoxDesks : IsSeller(counterJob[x]) } }
NewIds(ts, s) ==
    LET tickets == { t \in BoxTickets \ Reserved : ticket[t].status = "none" }
        sales == { x \in BoxSales \ Reserved : boxSale[x] = NoSaleRow }
    IN  /\ s \in sales /\ s = CHOOSE x \in sales : TRUE
        /\ ts \subseteq tickets
        /\ ts = CHOOSE q \in SUBSET tickets : Cardinality(q) = Cardinality(ts)

\* Sold beside the sales that other handlers are making.
Crowd(ts) ==
    LET others == { x \in BoxDesks : IsSeller(counterJob[x]) }
    IN  crowd' = IF others = {} THEN crowd
                 ELSE crowd \cup ts \cup UNION { counterJob[x].tickets : x \in others }

StartSale(k, op, s, ts) ==
    /\ counterJob[k] = AtRest
    /\ NewIds(ts, s)
    /\ tierSold + Cardinality(ts) <= TierQuantity
    /\ Does(k, [op |-> op, at |-> IF op = "sell" THEN "charge" ELSE "mint",
                sale |-> s, tickets |-> ts, seen |-> 0])
    /\ Crowd(ts)
    /\ UNCHANGED <<ticket, boxSale, tierSold, lost, entered>>

\* The money is taken before anything is minted.
ChargeBuyer(k) ==
    /\ SellerAt(k, "charge")
    /\ GoTo(k, "read") \/ Does(k, AtRest)
    /\ UNCHANGED <<ticket, boxSale, tierSold, lost, crowd, entered>>

\* A batch: the tickets one by one, the sale's row, the sale on the tickets, each
\* there for all to see at once.
Unminted(j) == { t \in j.tickets : ticket[t].status = "none" }

MintOne(k) ==
    /\ SellerAt(k, "mint")
    /\ LET unminted == Unminted(counterJob[k])
           t == CHOOSE x \in unminted : TRUE
       IN /\ ticket' = [ticket EXCEPT ![t].status = "sold"]
          /\ IF unminted = {t} THEN GoTo(k, "row") ELSE UNCHANGED counterJob
    /\ UNCHANGED <<boxSale, tierSold, lost, crowd, entered>>

SaveRow(k) ==
    /\ SellerAt(k, "row")
    /\ boxSale' = [boxSale EXCEPT ![counterJob[k].sale].quantity
                                     = Cardinality(counterJob[k].tickets)]
    /\ GoTo(k, "link")
    /\ UNCHANGED <<ticket, tierSold, lost, crowd, entered>>

\* It waits for a transaction that holds one of them.
LinkSale(k) ==
    /\ SellerAt(k, "link") /\ counterJob[k].tickets \cap Held(k) = {}
    /\ LET j == counterJob[k] IN
       /\ ticket' = [t \in BoxTickets |->
             IF t \in j.tickets THEN [ticket[t] EXCEPT !.sale = j.sale] ELSE ticket[t]]
       /\ counterJob' = [AbortReaders(j.tickets) EXCEPT ![k] = [j EXCEPT !.at = "read"]]
    /\ UNCHANGED <<boxSale, tierSold, lost, crowd, entered>>

ReadTier(k) ==
    /\ SellerAt(k, "read")
    /\ Does(k, [counterJob[k] EXCEPT !.at = "save", !.seen = tierSold])
    /\ UNCHANGED <<ticket, boxSale, tierSold, lost, crowd, entered>>

\* Not in the transaction: it waits for one that holds the event, then writes
\* over what it did not read.
SaveTier(k) ==
    /\ SellerAt(k, "save") /\ EventDoc \notin Held(k)
    /\ LET j == counterJob[k] IN
       /\ tierSold' = j.seen + Cardinality(j.tickets)
       /\ counterJob' = [AbortReaders({EventDoc}) EXCEPT ![k] =
             IF j.op = "sell" THEN [j EXCEPT !.at = "commit"] ELSE AtRest]
    /\ UNCHANGED <<ticket, boxSale, lost, crowd, entered>>

CommitSale(k) ==
    /\ SellerAt(k, "commit")
    /\ LET j == counterJob[k] IN
       /\ ticket' = [t \in BoxTickets |-> IF t \in j.tickets
                       THEN [sale |-> j.sale, status |-> "sold"] ELSE ticket[t]]
       /\ boxSale' = [boxSale EXCEPT ![j.sale].quantity = Cardinality(j.tickets)]
    /\ Does(k, AtRest)
    /\ UNCHANGED <<tierSold, lost, crowd, entered>>

\* The handler throws or dies: a sale leaves its count behind, a batch leaves
\* tickets that were never counted.
SellerDies(k) ==
    /\ IsSeller(counterJob[k])
    /\ lost' = IF counterJob[k].op = "batch"
               THEN lost \cup (counterJob[k].tickets \ Unminted(counterJob[k])) ELSE lost
    /\ Does(k, AtRest)
    /\ UNCHANGED <<ticket, boxSale, tierSold, crowd, entered>>

(***************************************************************************)
(* Refunds and admissions: read, save, commit.                             *)
(***************************************************************************)
\* "Sale record not found": a ticket of a batch that died before the link.
HasSale(t) == ticket[t].sale # NoBoxSale

BeginTicketTxn(k, op, t) ==
    /\ counterJob[k] = AtRest
    /\ ticket[t].status = "sold"
    /\ op = "refund" => HasSale(t)
    /\ Does(k, [op |-> op, at |-> "save", t |-> t, sold |-> tierSold,
                refunded |-> IF HasSale(t) THEN boxSale[ticket[t].sale].refunded ELSE 0])
    /\ UNCHANGED <<ticket, boxSale, tierSold, lost, crowd, entered>>

InTicketTxn(k, op, at) == counterJob[k].op = op /\ counterJob[k].at = at

\* A document that another transaction has written and not committed is a
\* conflict.
HoldDocs(k) ==
    /\ counterJob[k].op \in {"refund", "checkin"} /\ counterJob[k].at = "save"
    /\ IF DocsOf(counterJob[k]) \cap Held(k) = {} THEN GoTo(k, "commit")
                                                  ELSE Does(k, AtRest)
    /\ UNCHANGED <<ticket, boxSale, tierSold, lost, crowd, entered>>

CommitRefund(k) ==
    /\ InTicketTxn(k, "refund", "commit")
    /\ LET j == counterJob[k] IN
       /\ ticket' = [ticket EXCEPT ![j.t].status = "refunded"]
       /\ boxSale' = [boxSale EXCEPT ![ticket[j.t].sale].refunded = j.refunded + 1]
       /\ tierSold' = j.sold - 1
       /\ counterJob' = [AbortReaders(DocsOf(j)) EXCEPT ![k] = AtRest]
    /\ UNCHANGED <<lost, crowd, entered>>

CommitCheckIn(k) ==
    /\ InTicketTxn(k, "checkin", "commit")
    /\ LET j == counterJob[k] IN
       /\ ticket' = [ticket EXCEPT ![j.t].status = "checked_in"]
       /\ entered' = entered \cup {j.t}
       /\ counterJob' = [AbortReaders({j.t}) EXCEPT ![k] = AtRest]
    /\ UNCHANGED <<boxSale, tierSold, lost, crowd>>

TicketTxnFails(k) ==
    /\ counterJob[k].op \in {"refund", "checkin"}
    /\ Does(k, AtRest)
    /\ UNCHANGED <<ticket, boxSale, tierSold, lost, crowd, entered>>

BoxNext ==
    \E k \in BoxDesks :
        \/ \E op \in {"sell", "batch"}, s \in BoxSales,
              ts \in (SUBSET BoxTickets) \ {{}} : StartSale(k, op, s, ts)
        \/ ChargeBuyer(k) \/ MintOne(k) \/ SaveRow(k) \/ LinkSale(k)
        \/ ReadTier(k) \/ SaveTier(k) \/ CommitSale(k) \/ SellerDies(k)
        \/ \E op \in {"refund", "checkin"}, t \in BoxTickets : BeginTicketTxn(k, op, t)
        \/ HoldDocs(k) \/ CommitRefund(k) \/ CommitCheckIn(k) \/ TicketTxnFails(k)

BoxSpec == BoxInit /\ [][BoxNext]_boxVars

(***************************************************************************)
(* What the counter promises.                                              *)
(***************************************************************************)
\* Admission and money agree, however refunds, scans and sales overlap: nobody
\* who was let in was refunded, a sale's refunded quantity is that of its
\* refunded tickets, and the live tickets pass the places at most by those the
\* counter may have missed: of batches that died, and of sales made beside
\* another sale, which read and save the event over each other.
CounterAddsUp ==
    /\ \A t \in entered : ticket[t].status = "checked_in"
    /\ \A s \in BoxSales :
          boxSale[s].refunded =
             Cardinality({ t \in BoxTickets : ticket[t] = [sale |-> s, status |-> "refunded"] })
    /\ Cardinality(Live) <= TierQuantity + Cardinality(lost \cup crowd)
=============================================================================
