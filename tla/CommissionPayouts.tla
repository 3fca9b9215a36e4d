-------------------------- MODULE CommissionPayouts --------------------------
(***************************************************************************)
(* A reseller withdraws the commission of sales that Carrot was paid for:  *)
(* services/withdrawal.  Nothing is a transaction; marking one paid stamps *)
(* the sales it covers and flips the request last, so that it can be run   *)
(* again after a crash.  Each sale earns one unit of commission.           *)
(***************************************************************************)
EXTENDS Naturals, FiniteSetsExt

CONSTANTS
    AgentSales,      \* sales by the reseller's operators on Carrot's rails
    Withdrawals,
    Clerks           \* handlers in flight

ASSUME CommissionAssumption == IsFiniteSet(AgentSales) /\ IsFiniteSet(Withdrawals)

VARIABLES
    rung,         \* payment status of the sales
    stamped,      \* sales with commissionWithdrawn
    withdrawal,   \* requests: status, amount, sales sold by their snapshotAt
    covers,       \* history: the sales whose commission each request asks for
    paidBefore,   \* history: the requests that were paid when it was reckoned
    clerk         \* the handler at each clerk

commissionVars == <<rung, stamped, withdrawal, covers, paidBefore, clerk>>

Away == [at |-> "away"]
NoWithdrawal == [status |-> "none", amount |-> 0, upto |-> {}]

CommissionTypeOK ==
    /\ rung \in [AgentSales -> {"none", "pending", "completed"}]
    /\ stamped \subseteq AgentSales
    /\ withdrawal \in [Withdrawals -> [amount : Nat, upto : SUBSET AgentSales,
          status : {"none", "requested", "approved", "paid", "rejected"}]]
    /\ covers \in [Withdrawals -> SUBSET AgentSales]
    /\ paidBefore \in [Withdrawals -> SUBSET Withdrawals]
    /\ clerk \in [Clerks -> {Away} \cup [at : {"reckon"}]
          \cup [at : {"create"}, sales : SUBSET AgentSales, paid : SUBSET Withdrawals]
          \cup [at : {"stamp", "flip"}, w : Withdrawals]]

CommissionInit ==
    /\ rung = [s \in AgentSales |-> "none"]
    /\ stamped = {}
    /\ withdrawal = [w \in Withdrawals |-> NoWithdrawal]
    /\ covers = [w \in Withdrawals |-> {}]
    /\ paidBefore = [w \in Withdrawals |-> {}]
    /\ clerk = [k \in Clerks |-> Away]

Completed == { s \in AgentSales : rung[s] = "completed" }
Available == Completed \ stamped
Open == { w \in Withdrawals : withdrawal[w].status \in {"requested", "approved"} }
PaidOut == { w \in Withdrawals : withdrawal[w].status = "paid" }

ClerkDoes(k, j) == clerk' = [clerk EXCEPT ![k] = j]
SetWithdrawal(w, status) == withdrawal' = [withdrawal EXCEPT ![w].status = status]

RingUp(s, status) ==
    /\ \/ rung[s] = "none"
       \/ rung[s] = "pending" /\ status = "completed"
    /\ rung' = [rung EXCEPT ![s] = status]
    /\ UNCHANGED <<stamped, withdrawal, covers, paidBefore, clerk>>

\* requestWithdrawal: no other is open; the amount; the row.  Three calls, and no
\* index that would refuse a second open request.
LookOpen(k) ==
    /\ clerk[k] = Away /\ Open = {}
    /\ ClerkDoes(k, [at |-> "reckon"])
    /\ UNCHANGED <<rung, stamped, withdrawal, covers, paidBefore>>

Reckon(k) ==
    /\ clerk[k].at = "reckon"
    /\ ClerkDoes(k, IF Available = {} THEN Away
                    ELSE [at |-> "create", sales |-> Available, paid |-> PaidOut])
    /\ UNCHANGED <<rung, stamped, withdrawal, covers, paidBefore>>

Unused(w) == withdrawal[w].status = "none"

CreateWithdrawal(k, w) ==
    /\ clerk[k].at = "create"
    /\ Unused(w) /\ w = CHOOSE v \in Withdrawals : Unused(v)
    /\ withdrawal' = [withdrawal EXCEPT ![w] =
          [status |-> "requested", amount |-> Cardinality(clerk[k].sales),
           upto |-> { s \in AgentSales : rung[s] # "none" }]]
    /\ covers' = [covers EXCEPT ![w] = clerk[k].sales]
    /\ paidBefore' = [paidBefore EXCEPT ![w] = clerk[k].paid]
    /\ ClerkDoes(k, Away)
    /\ UNCHANGED <<rung, stamped>>

Approve(w) ==
    /\ withdrawal[w].status = "requested"
    /\ SetWithdrawal(w, "approved")
    /\ UNCHANGED <<rung, stamped, covers, paidBefore, clerk>>

Reject(w) ==
    /\ w \in Open
    /\ SetWithdrawal(w, "rejected")
    /\ UNCHANGED <<rung, stamped, covers, paidBefore, clerk>>

\* markPaid: neither paid nor rejected, then the stamp, then the flip.
LoadWithdrawal(k, w) ==
    /\ clerk[k] = Away /\ w \in Open
    /\ ClerkDoes(k, [at |-> "stamp", w |-> w])
    /\ UNCHANGED <<rung, stamped, withdrawal, covers, paidBefore>>

\* The flip without the stamp before it.
StampNothing(k) ==
    /\ clerk[k].at = "stamp"
    /\ ClerkDoes(k, [clerk[k] EXCEPT !.at = "flip"])
    /\ UNCHANGED <<rung, stamped, withdrawal, covers, paidBefore>>

StampSales(k) ==
    /\ clerk[k].at = "stamp"
    /\ stamped' = stamped \cup (Completed \cap withdrawal[clerk[k].w].upto)
    /\ ClerkDoes(k, [clerk[k] EXCEPT !.at = "flip"])
    /\ UNCHANGED <<rung, withdrawal, covers, paidBefore>>

\* The filter wants it unpaid; one rejected since it was loaded is paid.
FlipPaid(k) ==
    /\ clerk[k].at = "flip"
    /\ IF clerk[k].w \in PaidOut THEN UNCHANGED withdrawal
                                 ELSE SetWithdrawal(clerk[k].w, "paid")
    /\ ClerkDoes(k, Away)
    /\ UNCHANGED <<rung, stamped, covers, paidBefore>>

ClerkDies(k) ==
    /\ clerk[k] # Away
    /\ ClerkDoes(k, Away)
    /\ UNCHANGED <<rung, stamped, withdrawal, covers, paidBefore>>

CommissionNext ==
    \/ \E s \in AgentSales, status \in {"pending", "completed"} : RingUp(s, status)
    \/ \E w \in Withdrawals : Approve(w) \/ Reject(w)
    \/ \E k \in Clerks :
          \/ LookOpen(k) \/ Reckon(k) \/ StampSales(k) \/ FlipPaid(k) \/ ClerkDies(k)
          \/ \E w \in Withdrawals : CreateWithdrawal(k, w) \/ LoadWithdrawal(k, w)

CommissionSpec == CommissionInit /\ [][CommissionNext]_commissionVars

\* "Crash-safe stamp-then-flip": however handlers overlap, die and are run again,
\* a request is paid for sales that are stamped by then, so that none of them can
\* be requested afterwards: a request reckoned when another was paid never asks
\* for the commission of its sales again.
PaidCommissionIsStamped ==
    \A w \in PaidOut :
        /\ withdrawal[w].amount = Cardinality(covers[w] \cap stamped)
        /\ \A v \in paidBefore[w] : covers[v] \cap covers[w] = {}

\* "One open request at a time."
OneOpenRequest == \A v, w \in Open : v = w
=============================================================================
