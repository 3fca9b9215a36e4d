--------------------------- MODULE CashlessBooks ---------------------------
(* What the books of CashlessWallet must say at every moment, and what its    *)
(* answers may claim.                                                         *)
EXTENDS CashlessWallet

(* Every document has the shape its schema gives it; balances, cash and stock *)
(* never fall below zero though the updates run without validators.           *)
TypeOK ==
    /\ wallet \in [Wallets -> Purses]
    /\ journal \in [Accounts -> Int]
    /\ topups \subseteq Rows /\ withdrawals \subseteq Rows
    /\ sale \in [TxnIds -> Sales \cup {NoRow}]
    /\ onHand \in Nat /\ delivered \in Int
    /\ payout \in [Payouts -> PayoutRows \cup {NoRow}]
    /\ collection \in [Collections -> CollectionRows \cup {NoRow}]
    /\ ended \in BOOLEAN
    /\ task \in [Desks -> Tasks \cup {NoRow}]
    /\ answer \in [Desks -> Answers]

(* ReconciliationService.checkWalletBalances: a stored balance is what the    *)
(* journal says is owed to the wallet.                                        *)
StoredMatchesJournal == \A w \in Wallets : wallet[w].balance = -journal[w]

(* wallet.model.ts: cashFundedBalance <= balance, which no validator enforces *)
(* on the updates that move both.                                             *)
CashWithinBalance == \A w \in Wallets : wallet[w].cash <= wallet[w].balance

(* A wallet is frozen exactly while one request reserves its whole balance,   *)
(* and once it is closed nothing is left in it: no desk, till or reversal     *)
(* moves reserved money.                                                      *)
FrozenIsReserved == \A w \in Wallets :
    /\ wallet[w].status = "frozen" =>
          \E q \in OpenPayouts(w) : /\ OpenPayouts(w) = {q}
                                    /\ payout[q].amount = wallet[w].balance
    /\ OpenPayouts(w) # {} => wallet[w].status = "frozen"
    /\ wallet[w].status = "closed" => wallet[w].balance = 0

(* The balance is what the statement of getWalletViewByBand adds up to: loads *)
(* less cash-outs less the sales not given back, however often an id was sent.*)
KeptSales(w) == {i \in TxnIds : /\ sale[i] # NoRow /\ sale[i].wallet = w
                                /\ ~sale[i].reversed}
RowsOf(rows, w) == {r \in rows : r.wallet = w}
SumSales(w) == MapThenSumSet(LAMBDA i : sale[i].amount, KeptSales(w))
StatementExplainsBalance == \A w \in Wallets :
    wallet[w].balance =
        Sum(RowsOf(topups, w)) - Sum(RowsOf(withdrawals, w)) - SumSales(w)

(* Cash-funded money never exceeds the cash ever loaded less what kept sales  *)
(* drew from it: a reversal gives back the split the sale recorded, so card   *)
(* money never turns into cash.                                               *)
CashComesFromCash == \A w \in Wallets :
    wallet[w].cash + MapThenSumSet(LAMBDA i : sale[i].cash, KeptSales(w))
        <= Sum({r \in RowsOf(topups, w) : r.via = "cash"})

(* The journal's cash-desk float is the cash the cashiers' report says they   *)
(* hold, together with what the resellers took in.                            *)
Holders == MapThenSumSet(CashOnHand, Cashiers)
DrawersHoldTheFloat ==
    journal["CASH_DESK"] = Holders + Sum(CashRows(topups, "reseller"))

(* Stock on hand is what was delivered less the units of sales whose goods    *)
(* did not come back, and the shelf is never oversold.                        *)
GoneSales == {i \in TxnIds : sale[i] # NoRow /\ ~sale[i].restocked}
StockExplained ==
    onHand = delivered - MapThenSumSet(LAMBDA i : sale[i].qty, GoneSales)

(* A collection is confirmed only out of cash the cashier still holds, though *)
(* the check made when it was asked for may be stale by then.                 *)
CollectionsCovered == [][\A k \in Collections :
    (collection'[k] # collection[k] /\ collection'[k].status = "confirmed")
        => CashOnHand(collection[k].cashier)' >= 0]_vars

Answered(d, a) == task[d] # NoRow /\ answer'[d] = a

(* A till is never told "declined" for a sale that is on record under its id, *)
(* even when the sale that emptied the wallet or the shelf was its own twin.  *)
DeclineIsTrue == [][\A d \in Desks :
    (Answered(d, "declined") /\ task[d].op = "charge")
        => sale'[task[d].id] = NoRow]_vars

(* A desk told "done" has a row under its id that says what it asked for.     *)
DoneIsRecorded == [][\A d \in Desks : Answered(d, "done") =>
    LET t == task[d] IN
    \/ t.op = "topup" /\ \E r \in Under(topups', t) :
                            r.amount = t.amount /\ r.via = t.via
    \/ t.op = "cashout" /\ \E r \in Under(withdrawals', t) : r.amount = t.amount
    \/ t.op = "charge" /\ LET s == sale'[t.id] IN
          s # NoRow /\ s.qty = t.qty /\ s.amount = Total(t)]_vars

(* WalletService.withdrawCash: "Idempotent on {walletId, clientTxnId},        *)
(* including E11000 re-read recovery" - a repeat of a committed cash-out is   *)
(* not told "declined".                                                       *)
CashOutDeclineIsTrue == [][\A d \in Desks :
    (Answered(d, "declined") /\ task[d].op = "cashout")
        => Under(withdrawals', task[d]) = {}]_vars

(* The desks keep what Purse promises the holder: no slip twice, no money     *)
(* in or out of a reserved wallet, every sale given back at most once,        *)
(* whatever was retried, raced or lost.                                       *)
Views == [payer : Wallets, total : Nat, undone : BOOLEAN]
ASSUME ViewAssumption == NoRow \notin Views
SaleView(i) == IF sale[i] = NoRow THEN NoRow
               ELSE [payer |-> sale[i].wallet, total |-> sale[i].amount,
                     undone |-> sale[i].reversed]
Promise == INSTANCE Purse WITH
    Sales <- TxnIds, Unsold <- NoRow,
    balance <- [w \in Wallets |-> wallet[w].balance],
    loads <- topups, outs <- withdrawals,
    standing <- [w \in Wallets |-> wallet[w].status],
    sale <- [i \in TxnIds |-> SaleView(i)]
PurseSpec == Promise!Spec
=============================================================================
