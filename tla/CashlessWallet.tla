--------------------------- MODULE CashlessWallet ---------------------------
(* The closed-loop money of one cashless event: wallets that a band carries   *)
(* around, the journal, top-ups, cash-outs, a stall's charges and their       *)
(* reversal, withdrawal requests after the event, and the cash collected from *)
(* the cashiers.  Sources: services/wallet, merchant, merchantReversal,       *)
(* tagWithdrawal, cashDesk, cashCollection, stock and ledger.                 *)
(*                                                                            *)
(* A Desk is one request in flight.  It looks for a row with its client's     *)
(* transaction id, then runs one database transaction, then, when the unique  *)
(* index refused its row, reads the winner's.  The client may send the same   *)
(* id again, at another desk too.  A transaction is one step: each one writes *)
(* the wallet (or the cashier's lock row) it read, so two of them conflict    *)
(* and the driver runs the loser again on what the winner committed.          *)
EXTENDS Integers, FiniteSetsExt

CONSTANTS
    Wallets, Bands, NoBand,
    Cashiers,
    TxnIds,             \* clientTxnId values
    Desks,              \* requests in flight at a time
    Payouts,            \* TagWithdrawalRequest documents
    Staff,              \* who processes them
    Collections,        \* CashCollection documents
    NoRow,              \* no document under this key
    Amounts,            \* sums a desk keys in, in cents
    Methods,            \* TopupMethod
    Price,              \* of the one counted product a stall sells
    CommissionPercent,  \* of the stall
    Surcharge,          \* Event.purchaseCharge, a fixed sum
    MaxStock            \* bound on the units ever delivered

(* Where the float of a top-up or of a withdrawal sits. *)
TopupTag == [cash |-> "CASH_DESK", card |-> "CARD_DESK",
             deltapay |-> "DELTAPAY_DESK",
             mobile_money |-> "MOBILE_MONEY_DESK"]
FloatTags == {"CASH_DESK", "CARD_DESK", "DELTAPAY_DESK",
              "MOBILE_MONEY_DESK", "COLLECTOR_CASH", "OFFICE"}
Accounts  == Wallets \cup FloatTags \cup {"MERCHANT", "FEES", "ORGANIZER"}

ASSUME CashlessAssumption ==
    /\ NoBand \notin Bands
    /\ TxnIds \cap Payouts = {}
    /\ Amounts \subseteq Nat \ {0} /\ Price \in Nat \ {0}
    /\ CommissionPercent \in 0 .. 100 /\ Surcharge \in Nat
    /\ MaxStock \in Nat
    /\ Methods \subseteq DOMAIN TopupTag
    /\ Wallets \cap (FloatTags \cup {"MERCHANT", "FEES", "ORGANIZER"}) = {}
    /\ Cashiers \cap {"reseller", "office", "till"} = {}

(* The cashiers of an event are a list of its documents. *)
ASSUME CashierAssumption == IsFiniteSet(Cashiers)

Purses == [balance : Nat, cash : Nat, band : Bands \cup {NoBand},
           status : {"active", "frozen", "closed"}]
Purse(n, c, b, s) == [balance |-> n, cash |-> c, band |-> b, status |-> s]

(* WalletTopup and WalletWithdrawal documents. *)
Clerks == Cashiers \cup {"reseller", "office", "till"}
Vias   == Methods \cup {"cash", "office_cash", "payout"}
Rows   == [wallet : Wallets, id : TxnIds \cup Payouts, amount : Nat \ {0},
           via : Vias, by : Clerks]
(* MerchantCharge documents, keyed by clientTxnId at the one stall. *)
Sales  == [wallet : Wallets, band : Bands, amount : Nat \ {0}, net : Nat,
           fee : Nat, extra : Nat, cash : Nat, qty : 0 .. 1,
           reversed : BOOLEAN, restocked : BOOLEAN]
PayoutRows == [wallet : Wallets, amount : Nat \ {0}, by : Staff \cup {"nobody"},
               status : {"pending", "processing", "paid", "rejected"}]
(* "checked": the request passed the check, its document is not there yet. *)
CollectionRows ==
    [cashier : Cashiers, amount : Nat \ {0},
     status : {"checked", "pending", "confirmed", "rejected", "cancelled"}]

(* What a request asks for; a charge is keyed in (qty 0) or one product, and  *)
(* its "via" is the band that was tapped.                                     *)
Task(o, w, i, n, v, b, q, s) ==
    [op |-> o, wallet |-> w, id |-> i, amount |-> n, via |-> v, by |-> b,
     qty |-> q, step |-> s]
Tasks == [op : {"topup", "cashout", "charge"}, wallet : Wallets, id : TxnIds,
          amount : Nat \ {0}, via : Vias \cup Bands,
          by : Clerks, qty : 0 .. 1, step : {"asked", "checked", "raced"}]
ASSUME NoRowAssumption ==
    /\ NoRow \notin Sales /\ NoRow \notin PayoutRows
    /\ NoRow \notin CollectionRows /\ NoRow \notin Tasks
Answers == {"none", "done", "declined", "refused", "mismatch"}

VARIABLES
    wallet,     \* Wallet documents
    journal,    \* sum of the ledger postings to each account
    topups, withdrawals,    \* WalletTopup and WalletWithdrawal documents
    sale,       \* MerchantCharge documents
    onHand,     \* ProductStock.onHand
    delivered,  \* sum of the stock movements that are not sales
    payout,     \* TagWithdrawalRequest documents
    collection, \* CashCollection documents
    ended,      \* Event.endTime is past
    task,       \* requests in flight
    answer      \* the last answer each desk gave

stallVars  == <<sale, onHand, delivered>>
officeVars == <<payout, collection, ended>>
deskVars   == <<task, answer>>
vars == <<wallet, journal, topups, withdrawals, stallVars, officeVars, deskVars>>

Init ==
    /\ wallet = [w \in Wallets |-> Purse(0, 0, NoBand, "active")]
    /\ journal = [a \in Accounts |-> 0]
    /\ topups = {} /\ withdrawals = {}
    /\ sale = [i \in TxnIds |-> NoRow]
    /\ onHand = 0 /\ delivered = 0
    /\ payout = [q \in Payouts |-> NoRow]
    /\ collection = [k \in Collections |-> NoRow]
    /\ ended = FALSE
    /\ task = [d \in Desks |-> NoRow]
    /\ answer = [d \in Desks |-> "none"]

-----------------------------------------------------------------------------
(* Wallets.  Cash is drawn down first and floored at zero.                    *)

DrawnNot(c, n) == c
DrawnBelow(c, n) == c - n
Drawn(c, n) == IF n < c THEN c - n ELSE 0
CanPayFrozen(p, n) == p.status # "closed" /\ p.balance >= n
CanPay(p, n) == p.status = "active" /\ p.balance >= n

Debited(p, n, s) == Purse(p.balance - n, Drawn(p.cash, n), p.band, s)
Credited(p, n, c) == Purse(p.balance + n, p.cash + c, p.band, p.status)
Standing(p, s) == Purse(p.balance, p.cash, p.band, s)
Wearing(p, b) == Purse(p.balance, p.cash, b, p.status)

SetWallet(w, p) == wallet' = [wallet EXCEPT ![w] = p]

(* bindBand's claim: the filter and the unique {eventId, bandUid} index. *)
ClaimBand(w, b) ==
    /\ wallet[w].status = "active" /\ wallet[w].band = NoBand
    /\ \A v \in Wallets : wallet[v].band # b
    /\ SetWallet(w, Wearing(wallet[w], b))
    /\ UNCHANGED <<journal, topups, withdrawals, stallVars, officeVars, deskVars>>

(* unbindBand's release, whatever the status of the wallet. *)
ReleaseBand(w) ==
    /\ wallet[w].band # NoBand
    /\ SetWallet(w, Wearing(wallet[w], NoBand))
    /\ UNCHANGED <<journal, topups, withdrawals, stallVars, officeVars, deskVars>>

-----------------------------------------------------------------------------
(* Requests at the desks.                                                     *)

Row(t) == [wallet |-> t.wallet, id |-> t.id, amount |-> t.amount,
           via |-> t.via, by |-> t.by]
Under(rows, t) == {r \in rows : r.wallet = t.wallet /\ r.id = t.id}

(* What a repeat must agree on with the row recorded under its id. *)
SameTopup(r, t)   == r.amount = t.amount /\ r.via = t.via
SameCashOut(r, t) == r.amount = t.amount
SameSaleAny(s, t) == TRUE
SameSale(s, t)    == s.qty = t.qty /\ (t.qty = 0 => s.amount - s.extra = t.amount)

Answer(d, a) ==
    /\ task' = [task EXCEPT ![d] = NoRow]
    /\ answer' = [answer EXCEPT ![d] = a]
Continue(d, s) ==
    /\ LET t == task[d] IN
       task' = [task EXCEPT ![d] =
                  Task(t.op, t.wallet, t.id, t.amount, t.via, t.by, t.qty, s)]
    /\ UNCHANGED answer
Moved == <<wallet, journal, topups, withdrawals, stallVars, officeVars>>

Ask(d, t) ==
    /\ task[d] = NoRow
    /\ task' = [task EXCEPT ![d] = t]
    /\ answer' = [answer EXCEPT ![d] = "none"]
    /\ UNCHANGED Moved

(* A cashier or a reseller's operator loads money; the wallet was found by    *)
(* its band or by its ticket.                                                 *)
AskTopUp(d) == \E w \in Wallets, i \in TxnIds, n \in Amounts, v \in Methods,
                  b \in Cashiers \cup {"reseller"} :
    Ask(d, Task("topup", w, i, n, v, b, 0, "asked"))

(* A cashier pays out to the band in front of her, the office to a wallet.    *)
AskCashOut(d) == \E w \in Wallets, i \in TxnIds, n \in Amounts :
    \/ /\ wallet[w].band # NoBand
       /\ \E b \in Cashiers : Ask(d, Task("cashout", w, i, n, "cash", b, 0, "asked"))
    \/ Ask(d, Task("cashout", w, i, n, "office_cash", "office", 0, "asked"))

(* A till charges the wallet whose band it read.                              *)
AskCharge(d) == \E w \in Wallets, i \in TxnIds :
    /\ wallet[w].band # NoBand
    /\ \/ \E n \in Amounts :
            Ask(d, Task("charge", w, i, n, wallet[w].band, "till", 0, "asked"))
       \/ Ask(d, Task("charge", w, i, Price, wallet[w].band, "till", 1, "asked"))

(* A repeat is answered from the row recorded under its id: done when it asks *)
(* for the same thing, a conflict when it does not or the sale was reversed.  *)
Replayed(d, same) == Answer(d, IF same THEN "done" ELSE "mismatch")
ReplayRow(d, rows) == \E r \in Under(rows, task[d]) :
    Replayed(d, IF task[d].op = "topup" THEN SameTopup(r, task[d])
                                        ELSE SameCashOut(r, task[d]))
ReplaySale(d) == LET s == sale[task[d].id] IN
    Replayed(d, ~s.reversed /\ SameSale(s, task[d]))

(* A row under this id, as the read before the transaction, the unique index  *)
(* and the read after its refusal all see it.                                 *)
Recorded(t) ==
    \/ t.op = "topup" /\ Under(topups, t) # {}
    \/ t.op = "cashout" /\ Under(withdrawals, t) # {}
    \/ t.op = "charge" /\ sale[t.id] # NoRow
Replay(d) ==
    \/ task[d].op = "topup" /\ ReplayRow(d, topups)
    \/ task[d].op = "cashout" /\ ReplayRow(d, withdrawals)
    \/ task[d].op = "charge" /\ ReplaySale(d)

PreCheck(d) ==
    /\ task[d] # NoRow /\ task[d].step = "asked"
    /\ \/ Recorded(task[d]) /\ Replay(d)
       \/ ~Recorded(task[d]) /\ Continue(d, "checked")
    /\ UNCHANGED Moved

ReadWinner(d) ==
    /\ task[d] # NoRow /\ task[d].step = "raced"
    /\ Replay(d)
    /\ UNCHANGED Moved

(* The process dies, or the answer is lost on the way.                        *)
Abandon(d) ==
    /\ task[d] # NoRow
    /\ Answer(d, "none")
    /\ UNCHANGED Moved

Ready(d, op) == task[d] # NoRow /\ task[d].op = op /\ task[d].step = "checked"

-----------------------------------------------------------------------------
(* The transactions.                                                          *)

(* topUpAtDesk: only cash is cash-funded; an id used before aborts at the     *)
(* unique index.                                                              *)
CommitTopUp(d) == LET t == task[d]  p == wallet[t.wallet] IN
    /\ Ready(d, "topup")
    /\ \/ p.status # "active" /\ Answer(d, "refused") /\ UNCHANGED Moved
       \/ p.status = "active" /\ Recorded(t) /\ Continue(d, "raced") /\ UNCHANGED Moved
       \/ /\ p.status = "active" /\ ~Recorded(t)
          /\ SetWallet(t.wallet, Credited(p, t.amount, IF t.via = "cash" THEN t.amount ELSE 0))
          /\ journal' = [journal EXCEPT ![TopupTag[t.via]] = @ + t.amount,
                                        ![t.wallet] = @ - t.amount]
          /\ topups' = topups \cup {Row(t)}
          /\ Answer(d, "done")
          /\ UNCHANGED <<withdrawals, stallVars, officeVars>>

(* recordWithdrawal, for a desk or for a request of the holder.               *)
FloatTagCash(via) == "CASH_DESK"
FloatTag(via) == IF via = "cash" THEN "CASH_DESK" ELSE "OFFICE"
WithdrawUnposted(r, status) ==
    /\ SetWallet(r.wallet, Debited(wallet[r.wallet], r.amount, status))
    /\ withdrawals' = withdrawals \cup {r} /\ UNCHANGED journal
Withdraw(r, status) ==
    /\ SetWallet(r.wallet, Debited(wallet[r.wallet], r.amount, status))
    /\ journal' = [journal EXCEPT ![r.wallet] = @ + r.amount,
                                  ![FloatTag(r.via)] = @ - r.amount]
    /\ withdrawals' = withdrawals \cup {r}

(* withdrawCash: the balance is looked at before the index can refuse the id. *)
CommitCashOut(d) == LET t == task[d] IN
    /\ Ready(d, "cashout")
    /\ \/ ~CanPay(wallet[t.wallet], t.amount) /\ Answer(d, "declined") /\ UNCHANGED Moved
       \/ /\ CanPay(wallet[t.wallet], t.amount) /\ Recorded(t)
          /\ Continue(d, "raced") /\ UNCHANGED Moved
       \/ /\ CanPay(wallet[t.wallet], t.amount) /\ ~Recorded(t)
          /\ Withdraw(Row(t), "active")
          /\ Answer(d, "done")
          /\ UNCHANGED <<topups, stallVars, officeVars>>

(* charge: the row is looked for again first; the stall or its operator may   *)
(* have been suspended; the wallet, then the stock, may decline the sale; the *)
(* stall gets the price less the floored commission, the organizer the        *)
(* surcharge.                                                                 *)
SeenAgainNever(t) == FALSE
SeenAgain(t) == sale[t.id] # NoRow
Total(t)   == t.amount + Surcharge
Fee(n)     == (n * CommissionPercent) \div 100
CashPartAll(p, n) == n
CashPart(p, n) == IF n < p.cash THEN n ELSE p.cash
SaleOf(t, p) ==
    [wallet |-> t.wallet, band |-> t.via, amount |-> Total(t),
     net |-> t.amount - Fee(t.amount), fee |-> Fee(t.amount),
     extra |-> Surcharge, cash |-> CashPart(p, Total(t)), qty |-> t.qty,
     reversed |-> FALSE, restocked |-> FALSE]
Sold(t, p) ==
    /\ SetWallet(t.wallet, Debited(p, Total(t), "active"))
    /\ journal' = [journal EXCEPT ![t.wallet] = @ + Total(t),
                                  !["MERCHANT"] = @ - (t.amount - Fee(t.amount)),
                                  !["FEES"] = @ - Fee(t.amount),
                                  !["ORGANIZER"] = @ - Surcharge]
    /\ onHand' = onHand - t.qty
    /\ sale' = [sale EXCEPT ![t.id] = SaleOf(t, p)]
CommitCharge(d) == LET t == task[d]  p == wallet[t.wallet] IN
    /\ Ready(d, "charge")
    /\ \/ SeenAgain(t) /\ ReplaySale(d) /\ UNCHANGED Moved
       \/ ~SeenAgain(t) /\ Answer(d, "refused") /\ UNCHANGED Moved
       \/ /\ ~SeenAgain(t) /\ (~CanPay(p, Total(t)) \/ onHand < t.qty)
          /\ Answer(d, "declined") /\ UNCHANGED Moved
       \/ /\ ~SeenAgain(t) /\ CanPay(p, Total(t)) /\ onHand >= t.qty
          /\ Sold(t, p) /\ Answer(d, "done")
          /\ UNCHANGED <<topups, withdrawals, delivered, officeVars>>

(* reverse: the band of the sale is tapped again and its wallet is active;    *)
(* what the sale took from each account goes back, stock only if asked.       *)
ReversibleAgain(s) == TRUE
Reversible(s) == ~s.reversed
GivenBack(s, restock) ==
    [wallet |-> s.wallet, band |-> s.band, amount |-> s.amount, net |-> s.net,
     fee |-> s.fee, extra |-> s.extra, cash |-> s.cash, qty |-> s.qty,
     reversed |-> TRUE, restocked |-> restock]
ReturnedAlways(s, restock) == s.qty
Returned(s, restock) == IF restock THEN s.qty ELSE 0
Reverse(i, restock) == LET s == sale[i]  p == wallet[s.wallet] IN
    /\ s # NoRow /\ Reversible(s)
    /\ p.band = s.band /\ p.status = "active"
    /\ restock => s.qty > 0
    /\ SetWallet(s.wallet, Credited(p, s.amount, s.cash))
    /\ journal' = [journal EXCEPT ![s.wallet] = @ - s.amount,
                                  !["MERCHANT"] = @ + s.net,
                                  !["FEES"] = @ + s.fee,
                                  !["ORGANIZER"] = @ + s.extra]
    /\ sale' = [sale EXCEPT ![i] = GivenBack(s, restock)]
    /\ onHand' = onHand + Returned(s, restock)
    /\ UNCHANGED <<topups, withdrawals, delivered, officeVars, deskVars>>

(* Deliveries, waste and counts: any movement that leaves the stock at zero   *)
(* or more.                                                                   *)
MoveStock(n) ==
    /\ onHand + n >= 0 /\ n # 0 /\ delivered + n <= MaxStock
    /\ onHand' = onHand + n /\ delivered' = delivered + n
    /\ UNCHANGED <<wallet, journal, topups, withdrawals, sale, officeVars, deskVars>>

-----------------------------------------------------------------------------
(* Withdrawal requests.  An administrator may still move the event's end.     *)

MoveEnd ==
    /\ ended' = ~ended
    /\ UNCHANGED <<wallet, journal, topups, withdrawals, stallVars, payout,
                   collection, deskVars>>

Asked(w) == [wallet |-> w, amount |-> wallet[w].balance, by |-> "nobody",
             status |-> "pending"]
Decided(r, s, b) == [wallet |-> r.wallet, amount |-> r.amount, by |-> b,
                     status |-> s]
SetPayout(q, r) == payout' = [payout EXCEPT ![q] = r]

OpenPayouts(w) == {q \in Payouts : /\ payout[q] # NoRow
                                   /\ payout[q].wallet = w
                                   /\ payout[q].status \in {"pending", "processing"}}

(* The whole balance is asked for, and frozen; the unique index allows one    *)
(* open request for a wallet.                                                 *)
RequestPayout(q, w) ==
    /\ payout[q] = NoRow /\ ended
    /\ wallet[w].status = "active" /\ wallet[w].band # NoBand
    /\ wallet[w].balance > 0 /\ OpenPayouts(w) = {}
    /\ SetWallet(w, Standing(wallet[w], "frozen"))
    /\ SetPayout(q, Asked(w))
    /\ UNCHANGED <<journal, topups, withdrawals, stallVars, collection, ended,
                   deskVars>>

TakeOn(q, b) ==
    /\ payout[q] # NoRow /\ payout[q].status = "pending"
    /\ SetPayout(q, Decided(payout[q], "processing", b))
    /\ UNCHANGED <<wallet, journal, topups, withdrawals, stallVars, collection,
                   ended, deskVars>>

Reserved(r) == wallet[r.wallet].status = "frozen" /\ wallet[r.wallet].balance = r.amount
PayOut(q, b) == LET r == payout[q] IN
    /\ r # NoRow /\ r.status = "processing" /\ r.by = b
    /\ Reserved(r) /\ ended
    /\ Withdraw([wallet |-> r.wallet, id |-> q, amount |-> r.amount,
                 via |-> "payout", by |-> "office"], "closed")
    /\ SetPayout(q, Decided(r, "paid", b))
    /\ UNCHANGED <<topups, stallVars, collection, ended, deskVars>>

RejectPayout(q, b) == LET r == payout[q] IN
    /\ r # NoRow
    /\ r.status = "pending" \/ (r.status = "processing" /\ r.by = b)
    /\ Reserved(r)
    /\ SetWallet(r.wallet, Standing(wallet[r.wallet], "active"))
    /\ SetPayout(q, Decided(r, "rejected", r.by))
    /\ UNCHANGED <<journal, topups, withdrawals, stallVars, collection, ended,
                   deskVars>>

-----------------------------------------------------------------------------
(* Cash collections.  CashDeskService.totals: what a cashier holds.           *)

Sum(rows) == MapThenSumSet(LAMBDA r : r.amount, rows)
CashRows(rows, c) == {r \in rows : r.by = c /\ r.via = "cash"}
ConfirmedBy(c) == {k \in Collections : /\ collection[k] # NoRow
                                       /\ collection[k].cashier = c
                                       /\ collection[k].status = "confirmed"}
CashOnHand(c) == Sum(CashRows(topups, c)) - Sum(CashRows(withdrawals, c))
                 - MapThenSumSet(LAMBDA k : collection[k].amount, ConfirmedBy(c))

Collected(k, s) == collection' = [collection EXCEPT ![k] =
    [cashier |-> collection[k].cashier, amount |-> collection[k].amount, status |-> s]]

(* create: what the cashier holds is read before the document is written.     *)
AskCollection(k, c, n) ==
    /\ collection[k] = NoRow /\ n <= CashOnHand(c)
    /\ collection' = [collection EXCEPT ![k] =
                        [cashier |-> c, amount |-> n, status |-> "checked"]]
    /\ UNCHANGED <<wallet, journal, topups, withdrawals, stallVars, payout, ended,
                   deskVars>>
FileCollection(k) ==
    /\ collection[k] # NoRow /\ collection[k].status = "checked"
    /\ Collected(k, "pending")
    /\ UNCHANGED <<wallet, journal, topups, withdrawals, stallVars, payout, ended,
                   deskVars>>

(* resolve: the cashier confirms or rejects, the collector cancels.           *)
HoldsUnchecked(c, n) == TRUE
Holds(c, n) == n <= CashOnHand(c)
Confirm(k) == LET r == collection[k] IN
    /\ r # NoRow /\ r.status = "pending" /\ Holds(r.cashier, r.amount)
    /\ journal' = [journal EXCEPT !["CASH_DESK"] = @ - r.amount,
                                  !["COLLECTOR_CASH"] = @ + r.amount]
    /\ Collected(k, "confirmed")
    /\ UNCHANGED <<wallet, topups, withdrawals, stallVars, payout, ended, deskVars>>
CallOff(k, s) ==
    /\ collection[k] # NoRow /\ collection[k].status = "pending"
    /\ Collected(k, s)
    /\ UNCHANGED <<wallet, journal, topups, withdrawals, stallVars, payout, ended,
                   deskVars>>

-----------------------------------------------------------------------------
DeskStep(d) == AskTopUp(d) \/ AskCashOut(d) \/ AskCharge(d) \/ PreCheck(d)
               \/ CommitTopUp(d) \/ CommitCashOut(d) \/ CommitCharge(d)
               \/ ReadWinner(d) \/ Abandon(d)
BandStep == \E w \in Wallets : ReleaseBand(w) \/ \E b \in Bands : ClaimBand(w, b)
StallStep ==
    \/ \E i \in TxnIds, restock \in BOOLEAN : Reverse(i, restock)
    \/ \E n \in -MaxStock .. MaxStock : MoveStock(n)
OfficeStep ==
    \/ MoveEnd
    \/ \E q \in Payouts, w \in Wallets : RequestPayout(q, w)
    \/ \E q \in Payouts, b \in Staff :
          TakeOn(q, b) \/ PayOut(q, b) \/ RejectPayout(q, b)
CollectionStep == \E k \in Collections :
    \/ \E c \in Cashiers, n \in Amounts : AskCollection(k, c, n)
    \/ FileCollection(k) \/ Confirm(k) \/ CallOff(k, "rejected")
    \/ CallOff(k, "cancelled")

Next == (\E d \in Desks : DeskStep(d)) \/ BandStep \/ StallStep \/ OfficeStep
        \/ CollectionStep

Spec == Init /\ [][Next]_vars
=============================================================================
