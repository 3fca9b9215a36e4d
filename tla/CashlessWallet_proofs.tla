----------------------- MODULE CashlessWallet_proofs -----------------------
(* Theorems about CashlessWallet for any number of wallets, desks, requests   *)
(* and collections, and for every price, commission and surcharge: the state  *)
(* of the wallets and their journal, then what the desks answer, and that     *)
(* together they keep the promise to the holder, whatever was retried, raced  *)
(* or lost.                                                                   *)
EXTENDS CashlessBooks, TLAPS

-----------------------------------------------------------------------------
(* The inductive invariant.                                                   *)

BookTypes ==
    /\ wallet \in [Wallets -> Purses]
    /\ journal \in [Accounts -> Int]
    /\ topups \subseteq Rows /\ withdrawals \subseteq Rows
    /\ sale \in [TxnIds -> Sales \cup {NoRow}]
    /\ payout \in [Payouts -> PayoutRows \cup {NoRow}]

OtherTypes ==
    /\ onHand \in Nat /\ delivered \in Int
    /\ collection \in [Collections -> CollectionRows \cup {NoRow}]
    /\ ended \in BOOLEAN

(* What a request carries depends on what it asks for; it has no answer yet,  *)
(* and only the unique index of a top-up or a cash-out sends it to the winner;*)
(* cash is handled by a cashier or, coming in, by a reseller.                 *)
Shaped(t) ==
    /\ t \in Tasks
    /\ t.op = "topup" => t.via \in Methods
    /\ t.op = "cashout" => t.via \in {"cash", "office_cash"}
    /\ t.op = "charge" => t.via \in Bands
    /\ t.op = "topup" => t.by \in Cashiers \cup {"reseller"}
    /\ t.op = "cashout" /\ t.via = "cash" => t.by \in Cashiers
    /\ t.qty = 1 => t.amount = Price

DeskTypes ==
    /\ task \in [Desks -> Tasks \cup {NoRow}]
    /\ answer \in [Desks -> Answers]
    /\ \A d \in Desks : task[d] # NoRow =>
          /\ Shaped(task[d]) /\ answer[d] = "none"
          /\ task[d].step = "raced" => task[d].op # "charge"

(* A sale took no more cash than it cost, and its parts add up. *)
SplitRight(s) ==
    /\ s.cash <= s.amount /\ s.amount = s.net + s.fee + s.extra
    /\ s.extra = Surcharge
    /\ s.qty = 1 => s.amount = Price + Surcharge
SalesSplit == \A i \in TxnIds : sale[i] # NoRow => SplitRight(sale[i])

(* The slip of a holder's request is there only once the request is paid. *)
SlipsPaid == \A r \in withdrawals : r.id \in Payouts =>
                payout[r.id] # NoRow /\ payout[r.id].status = "paid"

Typed == BookTypes /\ OtherTypes /\ DeskTypes /\ SalesSplit

Books == StoredMatchesJournal /\ CashWithinBalance /\ FrozenIsReserved /\ SlipsPaid

-----------------------------------------------------------------------------
(* The operators.                                                             *)

LEMMA FeeBound ==
    ASSUME NEW n \in Nat
    PROVE  Fee(n) \in 0 .. n
<1>1. CommissionPercent \in 0 .. 100  BY CashlessAssumption
<1>2. n * CommissionPercent \in Nat  BY <1>1
<1>3. n * CommissionPercent <= 100 * n  BY <1>1
<1> QED  BY <1>2, <1>3 DEF Fee

(* Money taken leaves a purse with no less than nothing, money given with     *)
(* more.                                                                      *)
LEMMA DebitedPurse ==
    ASSUME NEW p \in Purses, NEW n \in Nat, n <= p.balance,
           NEW s \in {"active", "frozen", "closed"}
    PROVE  /\ Debited(p, n, s) \in Purses
           /\ Debited(p, n, s).balance = p.balance - n
           /\ Debited(p, n, s).status = s
           /\ p.cash <= p.balance => Debited(p, n, s).cash <= p.balance - n
BY DEF Debited, Drawn, Purse, Purses

LEMMA CreditedPurse ==
    ASSUME NEW p \in Purses, NEW n \in Nat, NEW c \in Nat
    PROVE  /\ Credited(p, n, c) \in Purses
           /\ Credited(p, n, c).balance = p.balance + n
           /\ Credited(p, n, c).cash = p.cash + c
           /\ Credited(p, n, c).status = p.status
BY DEF Credited, Purse, Purses

LEMMA OtherPurse ==
    ASSUME NEW p \in Purses, NEW s \in {"active", "frozen", "closed"},
           NEW b \in Bands \cup {NoBand}
    PROVE  /\ Standing(p, s) \in Purses /\ Wearing(p, b) \in Purses
           /\ Standing(p, s).balance = p.balance
           /\ Standing(p, s).cash = p.cash
           /\ Standing(p, s).status = s
           /\ Wearing(p, b).balance = p.balance
           /\ Wearing(p, b).cash = p.cash
           /\ Wearing(p, b).status = p.status
BY DEF Standing, Wearing, Purse, Purses

(* What a till writes for a request it accepts. *)
LEMMA NewSale ==
    ASSUME NEW t, Shaped(t), t.op = "charge", NEW p \in Purses
    PROVE  /\ SaleOf(t, p) \in Sales /\ SplitRight(SaleOf(t, p))
           /\ SaleOf(t, p).amount = Total(t) /\ Total(t) \in Nat \ {0}
           /\ SaleOf(t, p).wallet = t.wallet /\ ~SaleOf(t, p).reversed
           /\ SaleOf(t, p).qty = t.qty
<1>1. /\ t.amount \in Nat \ {0} /\ t.qty \in 0 .. 1 /\ t.wallet \in Wallets
      /\ t.via \in Bands
      /\ t.qty = 1 => t.amount = Price
  BY DEF Shaped, Tasks
<1>2. Fee(t.amount) \in 0 .. t.amount  BY <1>1, FeeBound
<1>3. Surcharge \in Nat  BY CashlessAssumption
<1>4. Total(t) \in Nat \ {0} /\ Total(t) = t.amount + Surcharge
  BY <1>1, <1>3 DEF Total
<1>5. CashPart(p, Total(t)) \in Nat /\ CashPart(p, Total(t)) <= Total(t)
  BY <1>4 DEF CashPart, Purses
<1>6. SaleOf(t, p) \in Sales
  <2>1. t.amount - Fee(t.amount) \in Nat /\ Fee(t.amount) \in Nat  BY <1>1, <1>2
  <2> QED  BY <1>1, <1>3, <1>4, <1>5, <2>1 DEF SaleOf, Sales
<1>7. SplitRight(SaleOf(t, p))
  <2>1. Total(t) = (t.amount - Fee(t.amount)) + Fee(t.amount) + Surcharge
    BY <1>1, <1>2, <1>3, <1>4
  <2>2. t.qty = 1 => Total(t) = Price + Surcharge  BY <1>1, <1>4
  <2>3. CashPart(p, Total(t)) <= Total(t)  BY <1>5
  <2> DEFINE s == SaleOf(t, p)
  <2>4. /\ s.cash = CashPart(p, Total(t)) /\ s.amount = Total(t)
        /\ s.net = t.amount - Fee(t.amount) /\ s.fee = Fee(t.amount)
        /\ s.extra = Surcharge /\ s.qty = t.qty
    BY DEF SaleOf
  <2> HIDE DEF s
  <2>5. SplitRight(s)  BY <2>1, <2>2, <2>3, <2>4 DEF SplitRight
  <2> QED  BY <2>5 DEF s
<1> QED  BY <1>4, <1>6, <1>7 DEF SaleOf

LEMMA OldSale ==
    ASSUME NEW s \in Sales, SplitRight(s), NEW restock \in BOOLEAN
    PROVE  /\ GivenBack(s, restock) \in Sales /\ SplitRight(GivenBack(s, restock))
           /\ GivenBack(s, restock).wallet = s.wallet
           /\ GivenBack(s, restock).amount = s.amount
           /\ GivenBack(s, restock).reversed
BY DEF GivenBack, Sales, SplitRight

-----------------------------------------------------------------------------
(* Steps of one purse.                                                        *)

LEMMA PurseStep ==
    ASSUME BookTypes, StoredMatchesJournal, CashWithinBalance,
           NEW w \in Wallets, NEW p \in Purses, SetWallet(w, p),
           p.cash <= p.balance, journal'[w] = -p.balance,
           \A v \in Wallets \ {w} : journal'[v] = journal[v]
    PROVE  /\ wallet' \in [Wallets -> Purses]
           /\ StoredMatchesJournal' /\ CashWithinBalance'
<1>1. /\ wallet' \in [Wallets -> Purses] /\ wallet'[w] = p
      /\ \A v \in Wallets \ {w} : wallet'[v] = wallet[v]
  BY DEF BookTypes, SetWallet
<1>2. ASSUME NEW v \in Wallets
      PROVE  /\ wallet'[v].balance = -journal'[v]
             /\ wallet'[v].cash <= wallet'[v].balance
  <2>1. CASE v = w
    <3>1. wallet'[v] = p /\ journal'[v] = -p.balance  BY <1>1, <2>1
    <3>2. p.cash <= p.balance  OBVIOUS
    <3> QED  BY <3>1, <3>2 DEF Purses
  <2>2. CASE v # w
    BY <1>1, <2>2 DEF StoredMatchesJournal, CashWithinBalance
  <2> QED  BY <2>1, <2>2
<1> QED  BY <1>1, <1>2 DEF StoredMatchesJournal, CashWithinBalance

(* A wallet no request reserves may change its balance, one that keeps its    *)
(* balance and its standing changes nothing for the requests.                 *)
LEMMA UnreservedStep ==
    ASSUME BookTypes, FrozenIsReserved, UNCHANGED payout,
           NEW w \in Wallets, NEW p \in Purses, SetWallet(w, p),
           p.status = wallet[w].status,
           p.status = "active" \/ p.balance = wallet[w].balance
    PROVE  FrozenIsReserved'
<1>1. /\ wallet'[w] = p /\ \A v \in Wallets \ {w} : wallet'[v] = wallet[v]
  BY DEF BookTypes, SetWallet
<1>2. \A v \in Wallets : OpenPayouts(v)' = OpenPayouts(v)
  BY DEF OpenPayouts
<1> QED  BY <1>1, <1>2 DEF FrozenIsReserved

LEMMA AccountsApart ==
    /\ \A w \in Wallets : w \in Accounts /\ w \notin FloatTags
                          /\ w \notin {"MERCHANT", "FEES", "ORGANIZER"}
    /\ FloatTags \subseteq Accounts
    /\ {"MERCHANT", "FEES", "ORGANIZER"} \subseteq Accounts
    /\ \A v \in Methods : TopupTag[v] \in FloatTags
    /\ \A v : FloatTag(v) \in FloatTags
<1>1. \A v \in DOMAIN TopupTag : TopupTag[v] \in FloatTags
  BY DEF TopupTag, FloatTags
<1> QED  BY <1>1, CashlessAssumption DEF Accounts, FloatTag, FloatTags

(* A wallet's account and one other are posted to.                            *)
LEMMA TwoPostings ==
    ASSUME journal \in [Accounts -> Int], NEW w \in Wallets,
           NEW f \in FloatTags, NEW n \in Int, NEW m \in Int,
           \/ journal' = [journal EXCEPT ![f] = @ + n, ![w] = @ + m]
           \/ journal' = [journal EXCEPT ![w] = @ + m, ![f] = @ + n]
    PROVE  /\ journal' \in [Accounts -> Int] /\ journal'[w] = journal[w] + m
           /\ \A v \in Wallets \ {w} : journal'[v] = journal[v]
<1>1. w \in Accounts /\ f \in Accounts /\ w # f /\ \A v \in Wallets : v \in Accounts /\ v # f
  BY AccountsApart
<1> QED  BY <1>1

(* A wallet's account, the stall's, the fees' and the organizer's are.        *)
LEMMA FourPostings ==
    ASSUME journal \in [Accounts -> Int], NEW w \in Wallets,
           NEW n \in Int, NEW a \in Int, NEW b \in Int, NEW c \in Int,
           journal' = [journal EXCEPT ![w] = @ + n, !["MERCHANT"] = @ + a,
                                      !["FEES"] = @ + b, !["ORGANIZER"] = @ + c]
    PROVE  /\ journal' \in [Accounts -> Int] /\ journal'[w] = journal[w] + n
           /\ \A v \in Wallets \ {w} : journal'[v] = journal[v]
<1>1. /\ {"MERCHANT", "FEES", "ORGANIZER"} \subseteq Accounts
      /\ \A v \in Wallets : v \in Accounts /\ v \notin {"MERCHANT", "FEES", "ORGANIZER"}
  BY AccountsApart
<1> QED  BY <1>1

-----------------------------------------------------------------------------
(* The transactions keep the books.                                           *)

Kept == BookTypes' /\ SalesSplit' /\ Books'

LEMMA QuietStep ==
    ASSUME BookTypes, SalesSplit, Books,
           UNCHANGED <<wallet, journal, topups, withdrawals, sale, payout>>
    PROVE  Kept
BY DEF Kept, BookTypes, SalesSplit, Books, StoredMatchesJournal,
       CashWithinBalance, FrozenIsReserved, OpenPayouts, SlipsPaid

(* The row a request leaves behind. *)
LEMMA RowOf ==
    ASSUME DeskTypes, NEW d \in Desks, task[d] # NoRow,
           task[d].op \in {"topup", "cashout"}
    PROVE  /\ task[d] \in Tasks /\ Row(task[d]) \in Rows
           /\ task[d].wallet \in Wallets /\ task[d].amount \in Nat \ {0}
           /\ Row(task[d]).wallet = task[d].wallet
           /\ Row(task[d]).amount = task[d].amount
           /\ Row(task[d]).id = task[d].id /\ Row(task[d]).via = task[d].via
           /\ task[d].id \in TxnIds /\ Row(task[d]).id \notin Payouts
<1>1. Shaped(task[d])  BY DEF DeskTypes
<1>2. task[d].via \in Vias  BY <1>1 DEF Shaped, Vias
<1>3. task[d] \in Tasks /\ task[d].id \in TxnIds /\ task[d].id \notin Payouts
  BY <1>1, CashlessAssumption DEF Shaped, Tasks
<1> QED  BY <1>2, <1>3 DEF Row, Rows, Tasks

LEMMA TopUpKeeps ==
    ASSUME BookTypes, DeskTypes, SalesSplit, Books, NEW d \in Desks, CommitTopUp(d)
    PROVE  Kept
<1> DEFINE t == task[d]
           p == wallet[t.wallet]
           c == IF t.via = "cash" THEN t.amount ELSE 0
<1>1. CASE UNCHANGED Moved
  BY <1>1, QuietStep DEF Moved, stallVars, officeVars
<1>2. CASE ~UNCHANGED Moved
  <2>1. /\ t # NoRow /\ t.op = "topup" /\ p.status = "active"
        /\ SetWallet(t.wallet, Credited(p, t.amount, c))
        /\ journal' = [journal EXCEPT ![TopupTag[t.via]] = @ + t.amount,
                                      ![t.wallet] = @ - t.amount]
        /\ topups' = topups \cup {Row(t)}
        /\ UNCHANGED <<withdrawals, sale, payout>>
    BY <1>2 DEF CommitTopUp, Ready, stallVars, officeVars
  <2>2. /\ t.wallet \in Wallets /\ t.amount \in Nat \ {0} /\ Row(t) \in Rows
        /\ t.via \in Methods
    BY <2>1, RowOf DEF DeskTypes, Shaped
  <2>3. p \in Purses /\ c \in Nat /\ c <= t.amount  BY <2>2 DEF BookTypes
  <2>4. /\ journal' \in [Accounts -> Int]
        /\ journal'[t.wallet] = journal[t.wallet] - t.amount
        /\ \A v \in Wallets \ {t.wallet} : journal'[v] = journal[v]
    <3>1. TopupTag[t.via] \in FloatTags  BY <2>2, AccountsApart
    <3>2. journal \in [Accounts -> Int] /\ t.wallet \in Accounts
      BY <2>2, AccountsApart DEF BookTypes
    <3>3. journal' = [journal EXCEPT ![TopupTag[t.via]] = @ + t.amount,
                                     ![t.wallet] = @ + (-t.amount)]
      BY <2>1, <2>2, <3>1, <3>2, AccountsApart
    <3> HIDE DEF t
    <3>4. t.amount \in Int /\ -t.amount \in Int  BY <2>2
    <3> QED  BY <2>2, <3>1, <3>2, <3>3, <3>4, TwoPostings
  <2> DEFINE n == Credited(p, t.amount, c)
  <2>5. /\ n \in Purses /\ n.balance = p.balance + t.amount
        /\ n.cash = p.cash + c /\ n.status = p.status
    <3>1. t.amount \in Nat  BY <2>2
    <3> HIDE DEF t, p, c
    <3> QED  BY <2>3, <3>1, CreditedPurse
  <2>6. p.balance = -journal[t.wallet] /\ p.cash <= p.balance
    BY <2>2 DEF Books, StoredMatchesJournal, CashWithinBalance
  <2>7. journal[t.wallet] \in Int /\ p.balance \in Nat /\ p.cash \in Nat
    BY <2>2, <2>3, AccountsApart DEF BookTypes, Purses
  <2>8. n.cash <= n.balance /\ journal'[t.wallet] = -n.balance
    BY <2>2, <2>3, <2>4, <2>5, <2>6, <2>7
  <2>9. SetWallet(t.wallet, n)  BY <2>1
  <2> HIDE DEF n, c
  <2>10. /\ wallet' \in [Wallets -> Purses]
         /\ StoredMatchesJournal' /\ CashWithinBalance'
    BY <2>2, <2>4, <2>5, <2>8, <2>9, PurseStep DEF Books
  <2>11. FrozenIsReserved'
    BY <2>1, <2>2, <2>5, <2>9, UnreservedStep DEF Books
  <2>12. SlipsPaid' /\ SalesSplit'  BY <2>1 DEF Books, SlipsPaid, SalesSplit
  <2>13. BookTypes'  BY <2>1, <2>2, <2>4, <2>10 DEF BookTypes
  <2> QED  BY <2>10, <2>11, <2>12, <2>13 DEF Kept, Books
<1> QED  BY <1>1, <1>2

LEMMA WithdrawStep ==
    ASSUME BookTypes, StoredMatchesJournal, CashWithinBalance,
           NEW r \in Rows, NEW s \in {"active", "frozen", "closed"},
           Withdraw(r, s), r.amount <= wallet[r.wallet].balance
    PROVE  /\ wallet' \in [Wallets -> Purses] /\ journal' \in [Accounts -> Int]
           /\ StoredMatchesJournal' /\ CashWithinBalance'
           /\ withdrawals' = withdrawals \cup {r}
           /\ \E p \in Purses : /\ SetWallet(r.wallet, p) /\ p.status = s
                                /\ p.balance = wallet[r.wallet].balance - r.amount
<1> DEFINE w == r.wallet
           p == Debited(wallet[w], r.amount, s)
<1>1. w \in Wallets /\ r.amount \in Nat \ {0} /\ wallet[w] \in Purses
  BY DEF Rows, BookTypes
<1>2. /\ p \in Purses /\ p.balance = wallet[w].balance - r.amount /\ p.status = s
      /\ wallet[w].cash <= wallet[w].balance => p.cash <= wallet[w].balance - r.amount
  BY <1>1, DebitedPurse
<1>3. SetWallet(w, p) /\ withdrawals' = withdrawals \cup {r}
  BY DEF Withdraw
<1>4. /\ journal' \in [Accounts -> Int] /\ journal'[w] = journal[w] + r.amount
      /\ \A v \in Wallets \ {w} : journal'[v] = journal[v]
  <2>1. FloatTag(r.via) \in FloatTags /\ FloatTag(r.via) \in Accounts
    BY AccountsApart
  <2>2. journal \in [Accounts -> Int]  BY DEF BookTypes
  <2>3. journal' = [journal EXCEPT ![w] = @ + r.amount,
                                   ![FloatTag(r.via)] = @ + (-r.amount)]
    <3>1. w \in Accounts /\ w # FloatTag(r.via)  BY <1>1, <2>1, AccountsApart
    <3>2. journal' = [journal EXCEPT ![w] = @ + r.amount,
                                     ![FloatTag(r.via)] = @ - r.amount]
      BY DEF Withdraw
    <3> HIDE DEF w
    <3> QED  BY <1>1, <2>1, <2>2, <3>1, <3>2
  <2>4. r.amount \in Int /\ -r.amount \in Int  BY <1>1
  <2> HIDE DEF w
  <2> QED  BY <1>1, <2>1, <2>2, <2>3, <2>4, TwoPostings
<1>5. wallet[w].balance = -journal[w] /\ wallet[w].cash <= wallet[w].balance
  BY <1>1 DEF StoredMatchesJournal, CashWithinBalance
<1>6. journal[w] \in Int /\ wallet[w].balance \in Nat
  BY <1>1, AccountsApart DEF BookTypes, Purses
<1>7. journal'[w] = -p.balance /\ p.cash <= p.balance
  BY <1>1, <1>2, <1>4, <1>5, <1>6
<1> HIDE DEF p
<1>8. wallet' \in [Wallets -> Purses] /\ StoredMatchesJournal' /\ CashWithinBalance'
  BY <1>1, <1>2, <1>3, <1>4, <1>7, PurseStep
<1> QED  BY <1>2, <1>3, <1>4, <1>8

LEMMA CashOutKeeps ==
    ASSUME BookTypes, DeskTypes, SalesSplit, Books, NEW d \in Desks, CommitCashOut(d)
    PROVE  Kept
<1> DEFINE t == task[d]
<1>1. CASE UNCHANGED Moved
  BY <1>1, QuietStep DEF Moved, stallVars, officeVars
<1>2. CASE ~UNCHANGED Moved
  <2>1. /\ t # NoRow /\ t.op = "cashout" /\ CanPay(wallet[t.wallet], t.amount)
        /\ Withdraw(Row(t), "active")
        /\ UNCHANGED <<topups, sale, payout>>
    BY <1>2 DEF CommitCashOut, Ready, stallVars, officeVars
  <2>2. /\ t.wallet \in Wallets /\ Row(t) \in Rows /\ Row(t).wallet = t.wallet
        /\ Row(t).amount = t.amount /\ Row(t).id \notin Payouts
    BY <2>1, RowOf
  <2>3. /\ wallet[t.wallet].status = "active"
        /\ Row(t).amount <= wallet[t.wallet].balance
    <3>1. wallet[t.wallet].balance \in Nat /\ t.amount \in Nat
      BY <2>1, <2>2, RowOf DEF BookTypes, Purses
    <3> QED  BY <2>1, <2>2, <3>1 DEF CanPay
  <2> HIDE DEF t
  <2>4. /\ wallet' \in [Wallets -> Purses] /\ journal' \in [Accounts -> Int]
        /\ StoredMatchesJournal' /\ CashWithinBalance'
        /\ withdrawals' = withdrawals \cup {Row(t)}
        /\ \E p \in Purses : SetWallet(t.wallet, p) /\ p.status = "active"
    BY <2>1, <2>2, <2>3, WithdrawStep DEF Books
  <2>5. FrozenIsReserved'
    BY <2>1, <2>2, <2>3, <2>4, UnreservedStep DEF Books
  <2>6. SlipsPaid' /\ SalesSplit'
    BY <2>1, <2>2, <2>4 DEF Books, SlipsPaid, SalesSplit
  <2>7. BookTypes'  BY <2>1, <2>2, <2>4 DEF BookTypes
  <2> QED  BY <2>4, <2>5, <2>6, <2>7 DEF Kept, Books
<1> QED  BY <1>1, <1>2

LEMMA ChargeKeeps ==
    ASSUME BookTypes, DeskTypes, SalesSplit, Books, NEW d \in Desks, CommitCharge(d)
    PROVE  Kept
<1> DEFINE t == task[d]
           w == t.wallet
           n == Debited(wallet[w], Total(t), "active")
<1>1. CASE UNCHANGED Moved
  BY <1>1, QuietStep DEF Moved, stallVars, officeVars
<1>2. CASE ~UNCHANGED Moved
  <2>1. /\ t # NoRow /\ t.op = "charge" /\ CanPay(wallet[w], Total(t))
        /\ Sold(t, wallet[w])
        /\ UNCHANGED <<topups, withdrawals, payout>>
    BY <1>2 DEF CommitCharge, Ready, stallVars, officeVars
  <2>2. Shaped(t) /\ w \in Wallets /\ t.id \in TxnIds /\ t.amount \in Nat \ {0}
    BY <2>1 DEF DeskTypes, Shaped, Tasks
  <2>3. wallet[w] \in Purses /\ sale \in [TxnIds -> Sales \cup {NoRow}]
        /\ journal \in [Accounts -> Int]
    BY <2>2 DEF BookTypes
  <2>4. /\ SaleOf(t, wallet[w]) \in Sales /\ SplitRight(SaleOf(t, wallet[w]))
        /\ Total(t) \in Nat \ {0}
    BY <2>1, <2>2, <2>3, NewSale
  <2>5. wallet[w].status = "active" /\ Total(t) <= wallet[w].balance
    <3>1. wallet[w].balance \in Nat  BY <2>3 DEF Purses
    <3> QED  BY <2>1, <2>4, <3>1 DEF CanPay
  <2>6. /\ SetWallet(w, n) /\ sale' = [sale EXCEPT ![t.id] = SaleOf(t, wallet[w])]
        /\ journal' = [journal EXCEPT
             ![w] = @ + Total(t), !["MERCHANT"] = @ - (t.amount - Fee(t.amount)),
             !["FEES"] = @ - Fee(t.amount), !["ORGANIZER"] = @ - Surcharge]
    BY <2>1 DEF Sold
  <2>7. /\ journal' \in [Accounts -> Int] /\ journal'[w] = journal[w] + Total(t)
        /\ \A v \in Wallets \ {w} : journal'[v] = journal[v]
    <3>1. Fee(t.amount) \in Nat /\ Surcharge \in Nat  BY <2>2, FeeBound, CashlessAssumption
    <3> DEFINE a == -(t.amount - Fee(t.amount))
               b == -Fee(t.amount)
               c == -Surcharge
    <3>2. a \in Int /\ b \in Int /\ c \in Int /\ Total(t) \in Int
      BY <2>2, <2>4, <3>1
    <3>3. journal' = [journal EXCEPT ![w] = @ + Total(t), !["MERCHANT"] = @ + a,
                                     !["FEES"] = @ + b, !["ORGANIZER"] = @ + c]
      <4>1. /\ {"MERCHANT", "FEES", "ORGANIZER"} \subseteq Accounts
            /\ w \in Accounts /\ w \notin {"MERCHANT", "FEES", "ORGANIZER"}
        BY <2>2, AccountsApart
      <4> HIDE DEF t, w
      <4>2. t.amount - Fee(t.amount) \in Int /\ Fee(t.amount) \in Int /\ Surcharge \in Int
        BY <2>2, <3>1
      <4> QED  BY <2>3, <2>4, <2>6, <4>1, <4>2
    <3> HIDE DEF t, w, a, b, c
    <3> QED  BY <2>2, <2>3, <3>2, <3>3, FourPostings
  <2>8. /\ n \in Purses /\ n.balance = wallet[w].balance - Total(t)
        /\ n.status = "active"
        /\ wallet[w].cash <= wallet[w].balance => n.cash <= n.balance
    BY <2>3, <2>4, <2>5, DebitedPurse
  <2>9. wallet[w].balance = -journal[w] /\ wallet[w].cash <= wallet[w].balance
    BY <2>2 DEF Books, StoredMatchesJournal, CashWithinBalance
  <2>10. journal[w] \in Int /\ wallet[w].balance \in Nat
    BY <2>2, <2>3, AccountsApart DEF Purses
  <2>11. n.cash <= n.balance /\ journal'[w] = -n.balance
    BY <2>4, <2>7, <2>8, <2>9, <2>10
  <2> HIDE DEF n, w, t
  <2>12. /\ wallet' \in [Wallets -> Purses]
         /\ StoredMatchesJournal' /\ CashWithinBalance'
    BY <2>2, <2>6, <2>7, <2>8, <2>11, PurseStep DEF Books
  <2>13. FrozenIsReserved'
    BY <2>1, <2>2, <2>5, <2>6, <2>8, UnreservedStep DEF Books
  <2>14. SlipsPaid'  BY <2>1 DEF Books, SlipsPaid
  <2>15. SalesSplit' /\ sale' \in [TxnIds -> Sales \cup {NoRow}]
    BY <2>2, <2>3, <2>4, <2>6 DEF SalesSplit
  <2>16. BookTypes'  BY <2>1, <2>7, <2>12, <2>15 DEF BookTypes
  <2> QED  BY <2>12, <2>13, <2>14, <2>15, <2>16 DEF Kept, Books
<1> QED  BY <1>1, <1>2

LEMMA ReverseKeeps ==
    ASSUME BookTypes, SalesSplit, Books, NEW i \in TxnIds, NEW restock \in BOOLEAN,
           Reverse(i, restock)
    PROVE  Kept
<1> DEFINE s == sale[i]
           w == s.wallet
           n == Credited(wallet[w], s.amount, s.cash)
<1>1. /\ s # NoRow /\ wallet[w].status = "active" /\ SetWallet(w, n)
      /\ sale' = [sale EXCEPT ![i] = GivenBack(s, restock)]
      /\ journal' = [journal EXCEPT ![w] = @ - s.amount, !["MERCHANT"] = @ + s.net,
                                    !["FEES"] = @ + s.fee, !["ORGANIZER"] = @ + s.extra]
      /\ UNCHANGED <<topups, withdrawals, payout>>
  BY DEF Reverse, officeVars
<1>2. /\ s \in Sales /\ SplitRight(s) /\ sale \in [TxnIds -> Sales \cup {NoRow}]
      /\ journal \in [Accounts -> Int]
  BY <1>1 DEF BookTypes, SalesSplit
<1>3. /\ w \in Wallets /\ wallet[w] \in Purses
      /\ s.amount \in Nat /\ s.cash \in Nat /\ s.net \in Nat /\ s.fee \in Nat
      /\ s.extra \in Nat /\ s.cash <= s.amount
  BY <1>2 DEF Sales, SplitRight, BookTypes
<1>4. GivenBack(s, restock) \in Sales /\ SplitRight(GivenBack(s, restock))
  BY <1>2, OldSale
<1>5. /\ n \in Purses /\ n.balance = wallet[w].balance + s.amount
      /\ n.cash = wallet[w].cash + s.cash /\ n.status = "active"
  <2>1. wallet[w].status = "active"  BY <1>1
  <2> HIDE DEF w, s
  <2>2. wallet[w] \in Purses /\ s.amount \in Nat /\ s.cash \in Nat  BY <1>3
  <2>3. /\ n \in Purses /\ n.balance = wallet[w].balance + s.amount
        /\ n.cash = wallet[w].cash + s.cash /\ n.status = wallet[w].status
    BY ZenonT(30), <2>2, CreditedPurse
  <2> QED  BY <2>1, <2>3
<1> HIDE DEF n
<1>6. /\ journal' \in [Accounts -> Int] /\ journal'[w] = journal[w] - s.amount
      /\ \A v \in Wallets \ {w} : journal'[v] = journal[v]
  <2> HIDE DEF w, s
  <2>1. /\ {"MERCHANT", "FEES", "ORGANIZER"} \subseteq Accounts
        /\ w \in Accounts /\ w \notin {"MERCHANT", "FEES", "ORGANIZER"}
    BY <1>3, AccountsApart
  <2>2. journal' = [journal EXCEPT ![w] = @ + (-s.amount), !["MERCHANT"] = @ + s.net,
                                   !["FEES"] = @ + s.fee, !["ORGANIZER"] = @ + s.extra]
    BY <1>1, <1>2, <1>3, <2>1
  <2>3. -s.amount \in Int /\ s.net \in Int /\ s.fee \in Int /\ s.extra \in Int
    BY <1>3
  <2>4. journal' \in [Accounts -> Int] /\ journal'[w] = journal[w] + (-s.amount)
        /\ \A v \in Wallets \ {w} : journal'[v] = journal[v]
    BY <1>2, <1>3, <2>2, <2>3, FourPostings
  <2>5. journal[w] \in Int  BY <1>2, <2>1
  <2> QED  BY <1>3, <2>4, <2>5
<1>7. wallet[w].balance = -journal[w] /\ wallet[w].cash <= wallet[w].balance
  BY <1>3 DEF Books, StoredMatchesJournal, CashWithinBalance
<1>8. journal[w] \in Int /\ wallet[w].balance \in Nat /\ wallet[w].cash \in Nat
  BY <1>2, <1>3, AccountsApart DEF Purses
<1>9. n.cash <= n.balance /\ journal'[w] = -n.balance
  <2> HIDE DEF w, s
  <2> QED  BY <1>3, <1>5, <1>6, <1>7, <1>8
<1> HIDE DEF w, s
<1>10. wallet' \in [Wallets -> Purses] /\ StoredMatchesJournal' /\ CashWithinBalance'
  BY <1>1, <1>3, <1>5, <1>6, <1>9, PurseStep DEF Books
<1>11. FrozenIsReserved'
  BY <1>1, <1>3, <1>5, UnreservedStep DEF Books
<1>12. SlipsPaid'  BY <1>1 DEF Books, SlipsPaid
<1>13. SalesSplit' /\ sale' \in [TxnIds -> Sales \cup {NoRow}]
  BY <1>1, <1>2, <1>4 DEF SalesSplit
<1>14. BookTypes'  BY <1>1, <1>6, <1>10, <1>13 DEF BookTypes
<1> QED  BY <1>10, <1>11, <1>12, <1>13, <1>14 DEF Kept, Books

-----------------------------------------------------------------------------
(* The requests of the holders keep the books.                                *)

LEMMA OpenAfter ==
    ASSUME payout \in [Payouts -> PayoutRows \cup {NoRow}],
           NEW q \in Payouts, NEW r \in PayoutRows, SetPayout(q, r), NEW v
    PROVE  OpenPayouts(v)' = IF r.wallet = v /\ r.status \in {"pending", "processing"}
                             THEN OpenPayouts(v) \cup {q}
                             ELSE OpenPayouts(v) \ {q}
<1>1. /\ payout'[q] = r /\ r # NoRow
      /\ \A x \in Payouts \ {q} : payout'[x] = payout[x]
  BY NoRowAssumption DEF SetPayout
<1> QED  BY <1>1 DEF OpenPayouts

LEMMA DecidedRow ==
    ASSUME NEW r \in PayoutRows, NEW b \in Staff \cup {"nobody"},
           NEW s \in {"pending", "processing", "paid", "rejected"}
    PROVE  /\ Decided(r, s, b) \in PayoutRows /\ Decided(r, s, b).wallet = r.wallet
           /\ Decided(r, s, b).amount = r.amount /\ Decided(r, s, b).status = s
BY DEF Decided, PayoutRows

(* The slips stay paid when a request that is not paid yet moves. *)
LEMMA SlipsStay ==
    ASSUME SlipsPaid, UNCHANGED withdrawals,
           payout \in [Payouts -> PayoutRows \cup {NoRow}],
           NEW q \in Payouts, NEW r \in PayoutRows, SetPayout(q, r),
           payout[q] = NoRow \/ payout[q].status # "paid"
    PROVE  SlipsPaid'
BY DEF SlipsPaid, SetPayout

LEMMA RequestKeeps ==
    ASSUME BookTypes, SalesSplit, Books, NEW q \in Payouts, NEW w \in Wallets,
           RequestPayout(q, w)
    PROVE  Kept
<1> DEFINE n == Standing(wallet[w], "frozen")
           r == Asked(w)
<1>1. /\ payout[q] = NoRow /\ wallet[w].status = "active" /\ wallet[w].balance > 0
      /\ OpenPayouts(w) = {}
      /\ SetWallet(w, n) /\ SetPayout(q, r)
      /\ UNCHANGED <<journal, topups, withdrawals, sale>>
  BY DEF RequestPayout, stallVars
<1>2. wallet[w] \in Purses /\ payout \in [Payouts -> PayoutRows \cup {NoRow}]
  BY DEF BookTypes
<1>3. /\ r \in PayoutRows /\ r.wallet = w /\ r.amount = wallet[w].balance
      /\ r.status = "pending"
  BY <1>1, <1>2 DEF Asked, PayoutRows, Purses
<1>4. /\ n \in Purses /\ n.balance = wallet[w].balance
      /\ n.cash = wallet[w].cash /\ n.status = "frozen"
  BY <1>2, OtherPurse
<1> HIDE DEF n, r
<1>5. wallet[w].balance = -journal[w] /\ wallet[w].cash <= wallet[w].balance
  BY DEF Books, StoredMatchesJournal, CashWithinBalance
<1>6. wallet' \in [Wallets -> Purses] /\ StoredMatchesJournal' /\ CashWithinBalance'
  <2>1. journal[w] \in Int /\ UNCHANGED journal
    BY <1>1, AccountsApart DEF BookTypes
  <2>2. n.cash <= n.balance  BY <1>4, <1>5
  <2>3. journal'[w] = -n.balance  BY <1>2, <1>4, <1>5, <2>1 DEF Purses
  <2>4. \A v \in Wallets \ {w} : journal'[v] = journal[v]  BY <2>1
  <2> QED  BY <1>1, <1>4, <2>2, <2>3, <2>4, PurseStep DEF Books
<1>7. ASSUME NEW v \in Wallets
      PROVE  /\ wallet'[v].status = "frozen" =>
                   \E x \in OpenPayouts(v)' : /\ OpenPayouts(v)' = {x}
                                              /\ payout'[x].amount = wallet'[v].balance
             /\ OpenPayouts(v)' # {} => wallet'[v].status = "frozen"
             /\ wallet'[v].status = "closed" => wallet'[v].balance = 0
  <2>1. CASE v = w
    <3>1. OpenPayouts(v)' = {q}  BY <1>1, <1>2, <1>3, <2>1, OpenAfter
    <3>2. payout'[q] = r /\ wallet'[v] = n
      BY <1>1, <1>2, <2>1 DEF SetPayout, SetWallet, BookTypes
    <3> QED  BY <1>3, <1>4, <2>1, <3>1, <3>2
  <2>2. CASE v # w
    <3>1. OpenPayouts(v)' = OpenPayouts(v) \ {q}
      BY <1>1, <1>2, <1>3, <2>2, OpenAfter
    <3>2. q \notin OpenPayouts(v)  BY <1>1 DEF OpenPayouts
    <3>3. \A x \in OpenPayouts(v) : payout'[x] = payout[x]
      BY <1>1, <1>2, <3>2 DEF SetPayout, OpenPayouts
    <3>4. wallet'[v] = wallet[v]  BY <1>1, <2>2 DEF SetWallet, BookTypes
    <3> QED  BY <3>1, <3>2, <3>3, <3>4 DEF Books, FrozenIsReserved
  <2> QED  BY <2>1, <2>2
<1>8. FrozenIsReserved'  BY <1>7 DEF FrozenIsReserved
<1>9. SlipsPaid'  BY <1>1, <1>2, <1>3, SlipsStay DEF Books
<1>10. BookTypes' /\ SalesSplit'
  BY <1>1, <1>2, <1>3, <1>6 DEF BookTypes, SalesSplit, SetPayout
<1> QED  BY <1>6, <1>8, <1>9, <1>10 DEF Kept, Books

LEMMA TakeOnKeeps ==
    ASSUME BookTypes, SalesSplit, Books, NEW q \in Payouts, NEW b \in Staff,
           TakeOn(q, b)
    PROVE  Kept
<1> DEFINE r == Decided(payout[q], "processing", b)
<1>1. /\ payout[q] # NoRow /\ payout[q].status = "pending" /\ SetPayout(q, r)
      /\ UNCHANGED <<wallet, journal, topups, withdrawals, sale>>
  BY DEF TakeOn, stallVars
<1>2. payout[q] \in PayoutRows /\ payout \in [Payouts -> PayoutRows \cup {NoRow}]
  BY <1>1 DEF BookTypes
<1>3. /\ r \in PayoutRows /\ r.wallet = payout[q].wallet
      /\ r.amount = payout[q].amount /\ r.status = "processing"
  BY <1>2, DecidedRow
<1> HIDE DEF r
<1>4. \A v : OpenPayouts(v)' = OpenPayouts(v)
  <2> TAKE v
  <2>1. q \in OpenPayouts(v) <=> r.wallet = v  BY <1>1, <1>3 DEF OpenPayouts
  <2> QED  BY <1>1, <1>2, <1>3, <2>1, OpenAfter
<1>5. \A x \in Payouts : payout[x] # NoRow => payout'[x].amount = payout[x].amount
  BY <1>1, <1>2, <1>3 DEF SetPayout
<1>6. \A v \in Wallets : \A x \in OpenPayouts(v) : x \in Payouts /\ payout[x] # NoRow
  BY DEF OpenPayouts
<1>7. FrozenIsReserved'
  BY <1>1, <1>4, <1>5, <1>6 DEF Books, FrozenIsReserved
<1>8. SlipsPaid'  BY <1>1, <1>2, <1>3, SlipsStay DEF Books
<1>9. BookTypes' /\ SalesSplit'
  BY <1>1, <1>2, <1>3 DEF BookTypes, SalesSplit, SetPayout
<1>10. StoredMatchesJournal' /\ CashWithinBalance'
  BY <1>1 DEF Books, StoredMatchesJournal, CashWithinBalance
<1> QED  BY <1>7, <1>8, <1>9, <1>10 DEF Kept, Books

LEMMA PayOutKeeps ==
    ASSUME BookTypes, SalesSplit, Books, NEW q \in Payouts, NEW b \in Staff,
           PayOut(q, b)
    PROVE  Kept
<1> DEFINE o == payout[q]
           w == o.wallet
           r == Decided(o, "paid", b)
           slip == [wallet |-> w, id |-> q, amount |-> o.amount,
                    via |-> "payout", by |-> "office"]
<1>1. /\ o # NoRow /\ o.status = "processing" /\ Reserved(o) /\ SetPayout(q, r)
      /\ Withdraw(slip, "closed") /\ UNCHANGED <<topups, sale>>
  BY DEF PayOut, stallVars
<1>2. o \in PayoutRows /\ payout \in [Payouts -> PayoutRows \cup {NoRow}]
  BY <1>1 DEF BookTypes
<1>3. w \in Wallets /\ o.amount \in Nat \ {0} /\ wallet[w] \in Purses
  BY <1>2 DEF PayoutRows, BookTypes
<1>4. /\ r \in PayoutRows /\ r.wallet = w /\ r.status = "paid"
  BY <1>2, DecidedRow
<1>5. wallet[w].status = "frozen" /\ wallet[w].balance = o.amount
  BY <1>1 DEF Reserved
<1>6. /\ slip \in Rows /\ slip.wallet = w /\ slip.amount = o.amount /\ slip.id = q
  BY <1>3 DEF Rows, Vias, Clerks
<1> HIDE DEF slip, r
<1>7. slip.amount <= wallet[slip.wallet].balance
  BY <1>3, <1>5, <1>6 DEF Purses
<1>8. /\ wallet' \in [Wallets -> Purses] /\ journal' \in [Accounts -> Int]
      /\ StoredMatchesJournal' /\ CashWithinBalance'
      /\ withdrawals' = withdrawals \cup {slip}
      /\ \E p \in Purses : /\ SetWallet(w, p) /\ p.status = "closed"
                           /\ p.balance = wallet[w].balance - o.amount
  BY <1>1, <1>6, <1>7, WithdrawStep DEF Books
<1>9. PICK p \in Purses : /\ SetWallet(w, p) /\ p.status = "closed"
                          /\ p.balance = wallet[w].balance - o.amount
  BY <1>8
<1>10. p.balance = 0  BY <1>3, <1>5, <1>9
<1> HIDE DEF w
<1>11. ASSUME NEW v \in Wallets
       PROVE  /\ wallet'[v].status = "frozen" =>
                    \E x \in OpenPayouts(v)' : /\ OpenPayouts(v)' = {x}
                                               /\ payout'[x].amount = wallet'[v].balance
              /\ OpenPayouts(v)' # {} => wallet'[v].status = "frozen"
              /\ wallet'[v].status = "closed" => wallet'[v].balance = 0
  <2>1. OpenPayouts(v)' = OpenPayouts(v) \ {q}  BY <1>1, <1>2, <1>4, OpenAfter
  <2>2. q \in OpenPayouts(w)  BY <1>1 DEF OpenPayouts, w
  <2>3. CASE v = w
    <3>1. OpenPayouts(w) = {q}
      BY <1>3, <1>5, <2>2 DEF Books, FrozenIsReserved
    <3>2. wallet'[v] = p  BY <1>3, <1>9, <2>3 DEF SetWallet, BookTypes
    <3> QED  BY <1>9, <1>10, <2>1, <2>3, <3>1, <3>2
  <2>4. CASE v # w
    <3>1. q \notin OpenPayouts(v)  BY <2>4 DEF OpenPayouts, w
    <3>2. \A x \in OpenPayouts(v) : payout'[x] = payout[x]
      BY <1>1, <1>2, <3>1 DEF SetPayout, OpenPayouts
    <3>3. wallet'[v] = wallet[v]  BY <1>9, <2>4 DEF SetWallet, BookTypes
    <3> QED  BY <2>1, <3>1, <3>2, <3>3 DEF Books, FrozenIsReserved
  <2> QED  BY <2>3, <2>4
<1>12. FrozenIsReserved'  BY <1>11 DEF FrozenIsReserved
<1>13. SlipsPaid'
  <2>1. payout'[q] = r /\ r # NoRow /\ \A x \in Payouts \ {q} : payout'[x] = payout[x]
    BY <1>1, <1>2, <1>4, NoRowAssumption DEF SetPayout
  <2> QED  BY <1>4, <1>6, <1>8, <2>1 DEF Books, SlipsPaid
<1>14. BookTypes' /\ SalesSplit'
  BY <1>1, <1>2, <1>4, <1>6, <1>8 DEF BookTypes, SalesSplit, SetPayout
<1> QED  BY <1>8, <1>12, <1>13, <1>14 DEF Kept, Books

LEMMA RejectKeeps ==
    ASSUME BookTypes, SalesSplit, Books, NEW q \in Payouts, NEW b \in Staff,
           RejectPayout(q, b)
    PROVE  Kept
<1> DEFINE o == payout[q]
           w == o.wallet
           r == Decided(o, "rejected", o.by)
           n == Standing(wallet[w], "active")
<1>1. /\ o # NoRow /\ o.status \in {"pending", "processing"} /\ Reserved(o)
      /\ SetPayout(q, r) /\ SetWallet(w, n)
      /\ UNCHANGED <<journal, topups, withdrawals, sale>>
  BY DEF RejectPayout, stallVars
<1>2. o \in PayoutRows /\ payout \in [Payouts -> PayoutRows \cup {NoRow}]
  BY <1>1 DEF BookTypes
<1>3. /\ w \in Wallets /\ wallet[w] \in Purses /\ o.by \in Staff \cup {"nobody"}
  BY <1>2 DEF PayoutRows, BookTypes
<1>4. /\ r \in PayoutRows /\ r.wallet = w /\ r.status = "rejected"
  BY <1>2, <1>3, DecidedRow
<1>5. /\ n \in Purses /\ n.balance = wallet[w].balance
      /\ n.cash = wallet[w].cash /\ n.status = "active"
  BY <1>3, OtherPurse
<1>6. wallet[w].status = "frozen"  BY <1>1 DEF Reserved
<1>7. o.status # "paid" /\ q \in OpenPayouts(w)  BY <1>1 DEF OpenPayouts
<1> HIDE DEF r, n, w
<1>8. wallet[w].balance = -journal[w] /\ wallet[w].cash <= wallet[w].balance
  BY <1>3 DEF Books, StoredMatchesJournal, CashWithinBalance
<1>9. wallet' \in [Wallets -> Purses] /\ StoredMatchesJournal' /\ CashWithinBalance'
  <2>1. journal[w] \in Int /\ UNCHANGED journal
    BY <1>1, <1>3, AccountsApart DEF BookTypes
  <2>2. n.cash <= n.balance  BY <1>5, <1>8
  <2>3. journal'[w] = -n.balance  BY <1>3, <1>5, <1>8, <2>1 DEF Purses
  <2>4. \A v \in Wallets \ {w} : journal'[v] = journal[v]  BY <2>1
  <2> QED  BY <1>1, <1>3, <1>5, <2>2, <2>3, <2>4, PurseStep DEF Books
<1>10. ASSUME NEW v \in Wallets
       PROVE  /\ wallet'[v].status = "frozen" =>
                    \E x \in OpenPayouts(v)' : /\ OpenPayouts(v)' = {x}
                                               /\ payout'[x].amount = wallet'[v].balance
              /\ OpenPayouts(v)' # {} => wallet'[v].status = "frozen"
              /\ wallet'[v].status = "closed" => wallet'[v].balance = 0
  <2>1. OpenPayouts(v)' = OpenPayouts(v) \ {q}  BY <1>1, <1>2, <1>4, OpenAfter
  <2>2. CASE v = w
    <3>1. OpenPayouts(w) = {q}
      BY <1>3, <1>6, <1>7 DEF Books, FrozenIsReserved
    <3>2. wallet'[v] = n  BY <1>1, <1>3, <2>2 DEF SetWallet, BookTypes
    <3> QED  BY <1>5, <2>1, <2>2, <3>1, <3>2
  <2>3. CASE v # w
    <3>1. q \notin OpenPayouts(v)  BY <2>3 DEF OpenPayouts, w
    <3>2. \A x \in OpenPayouts(v) : payout'[x] = payout[x]
      BY <1>1, <1>2, <3>1 DEF SetPayout, OpenPayouts
    <3>3. wallet'[v] = wallet[v]  BY <1>1, <2>3 DEF SetWallet, BookTypes
    <3> QED  BY <2>1, <3>1, <3>2, <3>3 DEF Books, FrozenIsReserved
  <2> QED  BY <2>2, <2>3
<1>11. FrozenIsReserved'  BY <1>10 DEF FrozenIsReserved
<1>12. SlipsPaid'  BY <1>1, <1>2, <1>4, <1>7, SlipsStay DEF Books
<1>13. BookTypes' /\ SalesSplit'
  BY <1>1, <1>2, <1>4, <1>9 DEF BookTypes, SalesSplit, SetPayout
<1> QED  BY <1>9, <1>11, <1>12, <1>13 DEF Kept, Books

(* A band comes or goes. *)
LEMMA BandKeeps ==
    ASSUME BookTypes, SalesSplit, Books, BandStep
    PROVE  Kept
<1>1. PICK w \in Wallets, b \in Bands \cup {NoBand} :
           /\ SetWallet(w, Wearing(wallet[w], b))
           /\ UNCHANGED <<journal, topups, withdrawals, sale, payout>>
  BY DEF BandStep, ReleaseBand, ClaimBand, stallVars, officeVars
<1> DEFINE n == Wearing(wallet[w], b)
<1>2. wallet[w] \in Purses  BY DEF BookTypes
<1>3. /\ n \in Purses /\ n.balance = wallet[w].balance
      /\ n.cash = wallet[w].cash /\ n.status = wallet[w].status
  BY <1>2, OtherPurse
<1>4. SetWallet(w, n)  BY <1>1
<1> HIDE DEF n
<1>5. wallet[w].balance = -journal[w] /\ wallet[w].cash <= wallet[w].balance
  BY DEF Books, StoredMatchesJournal, CashWithinBalance
<1>6. wallet' \in [Wallets -> Purses] /\ StoredMatchesJournal' /\ CashWithinBalance'
  <2>1. journal[w] \in Int /\ UNCHANGED journal
    BY <1>1, AccountsApart DEF BookTypes
  <2>2. n.cash <= n.balance  BY <1>3, <1>5
  <2>3. journal'[w] = -n.balance  BY <1>2, <1>3, <1>5, <2>1 DEF Purses
  <2>4. \A v \in Wallets \ {w} : journal'[v] = journal[v]  BY <2>1
  <2> QED  BY <1>3, <1>4, <2>2, <2>3, <2>4, PurseStep DEF Books
<1>7. FrozenIsReserved'
  BY <1>1, <1>3, <1>4, UnreservedStep DEF Books
<1>8. SlipsPaid' /\ SalesSplit' /\ BookTypes'
  BY <1>1, <1>6 DEF Books, SlipsPaid, SalesSplit, BookTypes
<1> QED  BY <1>6, <1>7, <1>8 DEF Kept, Books

(* A confirmed collection moves float between two desks. *)
LEMMA ConfirmKeeps ==
    ASSUME BookTypes, OtherTypes, SalesSplit, Books, NEW k \in Collections, Confirm(k)
    PROVE  Kept
<1> DEFINE n == collection[k].amount
<1>1. /\ collection[k] # NoRow
      /\ journal' = [journal EXCEPT !["CASH_DESK"] = @ - n, !["COLLECTOR_CASH"] = @ + n]
      /\ UNCHANGED <<wallet, topups, withdrawals, sale, payout>>
  BY DEF Confirm, stallVars
<1>2. n \in Nat  BY <1>1 DEF OtherTypes, CollectionRows
<1>3. \A w \in Wallets : w \notin {"CASH_DESK", "COLLECTOR_CASH"} /\ w \in Accounts
  BY AccountsApart DEF FloatTags
<1>4. {"CASH_DESK", "COLLECTOR_CASH"} \subseteq Accounts  BY AccountsApart DEF FloatTags
<1>5. journal \in [Accounts -> Int]  BY DEF BookTypes
<1> HIDE DEF n
<1>6. journal' \in [Accounts -> Int] /\ \A w \in Wallets : journal'[w] = journal[w]
  BY <1>1, <1>2, <1>3, <1>4, <1>5
<1>7. StoredMatchesJournal' /\ CashWithinBalance'
  BY <1>1, <1>6 DEF Books, StoredMatchesJournal, CashWithinBalance
<1>8. FrozenIsReserved' /\ SlipsPaid'
  BY <1>1 DEF Books, FrozenIsReserved, OpenPayouts, SlipsPaid
<1>9. BookTypes' /\ SalesSplit'  BY <1>1, <1>6 DEF BookTypes, SalesSplit
<1> QED  BY <1>7, <1>8, <1>9 DEF Kept, Books

-----------------------------------------------------------------------------
(* The other variables keep their types.                                      *)

LEMMA StockTypes ==
    ASSUME BookTypes, OtherTypes, DeskTypes, StallStep \/ \E d \in Desks : CommitCharge(d)
    PROVE  onHand' \in Nat /\ delivered' \in Int
<1>1. ASSUME NEW i \in TxnIds, NEW restock \in BOOLEAN, Reverse(i, restock)
      PROVE  onHand' \in Nat /\ delivered' \in Int
  <2>1. sale[i] \in Sales  BY <1>1 DEF Reverse, BookTypes
  <2>2. Returned(sale[i], restock) \in Nat  BY <2>1 DEF Returned, Sales
  <2> QED  BY <1>1, <2>2 DEF Reverse, OtherTypes
<1>2. ASSUME NEW n \in -MaxStock .. MaxStock, MoveStock(n)
      PROVE  onHand' \in Nat /\ delivered' \in Int
  BY <1>2, CashlessAssumption DEF MoveStock, OtherTypes
<1>3. ASSUME NEW d \in Desks, CommitCharge(d)
      PROVE  onHand' \in Nat /\ delivered' \in Int
  <2>1. CASE UNCHANGED Moved  BY <2>1 DEF Moved, stallVars, OtherTypes
  <2>2. CASE ~UNCHANGED Moved
    <3>1. /\ task[d] # NoRow /\ onHand >= task[d].qty
          /\ onHand' = onHand - task[d].qty /\ UNCHANGED delivered
      BY <1>3, <2>2 DEF CommitCharge, Ready, Sold
    <3>2. task[d].qty \in 0 .. 1  BY <3>1 DEF DeskTypes, Tasks
    <3> QED  BY <3>1, <3>2 DEF OtherTypes
  <2> QED  BY <2>1, <2>2
<1> QED  BY <1>1, <1>2, <1>3 DEF StallStep

LEMMA CollectionTypes ==
    ASSUME OtherTypes, CollectionStep
    PROVE  collection' \in [Collections -> CollectionRows \cup {NoRow}]
<1>1. PICK k \in Collections :
        \/ \E c \in Cashiers, n \in Amounts : AskCollection(k, c, n)
        \/ FileCollection(k) \/ Confirm(k) \/ CallOff(k, "rejected")
        \/ CallOff(k, "cancelled")
  BY DEF CollectionStep
<1>2. ASSUME NEW c \in Cashiers, NEW n \in Amounts, AskCollection(k, c, n)
      PROVE  collection' \in [Collections -> CollectionRows \cup {NoRow}]
  BY <1>2, CashlessAssumption DEF AskCollection, OtherTypes, CollectionRows
<1>3. ASSUME NEW s \in {"pending", "confirmed", "rejected", "cancelled"},
             collection[k] # NoRow, Collected(k, s)
      PROVE  collection' \in [Collections -> CollectionRows \cup {NoRow}]
  BY <1>3 DEF Collected, OtherTypes, CollectionRows
<1> QED  BY <1>1, <1>2, <1>3 DEF FileCollection, Confirm, CallOff

LEMMA AskTypes ==
    ASSUME DeskTypes, NEW d \in Desks, NEW t, Shaped(t), Ask(d, t),
           t.step = "asked"
    PROVE  DeskTypes'
<1>1. t \in Tasks  BY DEF Shaped
<1> QED  BY <1>1 DEF DeskTypes, Ask, Answers

LEMMA AnswerTypes ==
    ASSUME DeskTypes, NEW d \in Desks, NEW a \in Answers, Answer(d, a)
    PROVE  DeskTypes'
BY DEF DeskTypes, Answer

LEMMA ContinueTypes ==
    ASSUME DeskTypes, NEW d \in Desks, task[d] # NoRow,
           NEW s \in {"asked", "checked", "raced"}, Continue(d, s),
           s = "raced" => task[d].op # "charge"
    PROVE  DeskTypes'
<1> DEFINE t == task[d]
           n == Task(t.op, t.wallet, t.id, t.amount, t.via, t.by, t.qty, s)
<1>1. Shaped(t) /\ t \in Tasks  BY DEF DeskTypes, Shaped
<1>2. n \in Tasks  BY <1>1 DEF Task, Tasks
<1>3. /\ n.op = t.op /\ n.via = t.via /\ n.qty = t.qty /\ n.amount = t.amount
      /\ n.by = t.by /\ n.step = s
  BY DEF Task
<1>4. task' = [task EXCEPT ![d] = n] /\ UNCHANGED answer  BY DEF Continue
<1> HIDE DEF n
<1>5. Shaped(n)  BY <1>1, <1>2, <1>3 DEF Shaped
<1>6. n.step = "raced" => n.op # "charge"  BY <1>3
<1>7. /\ task'[d] = n /\ answer' = answer /\ answer[d] = "none"
      /\ \A e \in Desks \ {d} : task'[e] = task[e]
      /\ task' \in [Desks -> Tasks \cup {NoRow}]
  BY <1>2, <1>4 DEF DeskTypes
<1> HIDE DEF t
<1>8. ASSUME NEW e \in Desks, task'[e] # NoRow
      PROVE  /\ Shaped(task'[e]) /\ answer'[e] = "none"
             /\ task'[e].step = "raced" => task'[e].op # "charge"
  <2>1. CASE e = d  BY <1>5, <1>6, <1>7, <2>1
  <2>2. CASE e # d  BY <1>7, <1>8, <2>2 DEF DeskTypes
  <2> QED  BY <2>1, <2>2
<1> QED  BY <1>7, <1>8 DEF DeskTypes

LEMMA ReplayTypes ==
    ASSUME DeskTypes, NEW d \in Desks, Replay(d) \/ ReplaySale(d)
    PROVE  DeskTypes'
<1>1. ASSUME NEW same, Replayed(d, same)
      PROVE  DeskTypes'
  <2>1. \E a \in Answers : Answer(d, a)  BY <1>1 DEF Replayed, Answers
  <2> QED  BY <2>1, AnswerTypes
<1> QED  BY <1>1 DEF Replay, ReplayRow, ReplaySale

LEMMA AskedShaped ==
    ASSUME BookTypes, DeskTypes, NEW d \in Desks,
           AskTopUp(d) \/ AskCashOut(d) \/ AskCharge(d)
    PROVE  \E t : Shaped(t) /\ Ask(d, t) /\ t.step = "asked"
<1>1. /\ Amounts \subseteq Nat \ {0} /\ Price \in Nat \ {0}  BY CashlessAssumption
<1>2. CASE AskTopUp(d)
  <2>1. PICK w \in Wallets, i \in TxnIds, n \in Amounts, v \in Methods,
             b \in Cashiers \cup {"reseller"} :
                Ask(d, Task("topup", w, i, n, v, b, 0, "asked"))
    BY <1>2 DEF AskTopUp
  <2>2. Shaped(Task("topup", w, i, n, v, b, 0, "asked")) /\ Task("topup", w, i, n, v, b, 0, "asked").step = "asked"
    BY <1>1 DEF Shaped, Task, Tasks, Vias, Clerks
  <2> QED  BY <2>1, <2>2
<1>3. CASE AskCashOut(d)
  <2>1. PICK w \in Wallets, i \in TxnIds, n \in Amounts, v \in {"cash", "office_cash"},
             b \in Clerks : /\ v = "cash" => b \in Cashiers
                           /\ Ask(d, Task("cashout", w, i, n, v, b, 0, "asked"))
    BY <1>3 DEF AskCashOut, Clerks
  <2>2. Shaped(Task("cashout", w, i, n, v, b, 0, "asked")) /\ Task("cashout", w, i, n, v, b, 0, "asked").step = "asked"
    BY <1>1, <2>1 DEF Shaped, Task, Tasks, Vias
  <2> QED  BY <2>1, <2>2
<1>4. CASE AskCharge(d)
  <2>1. PICK w \in Wallets, i \in TxnIds, n \in Nat \ {0}, q \in 0 .. 1 :
           /\ wallet[w].band # NoBand /\ (q = 1 => n = Price)
           /\ Ask(d, Task("charge", w, i, n, wallet[w].band, "till", q, "asked"))
    BY <1>1, <1>4 DEF AskCharge
  <2>2. wallet[w].band \in Bands  BY <2>1 DEF BookTypes, Purses
  <2>3. Shaped(Task("charge", w, i, n, wallet[w].band, "till", q, "asked")) /\ Task("charge", w, i, n, wallet[w].band, "till", q, "asked").step = "asked"
    BY <2>1, <2>2 DEF Shaped, Task, Tasks, Clerks
  <2> QED  BY <2>1, <2>3
<1> QED  BY <1>2, <1>3, <1>4

LEMMA DeskStepTypes ==
    ASSUME BookTypes, DeskTypes, NEW d \in Desks, DeskStep(d)
    PROVE  DeskTypes'
<1>1. CASE AskTopUp(d) \/ AskCashOut(d) \/ AskCharge(d)
  BY <1>1, AskedShaped, AskTypes
<1>2. CASE PreCheck(d)
  BY <1>2, ContinueTypes, ReplayTypes DEF PreCheck
<1>3. CASE ReadWinner(d)  BY <1>3, ReplayTypes DEF ReadWinner
<1>4. CASE Abandon(d)  BY <1>4, AnswerTypes DEF Abandon, Answers
<1>5. CASE CommitTopUp(d) \/ CommitCashOut(d) \/ CommitCharge(d)
  <2>1. /\ task[d] # NoRow
        /\ \/ \E a \in Answers : Answer(d, a)
           \/ Continue(d, "raced") /\ task[d].op # "charge"
           \/ ReplaySale(d)
    BY <1>5 DEF CommitTopUp, CommitCashOut, CommitCharge, Ready, Answers
  <2> QED  BY <2>1, AnswerTypes, ContinueTypes, ReplayTypes
<1> QED  BY <1>1, <1>2, <1>3, <1>4, <1>5 DEF DeskStep

-----------------------------------------------------------------------------
(* The invariant.                                                             *)

LEMMA InitHolds == Init => Typed /\ Books
<1> SUFFICES ASSUME Init PROVE Typed /\ Books  OBVIOUS
<1>1. \A w \in Wallets : /\ wallet[w] \in Purses /\ wallet[w].balance = 0
                         /\ wallet[w].cash = 0 /\ wallet[w].status = "active"
  BY DEF Init, Purse, Purses
<1>2. BookTypes  BY <1>1 DEF Init, BookTypes
<1>3. OtherTypes /\ DeskTypes /\ SalesSplit
  <2>1. OtherTypes
    <3>1. onHand \in Nat /\ delivered \in Int  BY DEF Init
    <3>2. ended \in BOOLEAN  BY DEF Init
    <3>3. collection \in [Collections -> CollectionRows \cup {NoRow}]  BY DEF Init
    <3> QED  BY <3>1, <3>2, <3>3 DEF OtherTypes
  <2>2. DeskTypes  BY DEF Init, DeskTypes, Answers
  <2>3. SalesSplit  BY DEF Init, SalesSplit
  <2> QED  BY <2>1, <2>2, <2>3
<1>4. StoredMatchesJournal /\ CashWithinBalance
  BY <1>1, AccountsApart DEF Init, StoredMatchesJournal, CashWithinBalance
<1>5. FrozenIsReserved /\ SlipsPaid
  BY <1>1 DEF Init, FrozenIsReserved, OpenPayouts, SlipsPaid
<1> QED  BY <1>2, <1>3, <1>4, <1>5 DEF Typed, Books

LEMMA StepKeeps ==
    ASSUME Typed, Books, Next
    PROVE  Typed' /\ Books'
<1> USE DEF Typed
<1>1. ASSUME NEW d \in Desks, DeskStep(d)
      PROVE  Typed' /\ Books'
  <2>1. DeskTypes'  BY <1>1, DeskStepTypes
  <2>2. Kept
    <3>1. CASE CommitTopUp(d)  BY <3>1, TopUpKeeps
    <3>2. CASE CommitCashOut(d)  BY <3>2, CashOutKeeps
    <3>3. CASE CommitCharge(d)  BY <3>3, ChargeKeeps
    <3>4. CASE UNCHANGED Moved
      BY <3>4, QuietStep DEF Moved, stallVars, officeVars
    <3>5. UNCHANGED Moved \/ CommitTopUp(d) \/ CommitCashOut(d) \/ CommitCharge(d)
      BY <1>1 DEF DeskStep, AskTopUp, AskCashOut, AskCharge, Ask, PreCheck,
                  ReadWinner, Abandon
    <3> QED  BY <3>1, <3>2, <3>3, <3>4, <3>5
  <2>3. OtherTypes'
    <3>1. CASE CommitCharge(d)
      <4>1. UNCHANGED officeVars  BY <3>1 DEF CommitCharge, Moved
      <4> QED  BY <3>1, <4>1, StockTypes DEF OtherTypes, officeVars
    <3>2. CASE UNCHANGED <<onHand, delivered, collection, ended>>
      BY <3>2 DEF OtherTypes
    <3>3. CommitCharge(d) \/ UNCHANGED <<onHand, delivered, collection, ended>>
      BY <1>1 DEF DeskStep, AskTopUp, AskCashOut, AskCharge, Ask, PreCheck,
                  ReadWinner, Abandon, CommitTopUp, CommitCashOut, Moved, stallVars,
                  officeVars
    <3> QED  BY <3>1, <3>2, <3>3
  <2> QED  BY <2>1, <2>2, <2>3 DEF Kept
<1>2. CASE BandStep
  <2>1. UNCHANGED <<stallVars, officeVars, deskVars>>
    BY <1>2 DEF BandStep, ClaimBand, ReleaseBand
  <2>2. OtherTypes' /\ DeskTypes'
    BY <2>1 DEF stallVars, officeVars, deskVars, OtherTypes, DeskTypes
  <2> QED  BY <1>2, <2>2, BandKeeps DEF Kept
<1>3. CASE StallStep
  <2>1. UNCHANGED <<officeVars, deskVars>>
    BY <1>3 DEF StallStep, Reverse, MoveStock
  <2>2. OtherTypes'
    BY <1>3, <2>1, StockTypes DEF OtherTypes, officeVars
  <2>3. DeskTypes'  BY <2>1 DEF DeskTypes, deskVars
  <2>4. Kept
    <3>1. ASSUME NEW n, MoveStock(n) PROVE Kept
      BY <3>1, QuietStep DEF MoveStock, officeVars
    <3> QED  BY <1>3, <3>1, ReverseKeeps DEF StallStep
  <2> QED  BY <2>2, <2>3, <2>4 DEF Kept
<1>4. CASE OfficeStep
  <2>1. UNCHANGED <<stallVars, collection, deskVars>> /\ ended' \in BOOLEAN
    BY <1>4 DEF OfficeStep, MoveEnd, RequestPayout, TakeOn, PayOut, RejectPayout,
                OtherTypes
  <2>2. OtherTypes' /\ DeskTypes'
    <3>1. UNCHANGED <<onHand, delivered, collection, task, answer>>
      BY <2>1 DEF stallVars, deskVars
    <3> QED  BY <2>1, <3>1 DEF OtherTypes, DeskTypes
  <2>3. Kept
    <3>1. ASSUME MoveEnd PROVE Kept
      BY <3>1, QuietStep DEF MoveEnd, stallVars
    <3> QED
      BY <1>4, <3>1, RequestKeeps, TakeOnKeeps, PayOutKeeps, RejectKeeps
      DEF OfficeStep
  <2> QED  BY <2>2, <2>3 DEF Kept
<1>5. CASE CollectionStep
  <2>1. UNCHANGED <<stallVars, payout, ended, deskVars>>
    BY <1>5 DEF CollectionStep, AskCollection, FileCollection, Confirm, CallOff
  <2>2. OtherTypes' /\ DeskTypes'
    BY <1>5, <2>1, CollectionTypes
    DEF stallVars, deskVars, OtherTypes, DeskTypes
  <2>3. Kept
    <3>1. ASSUME UNCHANGED <<wallet, journal, topups, withdrawals, stallVars, payout>>
          PROVE  Kept
      BY <3>1, QuietStep DEF stallVars
    <3>2. \/ UNCHANGED <<wallet, journal, topups, withdrawals, stallVars, payout>>
          \/ \E k \in Collections : Confirm(k)
      BY <1>5 DEF CollectionStep, AskCollection, FileCollection, CallOff
    <3> QED  BY <3>1, <3>2, ConfirmKeeps
  <2> QED  BY <2>2, <2>3 DEF Kept
<1> QED  BY <1>1, <1>2, <1>3, <1>4, <1>5 DEF Next

LEMMA StutterKeeps ==
    ASSUME Typed, Books, UNCHANGED vars
    PROVE  Typed' /\ Books'
<1>1. /\ UNCHANGED <<wallet, journal, topups, withdrawals, sale, payout>>
      /\ UNCHANGED <<onHand, delivered, collection, ended, task, answer>>
  BY DEF vars, stallVars, officeVars, deskVars
<1>2. Kept  BY <1>1, QuietStep DEF Typed
<1>3. OtherTypes' /\ DeskTypes'  BY <1>1 DEF Typed, OtherTypes, DeskTypes
<1> QED  BY <1>2, <1>3 DEF Kept, Typed

(* The strengthened invariant: shapes, the books, and what ties them.         *)
THEOREM Invariance == Spec => [](Typed /\ Books)
<1>1. Typed /\ Books /\ [Next]_vars => (Typed /\ Books)'
  BY StepKeeps, StutterKeeps
<1> QED  BY <1>1, InitHolds, PTL DEF Spec

(* Every document keeps the shape of its schema, and no balance, no           *)
(* cash-funded balance and no stock ever falls below zero.                    *)
THEOREM CashlessTypes == Spec => []TypeOK
<1>1. Typed => TypeOK
  BY DEF Typed, BookTypes, OtherTypes, DeskTypes, TypeOK
<1> QED  BY <1>1, Invariance, PTL

(* Every transaction changes a wallet and posts to its account by the same    *)
(* sum: the reconciliation of balances finds nothing.                         *)
THEOREM BalancesReconcile == Spec => []StoredMatchesJournal
<1>1. Books => StoredMatchesJournal  BY DEF Books
<1> QED  BY <1>1, Invariance, PTL

(* The rule the wallet's validator states holds though no update runs it.     *)
THEOREM CashFundedIsCovered == Spec => []CashWithinBalance
<1>1. Books => CashWithinBalance  BY DEF Books
<1> QED  BY <1>1, Invariance, PTL

(* Whatever desks, tills and reversals do meanwhile, a frozen wallet still    *)
(* holds what its one open request reserved.                                  *)
THEOREM ReservationsHold == Spec => []FrozenIsReserved
<1>1. Books => FrozenIsReserved  BY DEF Books
<1> QED  BY <1>1, Invariance, PTL

-----------------------------------------------------------------------------
(* Who answers.                                                               *)

Steps(d) == PreCheck(d) \/ CommitTopUp(d) \/ CommitCashOut(d) \/ CommitCharge(d)
            \/ ReadWinner(d)

LEMMA OtherDesk ==
    ASSUME DeskTypes, NEW d \in Desks, NEW e \in Desks, e # d, DeskStep(e)
    PROVE  answer'[d] = answer[d]
<1>1. ASSUME NEW a, Answer(e, a) PROVE answer'[d] = answer[d]
  BY <1>1 DEF Answer, DeskTypes
<1>2. ASSUME NEW s, Continue(e, s) PROVE answer'[d] = answer[d]
  BY <1>2 DEF Continue
<1>3. ASSUME NEW t, Ask(e, t) PROVE answer'[d] = answer[d]
  BY <1>3 DEF Ask, DeskTypes
<1>4. ASSUME NEW same, Replayed(e, same) PROVE answer'[d] = answer[d]
  BY <1>1, <1>4 DEF Replayed
<1>5. ASSUME Replay(e) \/ ReplaySale(e) PROVE answer'[d] = answer[d]
  BY <1>4, <1>5 DEF Replay, ReplayRow, ReplaySale
<1>6. CASE AskTopUp(e) \/ AskCashOut(e) \/ AskCharge(e)
  BY <1>3, <1>6 DEF AskTopUp, AskCashOut, AskCharge
<1>7. CASE PreCheck(e) \/ ReadWinner(e) \/ Abandon(e)
  BY <1>1, <1>2, <1>5, <1>7 DEF PreCheck, ReadWinner, Abandon
<1>8. CASE CommitTopUp(e) \/ CommitCashOut(e) \/ CommitCharge(e)
  BY <1>1, <1>2, <1>5, <1>8 DEF CommitTopUp, CommitCashOut, CommitCharge
<1> QED  BY <1>6, <1>7, <1>8 DEF DeskStep

(* A desk at work has no answer until it takes a step of its own. *)
LEMMA OwnAnswer ==
    ASSUME DeskTypes, [Next]_vars, NEW d \in Desks, task[d] # NoRow,
           answer'[d] # "none"
    PROVE  Steps(d)
<1>1. answer[d] = "none"  BY DEF DeskTypes
<1>2. answer' # answer  BY <1>1
<1>3. PICK e \in Desks : DeskStep(e)
  BY <1>2 DEF Next, vars, deskVars, BandStep, ClaimBand, ReleaseBand, StallStep,
              Reverse, MoveStock, OfficeStep, MoveEnd, RequestPayout, TakeOn,
              PayOut, RejectPayout, CollectionStep, AskCollection,
              FileCollection, Confirm, CallOff
<1>4. e = d  BY <1>1, <1>3, OtherDesk
<1>5. ~Abandon(d)  BY DEF Abandon, Answer, DeskTypes
<1>6. ~(AskTopUp(d) \/ AskCashOut(d) \/ AskCharge(d))
  BY DEF AskTopUp, AskCashOut, AskCharge, Ask
<1> QED  BY <1>3, <1>4, <1>5, <1>6 DEF DeskStep, Steps

LEMMA AnswerIs ==
    ASSUME DeskTypes, NEW d \in Desks, NEW a, Answer(d, a)
    PROVE  answer'[d] = a
BY DEF Answer, DeskTypes

LEMMA ContinueIs ==
    ASSUME DeskTypes, NEW d \in Desks, NEW s, Continue(d, s), task[d] # NoRow
    PROVE  answer'[d] = "none"
BY DEF Continue, DeskTypes

LEMMA ReplayedIs ==
    ASSUME DeskTypes, NEW d \in Desks, NEW same \in BOOLEAN, Replayed(d, same)
    PROVE  answer'[d] \in {"done", "mismatch"} /\ (answer'[d] = "done" => same)
BY AnswerIs DEF Replayed

(* A repeat is told "done" only of a row that says the same. *)
SaysSo(t) ==
    \/ t.op = "topup" /\ \E r \in Under(topups, t) : SameTopup(r, t)
    \/ t.op = "cashout" /\ \E r \in Under(withdrawals, t) : SameCashOut(r, t)
    \/ t.op = "charge" /\ SameSale(sale[t.id], t)

LEMMA SaleReplayIs ==
    ASSUME DeskTypes, NEW d \in Desks, ReplaySale(d)
    PROVE  /\ answer'[d] \in {"done", "mismatch"}
           /\ answer'[d] = "done" => SameSale(sale[task[d].id], task[d])
<1> DEFINE same == ~sale[task[d].id].reversed /\ SameSale(sale[task[d].id], task[d])
<1>1. Replayed(d, same)  BY DEF ReplaySale
<1>2. same \in BOOLEAN  OBVIOUS
<1>3. same => SameSale(sale[task[d].id], task[d])  OBVIOUS
<1> HIDE DEF same
<1> QED  BY <1>1, <1>2, <1>3, ReplayedIs

LEMMA RowReplayIs ==
    ASSUME DeskTypes, NEW d \in Desks, NEW rows, ReplayRow(d, rows)
    PROVE  /\ answer'[d] \in {"done", "mismatch"}
           /\ answer'[d] = "done" =>
                 \E r \in Under(rows, task[d]) :
                    IF task[d].op = "topup" THEN SameTopup(r, task[d])
                                            ELSE SameCashOut(r, task[d])
<1> DEFINE same(r) == IF task[d].op = "topup" THEN SameTopup(r, task[d])
                                              ELSE SameCashOut(r, task[d])
<1>1. PICK r \in Under(rows, task[d]) : Replayed(d, same(r))  BY DEF ReplayRow
<1>2. same(r) \in BOOLEAN  BY DEF SameTopup, SameCashOut
<1>3. answer'[d] \in {"done", "mismatch"} /\ (answer'[d] = "done" => same(r))
  <2> HIDE DEF same
  <2> QED  BY <1>1, <1>2, ReplayedIs
<1> QED  BY <1>3

LEMMA ReplayIs ==
    ASSUME DeskTypes, NEW d \in Desks, Replay(d)
    PROVE  /\ answer'[d] \in {"done", "mismatch"}
           /\ answer'[d] = "done" => SaysSo(task[d])
BY SaleReplayIs, RowReplayIs DEF Replay, SaysSo

-----------------------------------------------------------------------------
(* A till is never told "declined" for a sale on record under its id, though  *)
(* the sale that emptied the wallet or the shelf be its own twin.             *)
THEOREM DeclinesAreTrue == Spec => DeclineIsTrue
<1>1. ASSUME DeskTypes, [Next]_vars, NEW d \in Desks, Answered(d, "declined"),
             task[d].op = "charge"
      PROVE  sale'[task[d].id] = NoRow
  <2>1. task[d] # NoRow /\ answer'[d] = "declined"  BY <1>1 DEF Answered
  <2>2. Steps(d)  BY <1>1, <2>1, OwnAnswer
  <2>3. ~Replay(d) /\ ~ReplaySale(d)  BY <1>1, <2>1, ReplayIs, SaleReplayIs
  <2>4. ~Continue(d, "checked")  BY <1>1, <2>1, ContinueIs
  <2>5. CommitCharge(d)
    BY <1>1, <2>2, <2>3, <2>4
    DEF Steps, PreCheck, ReadWinner, CommitTopUp, CommitCashOut, Ready
  <2>6. ~Answer(d, "done")  BY <1>1, <2>1, AnswerIs
  <2>7. ~SeenAgain(task[d]) /\ UNCHANGED sale
    BY <2>3, <2>5, <2>6 DEF CommitCharge, Moved, stallVars
  <2> QED  BY <2>7 DEF SeenAgain
<1>2. Typed /\ [Next]_vars =>
         [\A d \in Desks : (Answered(d, "declined") /\ task[d].op = "charge")
             => sale'[task[d].id] = NoRow]_vars
  BY <1>1 DEF Typed
<1>3. Typed /\ Books => Typed  OBVIOUS
<1>4. Spec => []Typed  BY <1>3, Invariance, PTL
<1> QED  BY <1>2, <1>4, PTL DEF Spec, DeclineIsTrue

-----------------------------------------------------------------------------
(* A desk told "done" has a row that says what it asked for.                  *)

OnRecord(t) ==
    \/ t.op = "topup" /\ \E r \in Under(topups', t) :
                            r.amount = t.amount /\ r.via = t.via
    \/ t.op = "cashout" /\ \E r \in Under(withdrawals', t) : r.amount = t.amount
    \/ t.op = "charge" /\ /\ sale'[t.id] # NoRow /\ sale'[t.id].qty = t.qty
                          /\ sale'[t.id].amount = Total(t)

LEMMA SaysSoIsRecorded ==
    ASSUME Typed, NEW d \in Desks, task[d] # NoRow, SaysSo(task[d]),
           task[d].op = "charge" => sale[task[d].id] # NoRow,
           UNCHANGED <<topups, withdrawals, sale>>
    PROVE  OnRecord(task[d])
<1> DEFINE t == task[d]
           s == sale[t.id]
<1>1. CASE t.op \in {"topup", "cashout"}
  BY <1>1 DEF SaysSo, OnRecord, SameTopup, SameCashOut, Under
<1>2. CASE t.op = "charge"
  <2>1. Shaped(t) /\ t.id \in TxnIds /\ t.amount \in Nat /\ t.qty \in 0 .. 1
    BY DEF Typed, DeskTypes, Shaped, Tasks
  <2>2. s \in Sales /\ SplitRight(s) /\ SameSale(s, t) /\ s # NoRow
    BY <1>2, <2>1 DEF Typed, BookTypes, SalesSplit, SaysSo
  <2>3. s.qty = t.qty /\ (t.qty = 0 => s.amount - s.extra = t.amount)
    BY <2>2 DEF SameSale
  <2>4. /\ s.extra = Surcharge /\ s.amount \in Nat
        /\ s.qty = 1 => s.amount = Price + Surcharge
    BY <2>2 DEF SplitRight, Sales
  <2>5. t.qty = 1 => t.amount = Price  BY <2>1 DEF Shaped
  <2>6. Surcharge \in Nat  BY CashlessAssumption
  <2> HIDE DEF s, t
  <2>7. s.amount = t.amount + Surcharge  BY <2>1, <2>3, <2>4, <2>5, <2>6
  <2> QED  BY <1>2, <2>2, <2>3, <2>7 DEF OnRecord, Total, s, t
<1>3. t.op \in {"topup", "cashout", "charge"}
  BY DEF Typed, DeskTypes, Shaped, Tasks
<1> QED  BY <1>1, <1>2, <1>3

LEMMA NewRowIsOnRecord ==
    ASSUME NEW t, t.op \in {"topup", "cashout"},
           t.op = "topup" => topups' = topups \cup {Row(t)},
           t.op = "cashout" => withdrawals' = withdrawals \cup {Row(t)}
    PROVE  OnRecord(t)
<1> DEFINE r == Row(t)
<1>1. r.wallet = t.wallet /\ r.id = t.id /\ r.amount = t.amount /\ r.via = t.via
  BY DEF Row
<1> HIDE DEF r
<1>2. CASE t.op = "topup"
  <2>1. r \in topups'  BY <1>2 DEF r
  <2>2. r \in Under(topups', t)  BY <1>1, <2>1 DEF Under
  <2> QED  BY <1>1, <1>2, <2>2 DEF OnRecord
<1>3. CASE t.op = "cashout"
  <2>1. r \in withdrawals'  BY <1>3 DEF r
  <2>2. r \in Under(withdrawals', t)  BY <1>1, <2>1 DEF Under
  <2> QED  BY <1>1, <1>3, <2>2 DEF OnRecord
<1> QED  BY <1>2, <1>3

LEMMA DoneStep ==
    ASSUME Typed, [Next]_vars, NEW d \in Desks, Answered(d, "done")
    PROVE  OnRecord(task[d])
<1> DEFINE t == task[d]
<1>1. t # NoRow /\ answer'[d] = "done" /\ DeskTypes
  BY DEF Answered, Typed
<1>2. Steps(d)  BY <1>1, OwnAnswer
<1>3. ~Continue(d, "checked") /\ ~Continue(d, "raced")  BY <1>1, ContinueIs
<1>4. ~Answer(d, "refused") /\ ~Answer(d, "declined")  BY <1>1, AnswerIs
<1>5. CASE UNCHANGED Moved
  <2>1. UNCHANGED <<topups, withdrawals, sale>>  BY <1>5 DEF Moved, stallVars
  <2>2. CASE PreCheck(d)
    <3>1. Recorded(t) /\ Replay(d)  BY <1>3, <2>2 DEF PreCheck
    <3>2. SaysSo(t)  BY <1>1, <3>1, ReplayIs
    <3> QED  BY <1>1, <2>1, <3>1, <3>2, SaysSoIsRecorded DEF Recorded
  <2>3. CASE ReadWinner(d)
    <3>1. t.op # "charge" /\ Replay(d)  BY <1>1, <2>3 DEF ReadWinner, DeskTypes
    <3>2. SaysSo(t)  BY <1>1, <3>1, ReplayIs
    <3> QED  BY <1>1, <2>1, <3>1, <3>2, SaysSoIsRecorded
  <2>4. CASE CommitTopUp(d) \/ CommitCashOut(d)
    <3>1. /\ t.op = "topup" => topups' = topups \cup {Row(t)}
          /\ t.op = "cashout" => withdrawals' = withdrawals \cup {Row(t)}
          /\ t.op \in {"topup", "cashout"}
      BY <1>3, <1>4, <2>4 DEF CommitTopUp, CommitCashOut, Withdraw, Ready
    <3> QED  BY <3>1, NewRowIsOnRecord
  <2>5. CASE CommitCharge(d)
    <3>1. CASE SeenAgain(t)
      <4>1. ReplaySale(d) /\ t.op = "charge"  BY <2>5, <3>1 DEF CommitCharge, Ready
      <4>2. SaysSo(t)  BY <1>1, <4>1, SaleReplayIs DEF SaysSo
      <4> QED  BY <1>1, <2>1, <3>1, <4>2, SaysSoIsRecorded DEF SeenAgain
    <3>2. CASE ~SeenAgain(t)
      <4>1. Sold(t, wallet[t.wallet]) /\ t.op = "charge"
        BY <1>4, <2>5, <3>2 DEF CommitCharge, Ready
      <4>2. Shaped(t) /\ t.id \in TxnIds /\ t.wallet \in Wallets
        BY <1>1 DEF DeskTypes, Shaped, Tasks
      <4>3. SaleOf(t, wallet[t.wallet]) \in Sales
        BY <4>1, <4>2, NewSale DEF Typed, BookTypes
      <4>4. sale'[t.id] = SaleOf(t, wallet[t.wallet])
        BY <4>1, <4>2 DEF Sold, Typed, BookTypes
      <4>5. SaleOf(t, wallet[t.wallet]) # NoRow /\ sale'[t.id] # NoRow
        BY <4>3, <4>4, NoRowAssumption
      <4> QED  BY <4>1, <4>4, <4>5 DEF OnRecord, SaleOf
    <3> QED  BY <3>1, <3>2
  <2> QED  BY <1>2, <2>2, <2>3, <2>4, <2>5 DEF Steps
<1>6. CASE ~UNCHANGED Moved
  <2>1. CASE CommitTopUp(d) \/ CommitCashOut(d)
    <3>1. /\ t.op = "topup" => topups' = topups \cup {Row(t)}
          /\ t.op = "cashout" => withdrawals' = withdrawals \cup {Row(t)}
          /\ t.op \in {"topup", "cashout"}
      BY <1>6, <2>1 DEF CommitTopUp, CommitCashOut, Withdraw, Ready
    <3> QED  BY <3>1, NewRowIsOnRecord
  <2>2. CASE CommitCharge(d)
    <3>1. Sold(t, wallet[t.wallet]) /\ t.op = "charge"
      BY <1>6, <2>2 DEF CommitCharge, Ready
    <3>2. Shaped(t) /\ t.id \in TxnIds /\ t.wallet \in Wallets
      BY <1>1, <3>1 DEF DeskTypes, Shaped, Tasks
    <3>3. SaleOf(t, wallet[t.wallet]) \in Sales
      BY <3>1, <3>2, NewSale DEF Typed, BookTypes
    <3>4. sale'[t.id] = SaleOf(t, wallet[t.wallet])
      BY <3>1, <3>2 DEF Sold, Typed, BookTypes
    <3>5. sale'[t.id] # NoRow  BY <3>3, <3>4, NoRowAssumption
    <3> QED  BY <3>1, <3>4, <3>5 DEF OnRecord, SaleOf
  <2> QED  BY <1>2, <1>6, <2>1, <2>2 DEF Steps, PreCheck, ReadWinner
<1> QED  BY <1>5, <1>6

(* The answer "done" is never given on the strength of another request's row, *)
(* nor before the row is there.                                               *)
THEOREM DoneIsTrue == Spec => DoneIsRecorded
<1>1. Typed /\ [Next]_vars =>
         [\A d \in Desks : Answered(d, "done") =>
             LET t == task[d] IN
             \/ t.op = "topup" /\ \E r \in Under(topups', t) :
                                     r.amount = t.amount /\ r.via = t.via
             \/ t.op = "cashout" /\ \E r \in Under(withdrawals', t) : r.amount = t.amount
             \/ t.op = "charge" /\ LET s == sale'[t.id] IN
                   s # NoRow /\ s.qty = t.qty /\ s.amount = Total(t)]_vars
  BY DoneStep DEF OnRecord
<1>2. Typed /\ Books => Typed  OBVIOUS
<1>3. Spec => []Typed  BY <1>2, Invariance, PTL
<1> QED  BY <1>1, <1>3, PTL DEF Spec, DoneIsRecorded

-----------------------------------------------------------------------------
(* The desks implement Purse.                                                 *)

Balances  == [v \in Wallets |-> wallet[v].balance]
Standings == [v \in Wallets |-> wallet[v].status]
SaleViews == [i \in TxnIds |-> SaleView(i)]

LEMMA MappedPurse ==
    ASSUME wallet \in [Wallets -> Purses], NEW w \in Wallets, NEW p, SetWallet(w, p)
    PROVE  /\ Balances' = [Balances EXCEPT ![w] = p.balance]
           /\ Standings' = [Standings EXCEPT ![w] = p.status]
           /\ Balances[w] = wallet[w].balance /\ Standings[w] = wallet[w].status
           /\ p.status = wallet[w].status => UNCHANGED Standings
           /\ p.balance = wallet[w].balance => UNCHANGED Balances
<1>1. wallet'[w] = p /\ \A v \in Wallets \ {w} : wallet'[v] = wallet[v]
  BY DEF SetWallet
<1> QED  BY <1>1 DEF Balances, Standings

LEMMA MappedSales ==
    ASSUME UNCHANGED sale
    PROVE  UNCHANGED SaleViews
BY DEF SaleViews, SaleView

(* Steps that the holder does not see. *)
LEMMA HiddenStep ==
    ASSUME UNCHANGED <<wallet, topups, withdrawals, sale>>
    PROVE  UNCHANGED Promise!vars
BY DEF Promise!vars, SaleView

LEMMA LoadStep ==
    ASSUME Typed, NEW d \in Desks, CommitTopUp(d), ~UNCHANGED Moved
    PROVE  Promise!Next
<1> DEFINE t == task[d]
           p == wallet[t.wallet]
           c == IF t.via = "cash" THEN t.amount ELSE 0
           n == Credited(p, t.amount, c)
           s == Row(t)
<1>1. /\ t # NoRow /\ t.op = "topup" /\ p.status = "active" /\ ~Recorded(t)
      /\ SetWallet(t.wallet, n) /\ topups' = topups \cup {s}
      /\ UNCHANGED <<withdrawals, sale>>
  BY DEF CommitTopUp, Ready, stallVars
<1>2. /\ t.wallet \in Wallets /\ t.amount \in Nat \ {0} /\ s.wallet = t.wallet
      /\ s.amount = t.amount /\ s.id = t.id
  BY <1>1, RowOf DEF Typed
<1>3. p \in Purses /\ wallet \in [Wallets -> Purses]
  BY <1>2 DEF Typed, BookTypes
<1>4. n.balance = p.balance + t.amount /\ n.status = p.status
  <2>1. c \in Nat /\ t.amount \in Nat  BY <1>2
  <2> HIDE DEF c
  <2> QED  BY ZenonT(30), <1>3, <2>1, CreditedPurse
<1>5. \A o \in topups : o.wallet # t.wallet \/ o.id # t.id
  BY <1>1 DEF Recorded, Under
<1>6. s \notin topups  BY <1>2, <1>5
<1> HIDE DEF n, s, t
<1>7. /\ Balances' = [Balances EXCEPT ![t.wallet] = Balances[t.wallet] + t.amount]
      /\ Standings[t.wallet] = "active" /\ UNCHANGED Standings
  BY <1>1, <1>2, <1>3, <1>4, MappedPurse
<1>8. UNCHANGED SaleViews  BY <1>1, MappedSales
<1>9. Promise!Load(s)
  BY <1>1, <1>2, <1>5, <1>7, <1>8
  DEF Promise!Load, Promise!Fresh, Promise!Becomes, Balances, Standings, SaleViews
<1>10. s \in topups' \ topups  BY <1>1, <1>6
<1>11. \E x \in topups' \ topups : Promise!Load(x)
  BY <1>9, <1>10 DEF Promise!Load, Promise!Fresh, Promise!Becomes
<1> QED  BY <1>11 DEF Promise!Next

LEMMA CashOutStep ==
    ASSUME Typed, Books, NEW d \in Desks, CommitCashOut(d), ~UNCHANGED Moved
    PROVE  Promise!Next
<1> DEFINE t == task[d]
           s == Row(t)
           p == wallet[t.wallet]
<1>1. /\ t # NoRow /\ t.op = "cashout" /\ CanPay(p, t.amount) /\ ~Recorded(t)
      /\ Withdraw(s, "active") /\ UNCHANGED <<topups, sale>>
  BY DEF CommitCashOut, Ready, stallVars
<1>2. /\ t.wallet \in Wallets /\ t.amount \in Nat \ {0} /\ s.wallet = t.wallet
      /\ s.amount = t.amount /\ s.id = t.id /\ s \in Rows
  BY <1>1, RowOf DEF Typed
<1>3. p \in Purses /\ wallet \in [Wallets -> Purses]
  BY <1>2 DEF Typed, BookTypes
<1>4. p.status = "active" /\ t.amount <= p.balance /\ p.balance \in Nat
  BY <1>1, <1>2, <1>3 DEF CanPay, Purses
<1>5. \A o \in withdrawals : o.wallet # t.wallet \/ o.id # t.id
  BY <1>1 DEF Recorded, Under
<1>6. s \notin withdrawals  BY <1>2, <1>5
<1> HIDE DEF s, t
<1>7. /\ withdrawals' = withdrawals \cup {s}
      /\ \E n \in Purses : /\ SetWallet(s.wallet, n) /\ n.status = "active"
                           /\ n.balance = wallet[s.wallet].balance - s.amount
  BY <1>1, <1>2, <1>4, WithdrawStep DEF Typed, Books
<1>8. PICK n \in Purses : /\ SetWallet(t.wallet, n) /\ n.status = "active"
                          /\ n.balance = p.balance - t.amount
  BY <1>2, <1>7
<1>9. /\ Balances' = [Balances EXCEPT ![t.wallet] = Balances[t.wallet] - t.amount]
      /\ Balances[t.wallet] = p.balance
      /\ Standings[t.wallet] = "active" /\ UNCHANGED Standings
  BY <1>2, <1>3, <1>4, <1>8, MappedPurse
<1>10. UNCHANGED SaleViews  BY <1>1, MappedSales
<1>11. s.amount \in 1 .. Balances[t.wallet]  BY <1>2, <1>4, <1>9
<1>12. s \in withdrawals' \ withdrawals  BY <1>6, <1>7
<1>13. Promise!Takes(s, Balances[t.wallet])
  BY <1>1, <1>2, <1>5, <1>7, <1>9, <1>10, <1>11
  DEF Promise!Takes, Promise!Fresh, Promise!Becomes, Balances, SaleViews
<1>14. Promise!CashOut(s)
  BY <1>2, <1>9, <1>13 DEF Promise!CashOut, Balances, Standings
<1>15. \E x \in withdrawals' \ withdrawals : Promise!CashOut(x)
  BY <1>12, <1>14
  DEF Promise!CashOut, Promise!Takes, Promise!Fresh, Promise!Becomes
<1> QED  BY <1>15 DEF Promise!Next

LEMMA SellStep ==
    ASSUME Typed, NEW d \in Desks, CommitCharge(d), ~UNCHANGED Moved
    PROVE  Promise!Next
<1> DEFINE t == task[d]
           w == t.wallet
           p == wallet[w]
           n == Debited(p, Total(t), "active")
           x == SaleOf(t, p)
<1>1. /\ t # NoRow /\ t.op = "charge" /\ ~SeenAgain(t) /\ CanPay(p, Total(t))
      /\ Sold(t, p) /\ UNCHANGED <<topups, withdrawals>>
  BY DEF CommitCharge, Ready
<1>2. Shaped(t) /\ w \in Wallets /\ t.id \in TxnIds
  BY <1>1 DEF Typed, DeskTypes, Shaped, Tasks
<1>3. /\ p \in Purses /\ wallet \in [Wallets -> Purses]
      /\ sale \in [TxnIds -> Sales \cup {NoRow}]
  BY <1>2 DEF Typed, BookTypes
<1>4. /\ x \in Sales /\ x.amount = Total(t) /\ Total(t) \in Nat \ {0}
      /\ x.wallet = w /\ ~x.reversed
  BY <1>1, <1>2, <1>3, NewSale
<1>5. p.status = "active" /\ Total(t) <= p.balance /\ p.balance \in Nat
  BY <1>1, <1>3, <1>4 DEF CanPay, Purses
<1>6. SetWallet(w, n) /\ sale' = [sale EXCEPT ![t.id] = x] /\ sale[t.id] = NoRow
  BY <1>1 DEF Sold, SeenAgain
<1>7. n.balance = p.balance - Total(t) /\ n.status = "active"
  BY <1>3, <1>4, <1>5, DebitedPurse
<1>8. x # NoRow  BY <1>4, NoRowAssumption
<1> HIDE DEF n, x
<1>9. /\ Balances' = [Balances EXCEPT ![w] = p.balance - Total(t)]
      /\ Balances[w] = p.balance
      /\ Standings[w] = "active" /\ UNCHANGED Standings
  BY <1>2, <1>3, <1>5, <1>6, <1>7, MappedPurse
<1>10. Balances'[w] = p.balance - Total(t)
  BY <1>2, <1>9 DEF Balances
<1> HIDE DEF w, p
<1>10a. PICK i \in TxnIds : i = t.id  BY <1>2
<1>11. SaleViews[i] = NoRow  BY <1>6, <1>10a DEF SaleViews, SaleView
<1>12. SaleViews' = [SaleViews EXCEPT ![i] =
                        [payer |-> w, undone |-> FALSE, total |-> Total(t)]]
  <2>1. SaleView(i)' = [payer |-> w, undone |-> FALSE, total |-> Total(t)]
    <3>1. sale'[i] = x  BY <1>3, <1>6, <1>10a
    <3>2. SaleView(i)' = [payer |-> x.wallet, total |-> x.amount,
                             undone |-> x.reversed]
      BY <1>8, <3>1 DEF SaleView
    <3>3. x.reversed = FALSE  BY <1>4 DEF Sales
    <3> QED  BY <1>4, <3>2, <3>3
  <2>2. \A j \in TxnIds \ {i} : SaleView(j)' = SaleView(j)
    BY <1>3, <1>6, <1>10a DEF SaleView
  <2> HIDE DEF t
  <2> QED  BY <2>1, <2>2 DEF SaleViews
<1>13. Balances[w] - Balances'[w] = Total(t) /\ Balances'[w] \in 0 .. Balances[w] - 1
  BY <1>4, <1>5, <1>9, <1>10
<1>14. Promise!Sell(w, i)
  <2>1. Balances' = [Balances EXCEPT ![w] = Balances'[w]]  BY <1>9, <1>10
  <2>2. SaleViews' = [SaleViews EXCEPT ![i] =
            [payer |-> w, undone |-> FALSE, total |-> Balances[w] - Balances'[w]]]
    BY <1>12, <1>13
  <2> QED
    BY <1>1, <1>9, <1>11, <1>13, <2>1, <2>2
    DEF Promise!Sell, Promise!Becomes, Balances, Standings, SaleViews
<1>15. \E v \in Wallets, j \in TxnIds : Promise!Sell(v, j)
  BY <1>2, <1>14 DEF Promise!Sell, Promise!Becomes
<1> QED  BY <1>15 DEF Promise!Next

LEMMA GiveBackStep ==
    ASSUME Typed, NEW i \in TxnIds, NEW restock \in BOOLEAN, Reverse(i, restock)
    PROVE  Promise!Next
<1> DEFINE s == sale[i]
           w == s.wallet
           n == Credited(wallet[w], s.amount, s.cash)
           x == GivenBack(s, restock)
<1>1. /\ s # NoRow /\ Reversible(s) /\ wallet[w].status = "active" /\ SetWallet(w, n)
      /\ sale' = [sale EXCEPT ![i] = x] /\ UNCHANGED <<topups, withdrawals>>
  BY DEF Reverse
<1>2. /\ s \in Sales /\ SplitRight(s) /\ sale \in [TxnIds -> Sales \cup {NoRow}]
      /\ wallet \in [Wallets -> Purses]
  BY <1>1 DEF Typed, BookTypes, SalesSplit
<1>3. w \in Wallets /\ wallet[w] \in Purses /\ s.amount \in Nat /\ s.cash \in Nat
  BY <1>2 DEF Sales
<1>4. /\ x \in Sales /\ x.wallet = w /\ x.amount = s.amount /\ x.reversed
  BY <1>2, OldSale
<1>5. n.balance = wallet[w].balance + s.amount /\ n.status = "active"
  <2>1. wallet[w].status = "active"  BY <1>1
  <2> HIDE DEF w, s
  <2>2. n.balance = wallet[w].balance + s.amount /\ n.status = wallet[w].status
    BY ZenonT(30), <1>3, CreditedPurse
  <2> QED  BY <2>1, <2>2
<1> HIDE DEF n, x
<1>6. /\ Balances' = [Balances EXCEPT ![w] = Balances[w] + s.amount]
      /\ Standings[w] = "active" /\ UNCHANGED Standings
  <2>1. SetWallet(w, n) /\ wallet[w].status = "active"  BY <1>1
  <2> HIDE DEF w, s
  <2> QED  BY <1>2, <1>3, <1>5, <2>1, MappedPurse
<1>7. SaleViews[i] = [payer |-> w, total |-> s.amount, undone |-> FALSE]
  <2>1. s.reversed = FALSE  BY <1>1, <1>2 DEF Reversible, Sales
  <2> QED  BY <1>1, <2>1 DEF SaleViews, SaleView
<1>8. SaleViews' = [SaleViews EXCEPT ![i] =
                       [payer |-> w, undone |-> TRUE, total |-> s.amount]]
  <2>1. sale'[i] = x /\ x # NoRow  BY <1>1, <1>2, <1>4, NoRowAssumption
  <2>2. SaleView(i)' = [payer |-> x.wallet, total |-> x.amount,
                        undone |-> x.reversed]
    BY <2>1 DEF SaleView
  <2>3. x.reversed = TRUE  BY <1>4 DEF Sales
  <2>4. SaleView(i)' = [payer |-> w, undone |-> TRUE, total |-> s.amount]
    BY <1>4, <2>2, <2>3
  <2>5. \A j \in TxnIds \ {i} : SaleView(j)' = SaleView(j)
    BY <1>1, <1>2 DEF SaleView
  <2> HIDE DEF w, s
  <2> QED  BY <2>4, <2>5 DEF SaleViews
<1>9. SaleViews[i] # NoRow
  <2>1. SaleViews[i] \in Views  BY <1>3, <1>7 DEF Views
  <2> QED  BY <2>1, ViewAssumption
<1> HIDE DEF w, s
<1>10. Promise!GiveBack(i)
  <2>1. /\ SaleViews[i].payer = w /\ SaleViews[i].total = s.amount
        /\ ~SaleViews[i].undone
    BY <1>7
  <2> QED
    BY <1>1, <1>6, <1>8, <1>9, <2>1
    DEF Promise!GiveBack, Promise!Becomes, Balances, Standings, SaleViews
<1>11. \E j \in TxnIds : Promise!GiveBack(j)
  BY <1>10 DEF Promise!GiveBack, Promise!Becomes
<1> QED  BY <1>11 DEF Promise!Next

LEMMA ReserveStep ==
    ASSUME Typed, NEW q \in Payouts, NEW w \in Wallets, RequestPayout(q, w)
    PROVE  Promise!Next
<1> DEFINE n == Standing(wallet[w], "frozen")
<1>1. /\ wallet[w].status = "active" /\ wallet[w].balance > 0 /\ SetWallet(w, n)
      /\ UNCHANGED <<topups, withdrawals, sale>>
  BY DEF RequestPayout, stallVars
<1>2. wallet[w] \in Purses /\ wallet \in [Wallets -> Purses]
  BY DEF Typed, BookTypes
<1>3. n.balance = wallet[w].balance /\ n.status = "frozen"  BY <1>2, OtherPurse
<1> HIDE DEF n
<1>4. /\ UNCHANGED Balances /\ Standings' = [Standings EXCEPT ![w] = "frozen"]
      /\ Standings[w] = "active" /\ Balances[w] > 0
  BY <1>1, <1>2, <1>3, MappedPurse
<1>5. UNCHANGED SaleViews  BY <1>1, MappedSales
<1>6. Promise!Reserve(w)
  BY <1>1, <1>4, <1>5
  DEF Promise!Reserve, Promise!Stands, Balances, Standings, SaleViews
<1>7. \E v \in Wallets : Promise!Reserve(v) \/ Promise!Release(v)
  BY <1>6 DEF Promise!Reserve, Promise!Stands
<1> QED  BY <1>7 DEF Promise!Next

LEMMA ReleaseStep ==
    ASSUME Typed, NEW q \in Payouts, NEW b \in Staff, RejectPayout(q, b)
    PROVE  Promise!Next
<1>1. payout[q] # NoRow /\ payout[q] \in PayoutRows
  BY DEF RejectPayout, Typed, BookTypes
<1>2. PICK w \in Wallets : w = payout[q].wallet  BY <1>1 DEF PayoutRows
<1> DEFINE n == Standing(wallet[w], "active")
<1>3. /\ wallet[w].status = "frozen" /\ SetWallet(w, n)
      /\ UNCHANGED <<topups, withdrawals, sale>>
  BY <1>2 DEF RejectPayout, Reserved, stallVars
<1>4. wallet[w] \in Purses /\ wallet \in [Wallets -> Purses]
  BY DEF Typed, BookTypes
<1>5. n.balance = wallet[w].balance /\ n.status = "active"  BY <1>4, OtherPurse
<1> HIDE DEF n
<1>6. /\ UNCHANGED Balances /\ Standings' = [Standings EXCEPT ![w] = "active"]
      /\ Standings[w] = "frozen"
  BY <1>3, <1>4, <1>5, MappedPurse
<1>7. UNCHANGED SaleViews  BY <1>3, MappedSales
<1>8. Promise!Release(w)
  BY <1>3, <1>6, <1>7
  DEF Promise!Release, Promise!Stands, Balances, Standings, SaleViews
<1>9. \E v \in Wallets : Promise!Reserve(v) \/ Promise!Release(v)
  BY <1>8 DEF Promise!Release, Promise!Stands
<1> QED  BY <1>9 DEF Promise!Next

LEMMA PayOutStep ==
    ASSUME Typed, Books, NEW q \in Payouts, NEW b \in Staff, PayOut(q, b)
    PROVE  Promise!Next
<1>1. payout[q] # NoRow /\ payout[q] \in PayoutRows
  BY DEF PayOut, Typed, BookTypes
<1>2. PICK w \in Wallets, a \in Nat \ {0} :
         w = payout[q].wallet /\ a = payout[q].amount
  BY <1>1 DEF PayoutRows
<1> DEFINE s == [wallet |-> w, id |-> q, amount |-> a, via |-> "payout",
                 by |-> "office"]
<1>3. /\ payout[q].status = "processing" /\ wallet[w].status = "frozen"
      /\ wallet[w].balance = a /\ Withdraw(s, "closed")
      /\ UNCHANGED <<topups, sale>>
  BY <1>2 DEF PayOut, Reserved, stallVars
<1>4. s \in Rows /\ s.wallet = w /\ s.amount = a /\ s.id = q
  BY DEF Rows, Vias, Clerks
<1>5. wallet \in [Wallets -> Purses]  BY DEF Typed, BookTypes
<1>6. \A o \in withdrawals : o.id # q
  BY <1>3 DEF Books, SlipsPaid
<1> HIDE DEF s
<1>7. /\ withdrawals' = withdrawals \cup {s}
      /\ \E n \in Purses : /\ SetWallet(s.wallet, n) /\ n.status = "closed"
                           /\ n.balance = wallet[s.wallet].balance - s.amount
  <2>1. s.amount <= wallet[s.wallet].balance  BY <1>2, <1>3, <1>4
  <2> QED  BY <1>3, <1>4, <2>1, WithdrawStep DEF Typed, Books
<1>8. PICK n \in Purses : /\ SetWallet(w, n) /\ n.status = "closed"
                          /\ n.balance = wallet[w].balance - a
  BY <1>4, <1>7
<1>9. /\ Balances' = [Balances EXCEPT ![w] = Balances[w] - a] /\ Balances[w] = a
      /\ Standings' = [Standings EXCEPT ![w] = "closed"] /\ Standings[w] = "frozen"
  BY <1>3, <1>5, <1>8, MappedPurse
<1>10. UNCHANGED SaleViews  BY <1>3, MappedSales
<1>11. s \in withdrawals' \ withdrawals  BY <1>4, <1>6, <1>7
<1>12. s.amount \in 1 .. Balances[w]  BY <1>2, <1>4, <1>9
<1>13. Promise!Takes(s, Balances[w])
  BY <1>3, <1>4, <1>6, <1>7, <1>9, <1>10, <1>12
  DEF Promise!Takes, Promise!Fresh, Promise!Becomes, Balances, SaleViews
<1>14. Promise!PayOut(s)
  BY <1>4, <1>9, <1>13 DEF Promise!PayOut, Promise!Stands, Balances, Standings
<1>15. \E x \in withdrawals' \ withdrawals : Promise!PayOut(x)
  BY <1>11, <1>14
  DEF Promise!PayOut, Promise!Stands, Promise!Takes, Promise!Fresh, Promise!Becomes
<1> QED  BY <1>15 DEF Promise!Next

LEMMA PurseStart == ASSUME Init PROVE Promise!Init
<1>1. /\ \A w \in Wallets : wallet[w].balance = 0 /\ wallet[w].status = "active"
      /\ topups = {} /\ withdrawals = {} /\ \A i \in TxnIds : sale[i] = NoRow
  BY DEF Init, Purse
<1> QED  BY <1>1 DEF Promise!Init, SaleView

LEMMA PurseNext ==
    ASSUME Typed, Books, Next
    PROVE  Promise!Next \/ UNCHANGED Promise!vars
<1>1. ASSUME NEW d \in Desks, DeskStep(d)
      PROVE  Promise!Next \/ UNCHANGED Promise!vars
  <2>1. CASE UNCHANGED Moved
    BY <2>1, HiddenStep DEF Moved, stallVars
  <2>2. CASE ~UNCHANGED Moved
    <3>1. CommitTopUp(d) \/ CommitCashOut(d) \/ CommitCharge(d)
      BY <1>1, <2>2 DEF DeskStep, AskTopUp, AskCashOut, AskCharge, Ask, PreCheck,
                        ReadWinner, Abandon
    <3> QED  BY <2>2, <3>1, LoadStep, CashOutStep, SellStep
  <2> QED  BY <2>1, <2>2
<1>2. CASE BandStep
  <2>1. PICK w \in Wallets, b \in Bands \cup {NoBand} :
             /\ SetWallet(w, Wearing(wallet[w], b))
             /\ UNCHANGED <<topups, withdrawals, sale>>
    BY <1>2 DEF BandStep, ReleaseBand, ClaimBand, stallVars
  <2>2. wallet \in [Wallets -> Purses] /\ wallet[w] \in Purses
    BY DEF Typed, BookTypes
  <2>3. /\ Wearing(wallet[w], b).balance = wallet[w].balance
        /\ Wearing(wallet[w], b).status = wallet[w].status
    BY <2>2, OtherPurse
  <2>4. UNCHANGED Balances /\ UNCHANGED Standings
    BY <2>1, <2>2, <2>3, MappedPurse
  <2>5. UNCHANGED SaleViews  BY <2>1, MappedSales
  <2> QED
    BY <2>1, <2>4, <2>5 DEF Promise!vars, Balances, Standings, SaleViews
<1>3. CASE StallStep
  <2>1. ASSUME NEW n, MoveStock(n) PROVE UNCHANGED Promise!vars
    BY <2>1, HiddenStep DEF MoveStock
  <2> QED  BY <1>3, <2>1, GiveBackStep DEF StallStep
<1>4. CASE OfficeStep
  <2>1. ASSUME MoveEnd \/ \E q \in Payouts, b \in Staff : TakeOn(q, b)
        PROVE  UNCHANGED Promise!vars
    BY <2>1, HiddenStep DEF MoveEnd, TakeOn, stallVars
  <2> QED
    BY <1>4, <2>1, ReserveStep, ReleaseStep, PayOutStep DEF OfficeStep
<1>5. CASE CollectionStep
  <2>1. UNCHANGED <<wallet, topups, withdrawals, stallVars>>
    BY <1>5 DEF CollectionStep, AskCollection, FileCollection, Confirm, CallOff
  <2> QED  BY <2>1, HiddenStep DEF stallVars
<1> QED  BY <1>1, <1>2, <1>3, <1>4, <1>5 DEF Next

(* Whatever is retried, raced, lost or reversed, the holder of a wallet sees  *)
(* only what Purse allows.                                                    *)
THEOREM DesksKeepPromise == Spec => PurseSpec
<1>1. Init => Promise!Init  BY PurseStart
<1>2. Typed /\ Books /\ [Next]_vars => [Promise!Next]_(Promise!vars)
  <2>1. ASSUME UNCHANGED vars PROVE UNCHANGED Promise!vars
    BY <2>1, HiddenStep DEF vars, stallVars
  <2> QED  BY <2>1, PurseNext
<1> QED  BY <1>1, <1>2, Invariance, PTL DEF Spec, PurseSpec, Promise!Spec

=============================================================================
