------------------------ MODULE CashlessBooks_proofs ------------------------
EXTENDS CashlessWallet_proofs, SumTheorems

-----------------------------------------------------------------------------
(* The sums of the books.                                                     *)

(* The same of the rows themselves. *)
LEMMA SumOfRows ==
    ASSUME NEW S, IsFiniteSet(S)
    PROVE  Sum(S) = SumFunctionOnSet([r \in S |-> r.amount], S)
<1> DEFINE f == [r \in S |-> r.amount]
           Solves(g) == g = [T \in SUBSET S |->
                               IF T = {} THEN 0 ELSE Pick(T).amount + g[T \ {Pick(T)}]]
           h == CHOOSE g : Solves(g)
<1>1. Sum(S) = h[S]
  BY DEF Sum, MapThenSumSet, MapThenFoldSet, Pick
<1>2. ASSUME NEW g PROVE Solves(g) <=> Adds(f, g, S)
  <2>1. \A T \in SUBSET S : T # {} => f[Pick(T)] = Pick(T).amount
    BY PickIn
  <2> HIDE DEF f
  <2> DEFINE a == [T \in SUBSET S |->
                     IF T = {} THEN 0 ELSE Pick(T).amount + g[T \ {Pick(T)}]]
             b == [T \in SUBSET S |->
                     IF T = {} THEN 0 ELSE f[Pick(T)] + g[T \ {Pick(T)}]]
  <2>2. a = b
    BY <2>1
  <2>3. (Solves(g) <=> g = a) /\ (Adds(f, g, S) <=> g = b)
    BY DEF Adds
  <2> QED
    BY <2>2, <2>3
<1> HIDE DEF f, Solves
<1>3. Solves(h)
  BY <1>2, AddsExists
<1> HIDE DEF h
<1>4. Adds(f, h, S) /\ Adds(f, Chosen(f, S), S)
  BY <1>2, <1>3, AddsExists DEF Chosen
<1>5. h[S] = Chosen(f, S)[S]
  BY <1>4, AddsAgree
<1> QED
  BY <1>1, <1>5, SumIsChosen DEF f

(* A row more. *)
LEMMA RowAdds ==
    ASSUME NEW R \in SUBSET Rows, IsFiniteSet(R), NEW r \in Rows, r \notin R
    PROVE  /\ Sum(R \cup {r}) = Sum(R) + r.amount
           /\ Sum(R) \in Int /\ r.amount \in Nat
<1> DEFINE f == [x \in R |-> x.amount]
           g == [x \in R \cup {r} |-> x.amount]
<1>1. \A x \in Rows : x.amount \in Nat
  BY DEF Rows
<1>2. /\ \A x \in R : f[x] \in Int /\ g[x] = f[x]
      /\ g[r] = r.amount /\ g[r] \in Int
  BY <1>1
<1>3. Sum(R) = SumFunctionOnSet(f, R)
  BY SumOfRows
<1>4. Sum(R \cup {r}) = SumFunctionOnSet(g, R \cup {r})
  BY SumOfRows, FS_AddElement
<1> HIDE DEF f, g
<1>5. /\ SumFunctionOnSet(g, R \cup {r}) = SumFunctionOnSet(f, R) + g[r]
      /\ SumFunctionOnSet(f, R) \in Int
  BY <1>2, SumGrows
<1> QED
  BY <1>1, <1>2, <1>3, <1>4, <1>5

LEMMA RowsAddUp ==
    ASSUME NEW R \in SUBSET Rows, IsFiniteSet(R)
    PROVE  Sum(R) \in Int
<1> DEFINE f == [x \in R |-> x.amount]
<1>1. \A x \in R : f[x] \in Int
  BY DEF Rows
<1>2. Sum(R) = SumFunctionOnSet(f, R)
  BY SumOfRows
<1> HIDE DEF f
<1> QED
  BY <1>1, <1>2, SumInt

LEMMA NoRows == Sum({}) = 0
  BY SumOfRows, SumEmpty, FS_EmptySet

(* What a row adds to the rows of a wallet, to its cash rows, and to the cash *)
(* rows of a clerk.                                                           *)
CashOf(R) == {r \in R : r.via = "cash"}
InCash(r) == IF r.via = "cash" THEN r.amount ELSE 0

LEMMA FilteredRow ==
    ASSUME NEW R \in SUBSET Rows, IsFiniteSet(R), NEW r \in Rows, r \notin R, NEW w, NEW c
    PROVE  /\ Sum(RowsOf(R \cup {r}, w)) =
                 Sum(RowsOf(R, w)) + (IF r.wallet = w THEN r.amount ELSE 0)
           /\ Sum(CashOf(RowsOf(R \cup {r}, w))) =
                 Sum(CashOf(RowsOf(R, w))) + (IF r.wallet = w THEN InCash(r) ELSE 0)
           /\ Sum(CashRows(R \cup {r}, c)) =
                 Sum(CashRows(R, c)) + (IF r.by = c THEN InCash(r) ELSE 0)
           /\ Sum(RowsOf(R, w)) \in Int /\ Sum(CashOf(RowsOf(R, w))) \in Int
           /\ Sum(CashRows(R, c)) \in Int
<1>1. /\ RowsOf(R, w) \in SUBSET Rows /\ CashOf(RowsOf(R, w)) \in SUBSET Rows
      /\ CashRows(R, c) \in SUBSET Rows
      /\ RowsOf(R, w) \in SUBSET R /\ CashOf(RowsOf(R, w)) \in SUBSET R
      /\ CashRows(R, c) \in SUBSET R
  BY DEF RowsOf, CashOf, CashRows
<1>2. /\ IsFiniteSet(RowsOf(R, w)) /\ IsFiniteSet(CashOf(RowsOf(R, w)))
      /\ IsFiniteSet(CashRows(R, c))
      /\ r \notin RowsOf(R, w) /\ r \notin CashOf(RowsOf(R, w)) /\ r \notin CashRows(R, c)
  BY <1>1, FS_Subset
<1>3. /\ Sum(RowsOf(R, w)) \in Int /\ Sum(CashOf(RowsOf(R, w))) \in Int
      /\ Sum(CashRows(R, c)) \in Int
  BY <1>1, <1>2, RowsAddUp
<1>4. Sum(RowsOf(R \cup {r}, w)) =
         Sum(RowsOf(R, w)) + (IF r.wallet = w THEN r.amount ELSE 0)
  <2>1. CASE r.wallet = w
    <3>1. RowsOf(R \cup {r}, w) = RowsOf(R, w) \cup {r}
      BY <2>1 DEF RowsOf
    <3> QED
      BY <1>1, <1>2, <2>1, <3>1, RowAdds
  <2>2. CASE r.wallet # w
    <3>1. RowsOf(R \cup {r}, w) = RowsOf(R, w)
      BY <2>2 DEF RowsOf
    <3> QED
      BY <1>3, <2>2, <3>1
  <2> QED
    BY <2>1, <2>2
<1>5. Sum(CashOf(RowsOf(R \cup {r}, w))) =
         Sum(CashOf(RowsOf(R, w))) + (IF r.wallet = w THEN InCash(r) ELSE 0)
  <2>1. CASE r.wallet = w /\ r.via = "cash"
    <3>1. CashOf(RowsOf(R \cup {r}, w)) = CashOf(RowsOf(R, w)) \cup {r}
      BY <2>1 DEF RowsOf, CashOf
    <3> QED
      BY <1>1, <1>2, <2>1, <3>1, RowAdds DEF InCash
  <2>2. CASE ~(r.wallet = w /\ r.via = "cash")
    <3>1. CashOf(RowsOf(R \cup {r}, w)) = CashOf(RowsOf(R, w))
      BY <2>2 DEF RowsOf, CashOf
    <3> QED
      BY <1>3, <2>2, <3>1 DEF InCash
  <2> QED
    BY <2>1, <2>2
<1>6. Sum(CashRows(R \cup {r}, c)) =
         Sum(CashRows(R, c)) + (IF r.by = c THEN InCash(r) ELSE 0)
  <2>1. CASE r.by = c /\ r.via = "cash"
    <3>1. CashRows(R \cup {r}, c) = CashRows(R, c) \cup {r}
      BY <2>1 DEF CashRows
    <3> QED
      BY <1>1, <1>2, <2>1, <3>1, RowAdds DEF InCash
  <2>2. CASE ~(r.by = c /\ r.via = "cash")
    <3>1. CashRows(R \cup {r}, c) = CashRows(R, c)
      BY <2>2 DEF CashRows
    <3> QED
      BY <1>3, <2>2, <3>1 DEF InCash
  <2> QED
    BY <2>1, <2>2
<1> QED
  BY <1>3, <1>4, <1>5, <1>6

-----------------------------------------------------------------------------
(* The ways money and goods move, as the sums see them.                       *)

SoldIds     == {i \in TxnIds : sale[i] # NoRow}
Confirmed   == {k \in Collections : collection[k] # NoRow /\ collection[k].status = "confirmed"}
GoodsFollow == \A i \in TxnIds : sale[i] # NoRow /\ sale[i].restocked => sale[i].reversed

(* Finitely many documents, and goods come back only with their money.        *)
Counted ==
    /\ IsFiniteSet(topups) /\ IsFiniteSet(withdrawals)
    /\ IsFiniteSet(SoldIds) /\ IsFiniteSet(Confirmed)
    /\ GoodsFollow

Same(w) == wallet'[w].balance = wallet[w].balance /\ wallet'[w].cash = wallet[w].cash
SamePurses == \A w \in Wallets : Same(w)
(* Only the purse of wallet w changes, by n of which c is cash. *)
Gains(w, n, c) ==
    /\ wallet'[w].balance = wallet[w].balance + n
    /\ wallet'[w].cash = wallet[w].cash + c
    /\ \A v \in Wallets \ {w} : Same(v)
CashMoves(n) == journal'["CASH_DESK"] = journal["CASH_DESK"] + n
SameConfirmed ==
    /\ Confirmed' = Confirmed
    /\ \A k \in Confirmed : /\ collection'[k].amount = collection[k].amount
                            /\ collection'[k].cashier = collection[k].cashier

Still ==
    /\ UNCHANGED <<topups, withdrawals, sale>> /\ SamePurses /\ CashMoves(0)
    /\ SameConfirmed /\ onHand' - delivered' = onHand - delivered
Loaded(r) ==
    /\ r \in Rows \ topups /\ topups' = topups \cup {r}
    /\ Gains(r.wallet, r.amount, InCash(r)) /\ CashMoves(InCash(r))
    /\ r.via = "cash" => r.by \in Cashiers \cup {"reseller"}
    /\ UNCHANGED <<withdrawals, stallVars, collection>>
PaidOut(r, c) ==
    /\ r \in Rows \ withdrawals /\ withdrawals' = withdrawals \cup {r}
    /\ c \in Nat /\ Gains(r.wallet, -r.amount, -c) /\ CashMoves(-InCash(r))
    /\ r.via = "cash" => r.by \in Cashiers
    /\ UNCHANGED <<topups, stallVars, collection>>
SaleMade(i) ==
    /\ i \in TxnIds /\ sale[i] = NoRow
    /\ sale'[i] \in Sales /\ ~sale'[i].reversed /\ ~sale'[i].restocked
    /\ \A j \in TxnIds \ {i} : sale'[j] = sale[j]
    /\ Gains(sale'[i].wallet, -sale'[i].amount, -sale'[i].cash) /\ CashMoves(0)
    /\ onHand' = onHand - sale'[i].qty
    /\ UNCHANGED <<topups, withdrawals, delivered, collection>>
SaleUndone(i) ==
    /\ i \in TxnIds /\ sale[i] \in Sales /\ ~sale[i].reversed
    /\ sale'[i] \in Sales /\ sale'[i].reversed
    /\ sale'[i].wallet = sale[i].wallet /\ sale'[i].qty = sale[i].qty
    /\ \A j \in TxnIds \ {i} : sale'[j] = sale[j]
    /\ Gains(sale[i].wallet, sale[i].amount, sale[i].cash) /\ CashMoves(0)
    /\ onHand' = onHand + (IF sale'[i].restocked THEN sale[i].qty ELSE 0)
    /\ UNCHANGED <<topups, withdrawals, delivered, collection>>
Collecting(k) ==
    /\ k \in Collections /\ k \notin Confirmed /\ collection[k] \in CollectionRows
    /\ Confirmed' = Confirmed \cup {k}
    /\ \A j \in Confirmed \cup {k} : /\ collection'[j].amount = collection[j].amount
                                     /\ collection'[j].cashier = collection[j].cashier
    /\ collection[k].amount <= CashOnHand(collection[k].cashier)
    /\ CashMoves(-collection[k].amount) /\ SamePurses
    /\ UNCHANGED <<topups, withdrawals, stallVars>>

Moves ==
    \/ Still
    \/ \E r \in Rows : Loaded(r)
    \/ \E r \in Rows, c \in Nat : PaidOut(r, c)
    \/ \E i \in TxnIds : SaleMade(i) \/ SaleUndone(i)
    \/ \E k \in Collections : Collecting(k)

-----------------------------------------------------------------------------
(* Every step is one of them.                                                 *)

LEMMA QuietMove ==
    ASSUME BookTypes, OtherTypes,
           UNCHANGED <<topups, withdrawals, sale, journal, collection>>,
           SamePurses, onHand' - delivered' = onHand - delivered
    PROVE  Still
<1>1. CashMoves(0)
  <2>1. "CASH_DESK" \in Accounts
    BY DEF Accounts, FloatTags
  <2>2. journal["CASH_DESK"] \in Int
    BY <2>1 DEF BookTypes
  <2> QED
    BY <2>2 DEF CashMoves
<1>2. SameConfirmed
  BY DEF SameConfirmed, Confirmed
<1> QED
  BY <1>1, <1>2 DEF Still

(* The purse of one wallet is replaced. *)
LEMMA PurseMove ==
    ASSUME BookTypes, NEW w \in Wallets, NEW p, SetWallet(w, p),
           NEW n \in Int, p.balance = wallet[w].balance + n,
           NEW c \in Int, p.cash = wallet[w].cash + c
    PROVE  Gains(w, n, c)
<1>1. wallet'[w] = p /\ \A v \in Wallets \ {w} : wallet'[v] = wallet[v]
  BY DEF SetWallet, BookTypes
<1> QED
  BY <1>1 DEF Gains, Same

LEMMA SamePurse ==
    ASSUME BookTypes, NEW w \in Wallets, NEW p, SetWallet(w, p),
           p.balance = wallet[w].balance, p.cash = wallet[w].cash
    PROVE  SamePurses
<1>1. wallet'[w] = p /\ \A v \in Wallets \ {w} : wallet'[v] = wallet[v]
  BY DEF SetWallet, BookTypes
<1> QED
  BY <1>1 DEF SamePurses, Same

LEMMA DrawnCash ==
    ASSUME NEW p \in Purses, NEW n \in Nat, NEW s
    PROVE  /\ Debited(p, n, s).balance = p.balance + (-n)
           /\ Debited(p, n, s).cash = p.cash + (-CashPart(p, n))
           /\ CashPart(p, n) \in Nat
  BY DEF Debited, Drawn, Purse, Purses, CashPart

LEMMA TopUpMoves ==
    ASSUME BookTypes, OtherTypes, DeskTypes, NEW d \in Desks, CommitTopUp(d)
    PROVE  Moves
<1> DEFINE t == task[d]
           p == wallet[t.wallet]
           r == Row(t)
<1>1. CASE UNCHANGED Moved
  BY <1>1, QuietMove DEF Moves, Moved, stallVars, officeVars, SamePurses, Same
<1>2. CASE ~UNCHANGED Moved
  <2>1. /\ t # NoRow /\ t.op = "topup" /\ ~Recorded(t)
        /\ SetWallet(t.wallet, Credited(p, t.amount, IF t.via = "cash" THEN t.amount ELSE 0))
        /\ journal' = [journal EXCEPT ![TopupTag[t.via]] = @ + t.amount,
                                      ![t.wallet] = @ - t.amount]
        /\ topups' = topups \cup {Row(t)}
        /\ UNCHANGED <<withdrawals, stallVars, collection>>
    BY <1>2 DEF CommitTopUp, Ready, officeVars
  <2>2. /\ r \in Rows /\ r.wallet = t.wallet /\ r.amount = t.amount /\ r.via = t.via
        /\ r.id = t.id /\ t.wallet \in Wallets /\ t.amount \in Nat \ {0}
    BY <2>1, RowOf
  <2>3. r.by = t.by /\ t.by \in Cashiers \cup {"reseller"} /\ t.via \in Methods
    BY <2>1 DEF Row, DeskTypes, Shaped
  <2>4. r \notin topups
    BY <2>1, <2>2 DEF Recorded, Under
  <2>5. Gains(t.wallet, t.amount, InCash(r))
    <3> DEFINE c == IF t.via = "cash" THEN t.amount ELSE 0
    <3>1. InCash(r) = c /\ c \in Nat /\ t.amount \in Nat
      BY <2>2 DEF InCash
    <3>2. p \in Purses
      BY <2>2 DEF BookTypes
    <3>3. SetWallet(t.wallet, Credited(p, t.amount, c))
      BY <2>1
    <3> HIDE DEF c, p, t
    <3>4. /\ Credited(p, t.amount, c).balance = p.balance + t.amount
          /\ Credited(p, t.amount, c).cash = p.cash + c
      BY <3>1, <3>2, CreditedPurse
    <3>5. Gains(t.wallet, t.amount, c)
      BY <2>2, <3>1, <3>3, <3>4, PurseMove DEF p
    <3> QED
      BY <3>1, <3>5
  <2>6. CashMoves(InCash(r))
    <3>1. /\ t.wallet \in Accounts /\ t.wallet # "CASH_DESK" /\ "CASH_DESK" \in Accounts
          /\ TopupTag[t.via] \in Accounts /\ t.wallet # TopupTag[t.via]
      BY <2>2, <2>3, AccountsApart DEF FloatTags
    <3>2. TopupTag[t.via] = "CASH_DESK" <=> t.via = "cash"
      BY <2>3, CashlessAssumption DEF TopupTag
    <3>3. journal \in [Accounts -> Int] /\ journal["CASH_DESK"] \in Int
      BY <3>1 DEF BookTypes
    <3>4. InCash(r) = IF t.via = "cash" THEN t.amount ELSE 0
      BY <2>2 DEF InCash
    <3> HIDE DEF t
    <3> QED
      BY <2>1, <2>2, <3>1, <3>2, <3>3, <3>4 DEF CashMoves
  <2>7. Loaded(r)
    BY <2>1, <2>2, <2>3, <2>4, <2>5, <2>6 DEF Loaded
  <2> QED
    BY <2>2, <2>7 DEF Moves
<1> QED
  BY <1>1, <1>2

(* A row of cash paid out leaves the cash desk, any other the office.         *)
LEMMA WithdrawMoves ==
    ASSUME BookTypes, NEW r \in Rows, NEW s, Withdraw(r, s), r \notin withdrawals,
           r.via = "cash" => r.by \in Cashiers,
           UNCHANGED <<topups, stallVars, collection>>
    PROVE  Moves
<1> DEFINE p == wallet[r.wallet]
           c == CashPart(p, r.amount)
<1>1. /\ r.wallet \in Wallets /\ r.amount \in Nat
      /\ p \in Purses
  BY DEF Rows, BookTypes
<1>2. /\ Debited(p, r.amount, s).balance = p.balance + (-r.amount)
      /\ Debited(p, r.amount, s).cash = p.cash + (-c) /\ c \in Nat
  BY <1>1, DrawnCash
<1>3. /\ SetWallet(r.wallet, Debited(p, r.amount, s))
      /\ journal' = [journal EXCEPT ![r.wallet] = @ + r.amount,
                                    ![FloatTag(r.via)] = @ - r.amount]
      /\ withdrawals' = withdrawals \cup {r}
  BY DEF Withdraw
<1>4. Gains(r.wallet, -r.amount, -c)
  <2>1. -r.amount \in Int /\ -c \in Int
    BY <1>1, <1>2
  <2> HIDE DEF c
  <2> QED
    BY <1>1, <1>2, <1>3, <2>1, PurseMove
<1>5. CashMoves(-InCash(r))
  <2>1. /\ r.wallet \in Accounts /\ r.wallet # "CASH_DESK" /\ "CASH_DESK" \in Accounts
        /\ FloatTag(r.via) \in Accounts /\ r.wallet # FloatTag(r.via)
    BY <1>1, AccountsApart DEF FloatTags
  <2>2. FloatTag(r.via) = "CASH_DESK" <=> r.via = "cash"
    BY DEF FloatTag
  <2>3. journal \in [Accounts -> Int] /\ journal["CASH_DESK"] \in Int
    BY <2>1 DEF BookTypes
  <2> QED
    BY <1>1, <1>3, <2>1, <2>2, <2>3 DEF CashMoves, InCash
<1> HIDE DEF c
<1>6. PaidOut(r, c)
  BY <1>2, <1>3, <1>4, <1>5 DEF PaidOut
<1> QED
  BY <1>2, <1>6 DEF Moves

LEMMA CashOutMoves ==
    ASSUME BookTypes, OtherTypes, DeskTypes, NEW d \in Desks, CommitCashOut(d)
    PROVE  Moves
<1> DEFINE t == task[d]
           r == Row(t)
<1>1. CASE UNCHANGED Moved
  BY <1>1, QuietMove DEF Moves, Moved, stallVars, officeVars, SamePurses, Same
<1>2. CASE ~UNCHANGED Moved
  <2>1. /\ t # NoRow /\ t.op = "cashout" /\ ~Recorded(t) /\ Withdraw(r, "active")
        /\ UNCHANGED <<topups, stallVars, collection>>
    BY <1>2 DEF CommitCashOut, Ready, officeVars
  <2>2. r \in Rows /\ r.wallet = t.wallet /\ r.via = t.via /\ r.id = t.id
    BY <2>1, RowOf
  <2>3. r.by = t.by /\ (t.via = "cash" => t.by \in Cashiers)
    BY <2>1 DEF Row, DeskTypes, Shaped
  <2>4. r \notin withdrawals
    BY <2>1, <2>2 DEF Recorded, Under
  <2> HIDE DEF r, t
  <2> QED
    BY <2>1, <2>2, <2>3, <2>4, WithdrawMoves
<1> QED
  BY <1>1, <1>2

LEMMA PayOutMoves ==
    ASSUME BookTypes, Books, NEW q \in Payouts, NEW b \in Staff, PayOut(q, b)
    PROVE  Moves
<1> DEFINE r == [wallet |-> payout[q].wallet, id |-> q, amount |-> payout[q].amount,
                 via |-> "payout", by |-> "office"]
<1>1. /\ payout[q] # NoRow /\ payout[q].status = "processing" /\ Withdraw(r, "closed")
      /\ UNCHANGED <<topups, stallVars, collection>>
  BY DEF PayOut
<1>2. payout[q] \in PayoutRows
  BY <1>1 DEF BookTypes
<1>3. r \in Rows
  BY <1>2 DEF Rows, PayoutRows, Vias, Clerks
<1>4. r \notin withdrawals
  BY <1>1 DEF Books, SlipsPaid
<1>5. r.via # "cash"
  OBVIOUS
<1> HIDE DEF r
<1> QED
  BY <1>1, <1>3, <1>4, <1>5, WithdrawMoves

LEMMA ChargeMoves ==
    ASSUME BookTypes, OtherTypes, DeskTypes, NEW d \in Desks, CommitCharge(d)
    PROVE  Moves
<1> DEFINE t == task[d]
           p == wallet[t.wallet]
           s == SaleOf(t, p)
<1>1. CASE UNCHANGED Moved
  BY <1>1, QuietMove DEF Moves, Moved, stallVars, officeVars, SamePurses, Same
<1>2. CASE ~UNCHANGED Moved
  <2>1. /\ t # NoRow /\ t.op = "charge" /\ sale[t.id] = NoRow /\ Sold(t, p)
        /\ UNCHANGED <<topups, withdrawals, delivered, collection>>
    BY <1>2 DEF CommitCharge, Ready, officeVars, SeenAgain
  <2>2. /\ Shaped(t) /\ t.wallet \in Wallets /\ t.id \in TxnIds
    BY <2>1 DEF DeskTypes, Shaped, Tasks
  <2>3. p \in Purses
    BY <2>2 DEF BookTypes
  <2>4. /\ s \in Sales /\ s.amount = Total(t) /\ Total(t) \in Nat \ {0}
        /\ s.wallet = t.wallet /\ ~s.reversed /\ s.qty = t.qty
    BY <2>1, <2>2, <2>3, NewSale
  <2>5. s.cash = CashPart(p, Total(t)) /\ ~s.restocked
    BY DEF SaleOf
  <2>6. /\ SetWallet(t.wallet, Debited(p, Total(t), "active"))
        /\ sale' = [sale EXCEPT ![t.id] = s]
        /\ onHand' = onHand - t.qty
        /\ journal' = [journal EXCEPT
             ![t.wallet] = @ + Total(t), !["MERCHANT"] = @ - (t.amount - Fee(t.amount)),
             !["FEES"] = @ - Fee(t.amount), !["ORGANIZER"] = @ - Surcharge]
    BY <2>1 DEF Sold
  <2> HIDE DEF s
  <2>7. /\ sale'[t.id] = s /\ \A j \in TxnIds \ {t.id} : sale'[j] = sale[j]
    BY <2>2, <2>6 DEF BookTypes
  <2>8. Gains(s.wallet, -s.amount, -s.cash)
    <3>1. /\ Debited(p, Total(t), "active").balance = p.balance + (-Total(t))
          /\ Debited(p, Total(t), "active").cash = p.cash + (-CashPart(p, Total(t)))
          /\ CashPart(p, Total(t)) \in Nat
      BY <2>3, <2>4, DrawnCash
    <3>2. -Total(t) \in Int /\ -CashPart(p, Total(t)) \in Int
      BY <2>4, <3>1
    <3>3. Gains(t.wallet, -Total(t), -CashPart(p, Total(t)))
      BY <2>2, <2>6, <3>1, <3>2, PurseMove
    <3> QED
      BY <2>4, <2>5, <3>3
  <2>9. CashMoves(0)
    <3>1. /\ "CASH_DESK" \in Accounts /\ t.wallet # "CASH_DESK"
      BY <2>2, AccountsApart DEF FloatTags
    <3>2. journal \in [Accounts -> Int] /\ journal["CASH_DESK"] \in Int
      BY <3>1 DEF BookTypes
    <3> HIDE DEF t
    <3> QED
      BY <2>6, <3>1, <3>2 DEF CashMoves
  <2>10. SaleMade(t.id)
    BY <2>1, <2>2, <2>4, <2>5, <2>6, <2>7, <2>8, <2>9 DEF SaleMade
  <2> QED
    BY <2>2, <2>10 DEF Moves
<1> QED
  BY <1>1, <1>2

LEMMA ReverseMoves ==
    ASSUME BookTypes, OtherTypes, NEW i \in TxnIds, NEW restock \in BOOLEAN,
           Reverse(i, restock)
    PROVE  Moves
<1> DEFINE s == sale[i]
           p == wallet[s.wallet]
<1>1. /\ s # NoRow /\ ~s.reversed
      /\ SetWallet(s.wallet, Credited(p, s.amount, s.cash))
      /\ sale' = [sale EXCEPT ![i] = GivenBack(s, restock)]
      /\ onHand' = onHand + Returned(s, restock)
      /\ journal' = [journal EXCEPT ![s.wallet] = @ - s.amount, !["MERCHANT"] = @ + s.net,
                                    !["FEES"] = @ + s.fee, !["ORGANIZER"] = @ + s.extra]
      /\ UNCHANGED <<topups, withdrawals, delivered, collection>>
  BY DEF Reverse, officeVars, Reversible
<1>2. /\ s \in Sales /\ s.wallet \in Wallets /\ s.amount \in Nat /\ s.cash \in Nat
      /\ s.qty \in 0 .. 1
  BY <1>1 DEF BookTypes, Sales
<1>3. p \in Purses
  BY <1>2 DEF BookTypes
<1>4. /\ sale'[i] = GivenBack(s, restock)
      /\ \A j \in TxnIds \ {i} : sale'[j] = sale[j]
  BY <1>1 DEF BookTypes
<1>5. /\ GivenBack(s, restock) \in Sales /\ GivenBack(s, restock).reversed
      /\ GivenBack(s, restock).wallet = s.wallet /\ GivenBack(s, restock).qty = s.qty
      /\ GivenBack(s, restock).restocked = restock
  BY <1>2 DEF GivenBack, Sales
<1>6. Gains(s.wallet, s.amount, s.cash)
  <2>1. /\ Credited(p, s.amount, s.cash).balance = p.balance + s.amount
        /\ Credited(p, s.amount, s.cash).cash = p.cash + s.cash
    BY ZenonT(30), <1>2, <1>3, CreditedPurse
  <2> QED
    BY <1>1, <1>2, <2>1, PurseMove
<1>7. CashMoves(0)
  <2>1. /\ "CASH_DESK" \in Accounts /\ s.wallet # "CASH_DESK"
    BY <1>2, AccountsApart DEF FloatTags
  <2>2. journal \in [Accounts -> Int] /\ journal["CASH_DESK"] \in Int
    BY <2>1 DEF BookTypes
  <2> HIDE DEF s
  <2> QED
    BY <1>1, <2>1, <2>2 DEF CashMoves
<1>8. onHand' = onHand + (IF sale'[i].restocked THEN s.qty ELSE 0)
  BY <1>1, <1>4, <1>5 DEF Returned
<1>9. SaleUndone(i)
  BY <1>1, <1>2, <1>4, <1>5, <1>6, <1>7, <1>8 DEF SaleUndone
<1> QED
  BY <1>9 DEF Moves

LEMMA BandMoves ==
    ASSUME BookTypes, OtherTypes, BandStep
    PROVE  Moves
<1>1. PICK w \in Wallets, b \in Bands \cup {NoBand} :
           /\ SetWallet(w, Wearing(wallet[w], b))
           /\ UNCHANGED <<journal, topups, withdrawals, stallVars, collection>>
  BY DEF BandStep, ReleaseBand, ClaimBand, officeVars
<1>2. wallet[w] \in Purses
  BY DEF BookTypes
<1>3. /\ Wearing(wallet[w], b).balance = wallet[w].balance
      /\ Wearing(wallet[w], b).cash = wallet[w].cash
  BY <1>2, OtherPurse
<1>4. SamePurses
  BY <1>1, <1>3, SamePurse
<1> QED
  BY <1>1, <1>4, QuietMove DEF Moves, stallVars, OtherTypes

LEMMA OfficeMoves ==
    ASSUME BookTypes, OtherTypes, Books, OfficeStep
    PROVE  Moves
<1>1. ASSUME NEW w \in Wallets, NEW s \in {"active", "frozen", "closed"},
             SetWallet(w, Standing(wallet[w], s)),
             UNCHANGED <<journal, topups, withdrawals, stallVars, collection>>
      PROVE  Moves
  <2>1. wallet[w] \in Purses
    BY DEF BookTypes
  <2>2. /\ Standing(wallet[w], s).balance = wallet[w].balance
        /\ Standing(wallet[w], s).cash = wallet[w].cash
    BY <2>1 DEF Standing, Purse
  <2>3. SamePurses
    BY <1>1, <2>2, SamePurse
  <2> QED
    BY <1>1, <2>3, QuietMove DEF Moves, stallVars, OtherTypes
<1>2. ASSUME UNCHANGED <<wallet, journal, topups, withdrawals, stallVars, collection>>
      PROVE  Moves
  BY <1>2, QuietMove DEF Moves, stallVars, OtherTypes, SamePurses, Same
<1>3. CASE MoveEnd
  BY <1>2, <1>3 DEF MoveEnd
<1>4. ASSUME NEW q \in Payouts, NEW w \in Wallets, RequestPayout(q, w)
      PROVE  Moves
  BY <1>1, <1>4 DEF RequestPayout
<1>5. ASSUME NEW q \in Payouts, NEW b \in Staff, TakeOn(q, b)
      PROVE  Moves
  BY <1>2, <1>5 DEF TakeOn
<1>6. ASSUME NEW q \in Payouts, NEW b \in Staff, RejectPayout(q, b)
      PROVE  Moves
  <2>1. payout[q].wallet \in Wallets
    BY <1>6 DEF RejectPayout, BookTypes, PayoutRows
  <2> QED
    BY <1>1, <1>6, <2>1 DEF RejectPayout
<1> QED
  BY <1>3, <1>4, <1>5, <1>6, PayOutMoves DEF OfficeStep

(* A collection counts from the moment it is confirmed. *)
LEMMA CollectedMoves ==
    ASSUME BookTypes, OtherTypes, NEW k \in Collections, collection[k] # NoRow,
           collection[k].status # "confirmed", NEW s, Collected(k, s)
    PROVE  /\ Confirmed' = IF s = "confirmed" THEN Confirmed \cup {k} ELSE Confirmed
           /\ k \notin Confirmed
           /\ \A j \in Confirmed \cup {k} : /\ collection'[j].amount = collection[j].amount
                                            /\ collection'[j].cashier = collection[j].cashier
<1> DEFINE r == [cashier |-> collection[k].cashier, amount |-> collection[k].amount,
                 status |-> s]
<1>1. /\ collection'[k] = r
      /\ \A j \in Collections \ {k} : collection'[j] = collection[j]
  BY DEF Collected, OtherTypes
<1>2. /\ r.status = s /\ r.cashier = collection[k].cashier
      /\ r.amount = collection[k].amount
  OBVIOUS
<1>3. s = "confirmed" => r # NoRow
  <2>1. collection[k] \in CollectionRows
    BY DEF OtherTypes
  <2>2. s = "confirmed" => r \in CollectionRows
    BY <2>1 DEF CollectionRows
  <2> QED
    BY <2>2, NoRowAssumption
<1> HIDE DEF r
<1> QED
  BY <1>1, <1>2, <1>3 DEF Confirmed

LEMMA ConfirmCollects ==
    ASSUME BookTypes, OtherTypes, NEW k \in Collections, Confirm(k)
    PROVE  Collecting(k)
<1>1. /\ collection[k] # NoRow /\ collection[k].status # "confirmed"
      /\ Collected(k, "confirmed")
      /\ collection[k].amount <= CashOnHand(collection[k].cashier)
      /\ journal' = [journal EXCEPT !["CASH_DESK"] = @ - collection[k].amount,
                                    !["COLLECTOR_CASH"] = @ + collection[k].amount]
      /\ UNCHANGED <<wallet, topups, withdrawals, stallVars>>
  BY DEF Confirm, Holds
<1>2. collection[k] \in CollectionRows /\ collection[k].amount \in Nat
  BY <1>1 DEF OtherTypes, CollectionRows
<1>3. CashMoves(-collection[k].amount)
  <2>1. "CASH_DESK" \in Accounts
    BY DEF Accounts, FloatTags
  <2>2. journal["CASH_DESK"] \in Int /\ journal \in [Accounts -> Int]
    BY <2>1 DEF BookTypes
  <2> QED
    BY <1>1, <1>2, <2>1, <2>2 DEF CashMoves
<1>4. /\ Confirmed' = Confirmed \cup {k} /\ k \notin Confirmed
      /\ \A j \in Confirmed \cup {k} : /\ collection'[j].amount = collection[j].amount
                                       /\ collection'[j].cashier = collection[j].cashier
  BY <1>1, CollectedMoves
<1>5. Collecting(k)
  BY <1>1, <1>2, <1>3, <1>4 DEF Collecting, SamePurses, Same
<1> QED
  BY <1>5

LEMMA CollectionMoves ==
    ASSUME BookTypes, OtherTypes, CollectionStep
    PROVE  Moves
<1>1. ASSUME UNCHANGED <<wallet, journal, topups, withdrawals, stallVars>>, SameConfirmed
      PROVE  Moves
  <2>1. CashMoves(0)
    <3>1. "CASH_DESK" \in Accounts
      BY DEF Accounts, FloatTags
    <3>2. journal["CASH_DESK"] \in Int
      BY <3>1 DEF BookTypes
    <3> QED
      BY <1>1, <3>2 DEF CashMoves
  <2>2. Still
    BY <1>1, <2>1 DEF Still, stallVars, SamePurses, Same
  <2> QED
    BY <2>2 DEF Moves
<1>2. PICK k \in Collections :
        \/ \E c \in Cashiers, n \in Amounts : AskCollection(k, c, n)
        \/ FileCollection(k) \/ Confirm(k) \/ CallOff(k, "rejected")
        \/ CallOff(k, "cancelled")
  BY DEF CollectionStep
<1>3. ASSUME NEW c \in Cashiers, NEW n \in Amounts, AskCollection(k, c, n)
      PROVE  Moves
  <2> DEFINE r == [cashier |-> c, amount |-> n, status |-> "checked"]
  <2>1. /\ collection[k] = NoRow /\ collection'[k] = r
        /\ \A j \in Collections \ {k} : collection'[j] = collection[j]
    BY <1>3 DEF AskCollection, OtherTypes
  <2>2. r.status # "confirmed"
    OBVIOUS
  <2> HIDE DEF r
  <2>3. SameConfirmed
    BY <2>1, <2>2 DEF SameConfirmed, Confirmed
  <2> QED
    BY <1>1, <1>3, <2>3 DEF AskCollection
<1>4. ASSUME FileCollection(k) \/ CallOff(k, "rejected") \/ CallOff(k, "cancelled")
      PROVE  Moves
  <2>1. PICK s \in {"pending", "rejected", "cancelled"} :
           /\ collection[k] # NoRow /\ collection[k].status # "confirmed" /\ Collected(k, s)
           /\ UNCHANGED <<wallet, journal, topups, withdrawals, stallVars>>
    BY <1>4 DEF FileCollection, CallOff
  <2>2. SameConfirmed
    BY <2>1, CollectedMoves DEF SameConfirmed
  <2> QED
    BY <1>1, <2>1, <2>2
<1>5. ASSUME Confirm(k)
      PROVE  Moves
  BY <1>5, ConfirmCollects DEF Moves
<1> QED
  BY <1>2, <1>3, <1>4, <1>5

LEMMA EveryStepMoves ==
    ASSUME Typed, Books, [Next]_vars
    PROVE  Moves
<1> USE DEF Typed
<1>0. ASSUME UNCHANGED <<wallet, journal, topups, withdrawals, stallVars, collection>>
      PROVE  Moves
  BY <1>0, QuietMove DEF Moves, stallVars, OtherTypes, SamePurses, Same
<1>1. ASSUME NEW d \in Desks, DeskStep(d)
      PROVE  Moves
  <2>1. UNCHANGED Moved \/ CommitTopUp(d) \/ CommitCashOut(d) \/ CommitCharge(d)
    BY <1>1 DEF DeskStep, AskTopUp, AskCashOut, AskCharge, Ask, PreCheck,
                ReadWinner, Abandon
  <2>2. CASE UNCHANGED Moved
    BY <1>0, <2>2 DEF Moved, officeVars
  <2> QED
    BY <2>1, <2>2, TopUpMoves, CashOutMoves, ChargeMoves
<1>2. CASE StallStep
  <2>1. ASSUME NEW n \in -MaxStock .. MaxStock, MoveStock(n)
        PROVE  Moves
    <3>1. n \in Int /\ onHand \in Int /\ delivered \in Int
      BY CashlessAssumption DEF OtherTypes
    <3>2. /\ onHand' - delivered' = onHand - delivered
          /\ UNCHANGED <<wallet, journal, topups, withdrawals, sale, collection>>
      BY <2>1, <3>1 DEF MoveStock, officeVars
    <3> QED
      BY <3>2, QuietMove DEF Moves, SamePurses, Same
  <2> QED
    BY <1>2, <2>1, ReverseMoves DEF StallStep
<1>3. CASE UNCHANGED vars
  BY <1>0, <1>3 DEF vars, officeVars
<1> QED
  BY <1>1, <1>2, <1>3, BandMoves, OfficeMoves, CollectionMoves DEF Next

-----------------------------------------------------------------------------
(* The documents stay finitely many.                                          *)

LEMMA CountedKeeps ==
    ASSUME Typed, Typed', Counted, Moves
    PROVE  Counted'
<1>1. IsFiniteSet(topups')
  <2>1. topups' = topups \/ \E r : topups' = topups \cup {r}
    BY DEF Moves, Still, Loaded, PaidOut, SaleMade, SaleUndone, Collecting
  <2> QED
    BY <2>1, FS_AddElement DEF Counted
<1>2. IsFiniteSet(withdrawals')
  <2>1. withdrawals' = withdrawals \/ \E r : withdrawals' = withdrawals \cup {r}
    BY DEF Moves, Still, Loaded, PaidOut, SaleMade, SaleUndone, Collecting
  <2> QED
    BY <2>1, FS_AddElement DEF Counted
<1>3. IsFiniteSet(SoldIds') /\ GoodsFollow'
  <2>1. CASE UNCHANGED sale
    BY <2>1 DEF Counted, SoldIds, GoodsFollow
  <2>2. ASSUME NEW i \in TxnIds, SaleMade(i)
        PROVE  IsFiniteSet(SoldIds') /\ GoodsFollow'
    <3>1. SoldIds' \subseteq SoldIds \cup {i}
      BY <2>2 DEF SoldIds, SaleMade
    <3>2. IsFiniteSet(SoldIds \cup {i})
      BY FS_AddElement DEF Counted
    <3> QED
      BY <2>2, <3>1, <3>2, FS_Subset DEF Counted, GoodsFollow, SaleMade
  <2>3. ASSUME NEW i \in TxnIds, SaleUndone(i)
        PROVE  IsFiniteSet(SoldIds') /\ GoodsFollow'
    <3>1. sale[i] # NoRow
      BY <2>3, NoRowAssumption DEF SaleUndone
    <3>2. SoldIds' \subseteq SoldIds
      BY <2>3, <3>1 DEF SoldIds, SaleUndone
    <3> QED
      BY <2>3, <3>2, FS_Subset DEF Counted, GoodsFollow, SaleUndone
  <2>4. UNCHANGED sale \/ \E i \in TxnIds : SaleMade(i) \/ SaleUndone(i)
    BY DEF Moves, Still, Loaded, PaidOut, Collecting, stallVars
  <2> QED
    BY <2>1, <2>2, <2>3, <2>4
<1>4. IsFiniteSet(Confirmed')
  <2>1. Confirmed' = Confirmed \/ \E k : Confirmed' = Confirmed \cup {k}
    BY DEF Moves, Still, SameConfirmed, Loaded, PaidOut, SaleMade, SaleUndone,
           Collecting, Confirmed
  <2> QED
    BY <2>1, FS_AddElement DEF Counted
<1> QED
  BY <1>1, <1>2, <1>3, <1>4 DEF Counted

-----------------------------------------------------------------------------
(* Sums over the sales s, whose every document is one or none.                *)

KeptIn(s, w) == {i \in TxnIds : s[i] # NoRow /\ s[i].wallet = w /\ ~s[i].reversed}
GoneIn(s)    == {i \in TxnIds : s[i] # NoRow /\ ~s[i].restocked}
KeptSum(s, k, w) == FieldSum(s, k, KeptIn(s, w))
GoneSum(s)       == FieldSum(s, "qty", GoneIn(s))
SaleBook(s) == /\ s \in [TxnIds -> Sales \cup {NoRow}]
               /\ IsFiniteSet({i \in TxnIds : s[i] # NoRow})

LEMMA SaleFields ==
    ASSUME NEW s, SaleBook(s)
    PROVE  \A i \in TxnIds : s[i] # NoRow =>
              \A k \in {"amount", "cash", "qty"} : s[i][k] \in Nat
  BY DEF SaleBook, Sales

LEMMA KeptFinite ==
    ASSUME NEW s, SaleBook(s), NEW w
    PROVE  /\ IsFiniteSet(KeptIn(s, w)) /\ IsFiniteSet(GoneIn(s))
           /\ \A i \in KeptIn(s, w) \cup GoneIn(s) : i \in TxnIds /\ s[i] # NoRow
           /\ \A k \in {"amount", "cash"} : KeptSum(s, k, w) \in Int
           /\ GoneSum(s) \in Int
<1>1. /\ IsFiniteSet(KeptIn(s, w)) /\ IsFiniteSet(GoneIn(s))
  <2>1. /\ KeptIn(s, w) \subseteq {i \in TxnIds : s[i] # NoRow}
        /\ GoneIn(s) \subseteq {i \in TxnIds : s[i] # NoRow}
    BY DEF KeptIn, GoneIn
  <2> QED
    BY <2>1, FS_Subset DEF SaleBook
<1>2. \A i \in KeptIn(s, w) \cup GoneIn(s) : i \in TxnIds /\ s[i] # NoRow
  BY DEF KeptIn, GoneIn
<1>3. ASSUME NEW k \in {"amount", "cash"} PROVE KeptSum(s, k, w) \in Int
  <2>1. \A i \in KeptIn(s, w) : s[i][k] \in Int /\ s[i][k] = s[i][k]
    BY <1>2, SaleFields
  <2> QED
    BY <1>1, <2>1, FieldSame DEF KeptSum
<1>4. GoneSum(s) \in Int
  <2>1. \A i \in GoneIn(s) : s[i]["qty"] \in Int /\ s[i]["qty"] = s[i]["qty"]
    BY <1>2, SaleFields
  <2> QED
    BY <1>1, <2>1, FieldSame DEF GoneSum
<1> QED
  BY <1>1, <1>2, <1>3, <1>4

(* A sale more. *)
LEMMA SaleAdds ==
    ASSUME NEW s, SaleBook(s), NEW u, SaleBook(u), NEW i \in TxnIds,
           s[i] = NoRow, u[i] \in Sales, ~u[i].reversed, ~u[i].restocked,
           \A j \in TxnIds \ {i} : u[j] = s[j], NEW w
    PROVE  /\ \A k \in {"amount", "cash"} :
                 KeptSum(u, k, w) = KeptSum(s, k, w)
                                    + (IF u[i].wallet = w THEN u[i][k] ELSE 0)
           /\ GoneSum(u) = GoneSum(s) + u[i].qty
<1>1. u[i] # NoRow
  BY NoRowAssumption
<1>2. \A k \in {"amount", "cash", "qty"} : u[i][k] \in Int
  BY <1>1, SaleFields
<1>3. i \notin KeptIn(s, w) /\ i \notin GoneIn(s)
  BY DEF KeptIn, GoneIn
<1>4. /\ KeptIn(u, w) = IF u[i].wallet = w THEN KeptIn(s, w) \cup {i} ELSE KeptIn(s, w)
      /\ GoneIn(u) = GoneIn(s) \cup {i}
  BY <1>1 DEF KeptIn, GoneIn
<1>5. /\ IsFiniteSet(KeptIn(s, w)) /\ IsFiniteSet(GoneIn(s))
      /\ \A k \in {"amount", "cash"} : KeptSum(s, k, w) \in Int
      /\ \A j \in KeptIn(s, w) \cup GoneIn(s) : j \in TxnIds /\ s[j] # NoRow
  BY KeptFinite
<1>6. ASSUME NEW j, j \in KeptIn(s, w) \cup GoneIn(s), NEW k, k \in {"amount", "cash", "qty"}
      PROVE  s[j][k] \in Int /\ u[j][k] = s[j][k]
  BY <1>3, <1>5, <1>6, SaleFields
<1>7. ASSUME NEW k, k \in {"amount", "cash"}
      PROVE  KeptSum(u, k, w) = KeptSum(s, k, w)
                                + (IF u[i].wallet = w THEN u[i][k] ELSE 0)
  <2>1. CASE u[i].wallet = w
    <3>1. /\ \A x \in KeptIn(s, w) : s[x][k] \in Int /\ u[x][k] = s[x][k]
          /\ u[i][k] \in Int
      BY <1>2, <1>6, <1>7
    <3>2. FieldSum(u, k, KeptIn(s, w) \cup {i}) = FieldSum(s, k, KeptIn(s, w)) + u[i][k]
      BY ONLY <1>3, <1>5, <3>1, FieldGrows
    <3> QED
      BY <1>4, <2>1, <3>2 DEF KeptSum
  <2>2. CASE u[i].wallet # w
    <3>1. \A x \in KeptIn(s, w) : s[x][k] \in Int /\ u[x][k] = s[x][k]
      BY <1>6, <1>7
    <3>2. FieldSum(u, k, KeptIn(s, w)) = FieldSum(s, k, KeptIn(s, w))
      BY ONLY <1>5, <3>1, FieldSame
    <3>3. KeptSum(u, k, w) = KeptSum(s, k, w)
      BY <1>4, <2>2, <3>2 DEF KeptSum
    <3> QED
      BY <1>5, <1>7, <2>2, <3>3
  <2> QED
    BY <2>1, <2>2
<1>8. GoneSum(u) = GoneSum(s) + u[i].qty
  <2>1. /\ \A x \in GoneIn(s) : s[x]["qty"] \in Int /\ u[x]["qty"] = s[x]["qty"]
        /\ u[i]["qty"] \in Int
    BY <1>2, <1>6
  <2>2. FieldSum(u, "qty", GoneIn(s) \cup {i}) = FieldSum(s, "qty", GoneIn(s)) + u[i]["qty"]
    BY ONLY <1>3, <1>5, <2>1, FieldGrows
  <2> QED
    BY <1>4, <2>2 DEF GoneSum
<1> QED
  BY <1>7, <1>8

(* A sale given back, its goods too or not. *)
LEMMA SaleLeaves ==
    ASSUME NEW s, SaleBook(s), NEW u, SaleBook(u), NEW i \in TxnIds,
           s[i] \in Sales, ~s[i].reversed, ~s[i].restocked,
           u[i] \in Sales, u[i].reversed, u[i].qty = s[i].qty,
           \A j \in TxnIds \ {i} : u[j] = s[j], NEW w
    PROVE  /\ \A k \in {"amount", "cash"} :
                 KeptSum(u, k, w) = KeptSum(s, k, w)
                                    - (IF s[i].wallet = w THEN s[i][k] ELSE 0)
           /\ GoneSum(u) = GoneSum(s) - (IF u[i].restocked THEN s[i].qty ELSE 0)
<1>1. s[i] # NoRow /\ u[i] # NoRow
  BY NoRowAssumption
<1>2. \A k \in {"amount", "cash", "qty"} : s[i][k] \in Int
  BY <1>1, SaleFields
<1>3. /\ i \in KeptIn(s, w) <=> s[i].wallet = w
      /\ i \in GoneIn(s)
  BY <1>1 DEF KeptIn, GoneIn
<1>4. /\ KeptIn(u, w) = KeptIn(s, w) \ {i}
      /\ GoneIn(u) = IF u[i].restocked THEN GoneIn(s) \ {i} ELSE GoneIn(s)
  BY <1>1 DEF KeptIn, GoneIn
<1>5. /\ IsFiniteSet(KeptIn(s, w)) /\ IsFiniteSet(GoneIn(s))
      /\ \A k \in {"amount", "cash"} : KeptSum(s, k, w) \in Int
      /\ GoneSum(s) \in Int
      /\ \A j \in KeptIn(s, w) \cup GoneIn(s) : j \in TxnIds /\ s[j] # NoRow
  BY KeptFinite
<1>6. ASSUME NEW j, j \in KeptIn(s, w) \cup GoneIn(s), NEW k, k \in {"amount", "cash", "qty"}
      PROVE  s[j][k] \in Int /\ (j # i => u[j][k] = s[j][k])
  BY <1>5, <1>6, SaleFields
<1>7. ASSUME NEW k, k \in {"amount", "cash"}
      PROVE  KeptSum(u, k, w) = KeptSum(s, k, w)
                                - (IF s[i].wallet = w THEN s[i][k] ELSE 0)
  <2>1. CASE s[i].wallet = w
    <3>1. /\ \A x \in KeptIn(s, w) : s[x][k] \in Int
          /\ \A x \in KeptIn(s, w) \ {i} : u[x][k] = s[x][k]
          /\ i \in KeptIn(s, w)
      BY <1>3, <1>6, <1>7, <2>1
    <3>2. FieldSum(u, k, KeptIn(s, w) \ {i}) = FieldSum(s, k, KeptIn(s, w)) - s[i][k]
      BY ONLY <1>5, <3>1, FieldShrinks
    <3> QED
      BY <1>4, <2>1, <3>2 DEF KeptSum
  <2>2. CASE s[i].wallet # w
    <3>1. /\ \A x \in KeptIn(s, w) : s[x][k] \in Int /\ u[x][k] = s[x][k]
          /\ KeptIn(s, w) \ {i} = KeptIn(s, w)
      BY <1>3, <1>6, <1>7, <2>2
    <3>2. FieldSum(u, k, KeptIn(s, w)) = FieldSum(s, k, KeptIn(s, w))
      BY ONLY <1>5, <3>1, FieldSame
    <3>3. KeptSum(u, k, w) = KeptSum(s, k, w)
      BY <1>4, <3>1, <3>2 DEF KeptSum
    <3> QED
      BY <1>5, <1>7, <2>2, <3>3
  <2> QED
    BY <2>1, <2>2
<1>8. GoneSum(u) = GoneSum(s) - (IF u[i].restocked THEN s[i].qty ELSE 0)
  <2>1. CASE u[i].restocked
    <3>0. PICK k : k = "qty"
      OBVIOUS
    <3>1. /\ \A x \in GoneIn(s) : s[x][k] \in Int
          /\ \A x \in GoneIn(s) \ {i} : u[x][k] = s[x][k]
          /\ i \in GoneIn(s) /\ IsFiniteSet(GoneIn(s))
      BY <1>3, <1>5, <1>6, <3>0
    <3>2. FieldSum(u, k, GoneIn(s) \ {i}) = FieldSum(s, k, GoneIn(s)) - s[i][k]
      BY ONLY <3>1, FieldShrinks
    <3> QED
      BY <1>4, <2>1, <3>0, <3>2 DEF GoneSum
  <2>2. CASE ~u[i].restocked
    <3>1. \A x \in GoneIn(s) : s[x]["qty"] \in Int /\ u[x]["qty"] = s[x]["qty"]
      BY <1>6
    <3>2. FieldSum(u, "qty", GoneIn(s)) = FieldSum(s, "qty", GoneIn(s))
      BY ONLY <1>5, <3>1, FieldSame
    <3>3. GoneSum(u) = GoneSum(s)
      BY <1>4, <2>2, <3>2 DEF GoneSum
    <3> QED
      BY <1>5, <2>2, <3>3
  <2> QED
    BY <2>1, <2>2
<1> QED
  BY <1>7, <1>8

(* The books' own sums are these, now and after a step. *)
LEMMA SaleSums ==
    ASSUME NEW w, SaleBook(sale)
    PROVE  /\ SumSales(w) = KeptSum(sale, "amount", w)
           /\ MapThenSumSet(LAMBDA i : sale[i].cash, KeptSales(w)) = KeptSum(sale, "cash", w)
           /\ MapThenSumSet(LAMBDA i : sale[i].qty, GoneSales) = GoneSum(sale)
<1>1. KeptSales(w) = KeptIn(sale, w) /\ GoneSales = GoneIn(sale)
  BY DEF KeptSales, KeptIn, GoneSales, GoneIn
<1>2. IsFiniteSet(KeptIn(sale, w)) /\ IsFiniteSet(GoneIn(sale))
  BY KeptFinite
<1>3. /\ FieldFold(sale, "amount", KeptIn(sale, w)) = KeptSum(sale, "amount", w)
      /\ FieldFold(sale, "cash", KeptIn(sale, w)) = KeptSum(sale, "cash", w)
      /\ FieldFold(sale, "qty", GoneIn(sale)) = GoneSum(sale)
  BY <1>2, FoldOfField DEF KeptSum, GoneSum
<1>4. /\ SumSales(w) = FieldFold(sale, "amount", KeptSales(w))
      /\ MapThenSumSet(LAMBDA i : sale[i].cash, KeptSales(w))
           = FieldFold(sale, "cash", KeptSales(w))
      /\ MapThenSumSet(LAMBDA i : sale[i].qty, GoneSales)
           = FieldFold(sale, "qty", GoneSales)
  BY DEF SumSales, FieldFold, MapThenSumSet, MapThenFoldSet
<1> QED
  BY <1>1, <1>3, <1>4

LEMMA RowSums ==
    ASSUME NEW R, R \subseteq Rows, IsFiniteSet(R), NEW w, NEW c
    PROVE  /\ Sum(RowsOf(R, w)) \in Int /\ Sum(CashOf(RowsOf(R, w))) \in Int
           /\ Sum(CashRows(R, c)) \in Int
<1>1. /\ RowsOf(R, w) \in SUBSET Rows /\ CashOf(RowsOf(R, w)) \in SUBSET Rows
      /\ CashRows(R, c) \in SUBSET Rows
      /\ RowsOf(R, w) \subseteq R /\ CashOf(RowsOf(R, w)) \subseteq R
      /\ CashRows(R, c) \subseteq R
  BY DEF RowsOf, CashOf, CashRows
<1>2. /\ IsFiniteSet(RowsOf(R, w)) /\ IsFiniteSet(CashOf(RowsOf(R, w)))
      /\ IsFiniteSet(CashRows(R, c))
  BY <1>1, FS_Subset
<1> QED
  BY <1>1, <1>2, RowsAddUp

LEMMA SaleBooks ==
    ASSUME Typed, Typed', Counted, Counted'
    PROVE  SaleBook(sale) /\ SaleBook(sale')
  BY DEF Typed, BookTypes, Counted, SaleBook, SoldIds

LEMMA PurseNumbers ==
    ASSUME Typed
    PROVE  \A w \in Wallets : wallet[w].balance \in Nat /\ wallet[w].cash \in Nat
  BY DEF Typed, BookTypes, Purses

-----------------------------------------------------------------------------
(* What one wallet's statement adds up to, and what its cash is made of.      *)

Worth(w)  == Sum(RowsOf(topups, w)) - Sum(RowsOf(withdrawals, w))
             - KeptSum(sale, "amount", w)
CashIn(w) == Sum(CashOf(RowsOf(topups, w))) - KeptSum(sale, "cash", w)
Explained == \A w \in Wallets : /\ wallet[w].balance = Worth(w)
                                /\ wallet[w].cash <= CashIn(w)

LEMMA ExplainedIs ==
    ASSUME SaleBook(sale), Typed, Counted
    PROVE  Explained <=> StatementExplainsBalance /\ CashComesFromCash
<1>1. ASSUME NEW w \in Wallets
      PROVE  /\ Worth(w) = Sum(RowsOf(topups, w)) - Sum(RowsOf(withdrawals, w)) - SumSales(w)
             /\ (wallet[w].cash <= CashIn(w)) <=>
                   wallet[w].cash + MapThenSumSet(LAMBDA i : sale[i].cash, KeptSales(w))
                     <= Sum({r \in RowsOf(topups, w) : r.via = "cash"})
  <2>1. Worth(w) = Sum(RowsOf(topups, w)) - Sum(RowsOf(withdrawals, w)) - SumSales(w)
    BY SaleSums, Zenon DEF Worth
  <2>2. MapThenSumSet(LAMBDA i : sale[i].cash, KeptSales(w)) = KeptSum(sale, "cash", w)
    BY SaleSums
  <2>3. CashIn(w) = Sum({r \in RowsOf(topups, w) : r.via = "cash"}) - KeptSum(sale, "cash", w)
    BY Zenon DEF CashIn, CashOf
  <2>4. KeptSum(sale, "cash", w) \in Int
    BY KeptFinite
  <2>5. Sum({r \in RowsOf(topups, w) : r.via = "cash"}) \in Int
    BY RowSums DEF CashOf, Typed, BookTypes, Counted
  <2>6. wallet[w].cash \in Nat
    BY PurseNumbers
  <2> QED
    BY ONLY <2>1, <2>2, <2>3, <2>4, <2>5, <2>6
<1> QED
  BY <1>1 DEF Explained, StatementExplainsBalance, CashComesFromCash

LEMMA ExplainedKeeps ==
    ASSUME Typed, Typed', Counted, Counted', Moves, Explained
    PROVE  Explained'
<1> SUFFICES ASSUME NEW w \in Wallets
             PROVE  wallet'[w].balance = Worth(w)' /\ wallet'[w].cash <= CashIn(w)'
  BY DEF Explained
<1> DEFINE I == Sum(RowsOf(topups, w))
           O == Sum(RowsOf(withdrawals, w))
           C == Sum(CashOf(RowsOf(topups, w)))
           A == KeptSum(sale, "amount", w)
           K == KeptSum(sale, "cash", w)
           b == wallet[w].balance
           c == wallet[w].cash
<1>1. /\ b = I - O - A /\ c <= C - K
      /\ b \in Nat /\ c \in Nat /\ b' \in Nat /\ c' \in Nat
  <2>1. b = I - O - A /\ c <= C - K
    BY DEF Explained, Worth, CashIn
  <2>2. b \in Nat /\ c \in Nat
    BY PurseNumbers
  <2>3. b' \in Nat /\ c' \in Nat
    BY DEF Typed, BookTypes, Purses
  <2> QED
    BY <2>1, <2>2, <2>3
<1>2. /\ topups \in SUBSET Rows /\ withdrawals \in SUBSET Rows
      /\ IsFiniteSet(topups) /\ IsFiniteSet(withdrawals)
      /\ SaleBook(sale) /\ SaleBook(sale')
  BY SaleBooks DEF Typed, BookTypes, Counted
<1>3. I \in Int /\ O \in Int /\ C \in Int /\ A \in Int /\ K \in Int
  BY <1>2, RowSums, KeptFinite
<1>4. SUFFICES b' = I' - O' - A' /\ c' <= C' - K'
  BY DEF Worth, CashIn
<1>5. CASE Still
  <2>1. I' = I /\ O' = O /\ C' = C /\ A' = A /\ K' = K /\ b' = b /\ c' = c
    BY <1>5 DEF Still, SamePurses, Same
  <2> HIDE DEF I, O, C, A, K, b, c
  <2> QED
    BY <1>1, <2>1
<1>6. ASSUME NEW r \in Rows, Loaded(r)
      PROVE  b' = I' - O' - A' /\ c' <= C' - K'
  <2>1. /\ O' = O /\ A' = A /\ K' = K
        /\ r \notin topups /\ topups' = topups \cup {r}
    BY <1>6 DEF Loaded, stallVars
  <2>2. /\ I' = I + (IF r.wallet = w THEN r.amount ELSE 0)
        /\ C' = C + (IF r.wallet = w THEN InCash(r) ELSE 0)
    BY <1>2, <2>1, FilteredRow
  <2>3. IF r.wallet = w THEN b' = b + r.amount /\ c' = c + InCash(r)
                        ELSE b' = b /\ c' = c
    BY <1>6 DEF Loaded, Gains, Same
  <2>4. r.amount \in Int /\ InCash(r) \in Int
    BY DEF Rows, InCash
  <2> HIDE DEF I, O, C, A, K, b, c
  <2> QED
    BY <1>1, <1>3, <2>1, <2>2, <2>3, <2>4
<1>7. ASSUME NEW r \in Rows, NEW n \in Nat, PaidOut(r, n)
      PROVE  b' = I' - O' - A' /\ c' <= C' - K'
  <2>1. /\ I' = I /\ C' = C /\ A' = A /\ K' = K
        /\ r \notin withdrawals /\ withdrawals' = withdrawals \cup {r}
    BY <1>7 DEF PaidOut, stallVars
  <2>2. O' = O + (IF r.wallet = w THEN r.amount ELSE 0)
    BY ZenonT(30), <1>2, <2>1, FilteredRow
  <2>3. IF r.wallet = w THEN b' = b + (-r.amount) /\ c' = c + (-n)
                        ELSE b' = b /\ c' = c
    BY <1>7 DEF PaidOut, Gains, Same
  <2>4. r.amount \in Int
    BY DEF Rows
  <2> HIDE DEF I, O, C, A, K, b, c
  <2> QED
    BY <1>1, <1>3, <2>1, <2>2, <2>3, <2>4
<1>8. ASSUME NEW i \in TxnIds, SaleMade(i)
      PROVE  b' = I' - O' - A' /\ c' <= C' - K'
  <2> DEFINE s == sale'[i]
  <2>1. I' = I /\ O' = O /\ C' = C
    BY <1>8 DEF SaleMade
  <2>2. /\ A' = A + (IF s.wallet = w THEN s.amount ELSE 0)
        /\ K' = K + (IF s.wallet = w THEN s.cash ELSE 0)
    BY <1>2, <1>8, SaleAdds DEF SaleMade
  <2>3. IF s.wallet = w THEN b' = b + (-s.amount) /\ c' = c + (-s.cash)
                        ELSE b' = b /\ c' = c
    BY <1>8 DEF SaleMade, Gains, Same
  <2>4. s.amount \in Int /\ s.cash \in Int
    BY <1>8 DEF SaleMade, Sales
  <2> HIDE DEF I, O, C, A, K, b, c, s
  <2> QED
    BY <1>1, <1>3, <2>1, <2>2, <2>3, <2>4
<1>9. ASSUME NEW i \in TxnIds, SaleUndone(i)
      PROVE  b' = I' - O' - A' /\ c' <= C' - K'
  <2> DEFINE s == sale[i]
  <2>1. I' = I /\ O' = O /\ C' = C
    BY <1>9 DEF SaleUndone
  <2>0. ~s.restocked
    BY <1>9, NoRowAssumption DEF SaleUndone, Counted, GoodsFollow
  <2>2. /\ A' = A - (IF s.wallet = w THEN s.amount ELSE 0)
        /\ K' = K - (IF s.wallet = w THEN s.cash ELSE 0)
    BY <1>2, <1>9, <2>0, SaleLeaves DEF SaleUndone
  <2>3. IF s.wallet = w THEN b' = b + s.amount /\ c' = c + s.cash
                        ELSE b' = b /\ c' = c
    BY <1>9 DEF SaleUndone, Gains, Same
  <2>4. s.amount \in Int /\ s.cash \in Int
    BY <1>9 DEF SaleUndone, Sales
  <2> HIDE DEF I, O, C, A, K, b, c, s
  <2> QED
    BY <1>1, <1>3, <2>1, <2>2, <2>3, <2>4
<1>10. ASSUME NEW k \in Collections, Collecting(k)
       PROVE  b' = I' - O' - A' /\ c' <= C' - K'
  <2>1. I' = I /\ O' = O /\ C' = C /\ A' = A /\ K' = K /\ b' = b /\ c' = c
    BY <1>10 DEF Collecting, SamePurses, Same, stallVars
  <2> HIDE DEF I, O, C, A, K, b, c
  <2> QED
    BY <1>1, <2>1
<1> HIDE DEF I, O, C, A, K, b, c
<1> QED
  BY <1>5, <1>6, <1>7, <1>8, <1>9, <1>10 DEF Moves

-----------------------------------------------------------------------------
(* The shelf.                                                                 *)

Shelved == onHand = delivered - GoneSum(sale)

LEMMA ShelvedIs ==
    ASSUME SaleBook(sale)
    PROVE  Shelved <=> StockExplained
<1>1. MapThenSumSet(LAMBDA i : sale[i].qty, GoneSales) = GoneSum(sale)
  BY SaleSums
<1> QED
  BY <1>1 DEF Shelved, StockExplained

LEMMA ShelvedKeeps ==
    ASSUME Typed, Typed', Counted, Counted', Moves, Shelved
    PROVE  Shelved'
<1> DEFINE G == GoneSum(sale)
<1>1. SaleBook(sale) /\ SaleBook(sale')
  BY SaleBooks
<1>2. /\ G \in Int /\ onHand \in Int /\ delivered \in Int /\ onHand' \in Int
      /\ delivered' \in Int /\ onHand = delivered - G
  BY <1>1, KeptFinite DEF Typed, OtherTypes, Shelved
<1>3. SUFFICES onHand' = delivered' - G'
  BY DEF Shelved
<1>4. CASE UNCHANGED sale /\ onHand' - delivered' = onHand - delivered
  <2>1. G' = G
    BY <1>4
  <2>2. onHand' - delivered' = onHand - delivered
    BY <1>4
  <2> HIDE DEF G
  <2>3. PICK h \in Int, e \in Int : h = onHand' /\ e = delivered'
    BY DEF Typed, OtherTypes
  <2>4. onHand \in Int /\ delivered \in Int /\ G \in Int /\ onHand = delivered - G
    BY <1>2
  <2>5. h - e = onHand - delivered
    BY <2>2, <2>3, Zenon
  <2>6. h = e - G
    BY <2>4, <2>5
  <2> QED
    BY <2>1, <2>3, <2>6, Zenon
<1>5. ASSUME NEW i \in TxnIds, SaleMade(i)
      PROVE  onHand' = delivered' - G'
  <2> DEFINE q == sale'[i].qty
  <2>1. G' = G + q
    BY <1>1, <1>5, SaleAdds DEF SaleMade
  <2>2. onHand' = onHand - q /\ delivered' = delivered /\ q \in Int
    BY <1>5 DEF SaleMade, Sales
  <2> HIDE DEF G, q
  <2> QED
    BY <1>2, <2>1, <2>2
<1>6. ASSUME NEW i \in TxnIds, SaleUndone(i)
      PROVE  onHand' = delivered' - G'
  <2> DEFINE q == IF sale'[i].restocked THEN sale[i].qty ELSE 0
  <2>0. ~sale[i].restocked
    BY <1>6, NoRowAssumption DEF SaleUndone, Counted, GoodsFollow
  <2>1. G' = G - q
    BY <1>1, <1>6, <2>0, SaleLeaves DEF SaleUndone
  <2>2. onHand' = onHand + q /\ delivered' = delivered /\ q \in Int
    BY <1>6 DEF SaleUndone, Sales
  <2> HIDE DEF G, q
  <2> QED
    BY <1>2, <2>1, <2>2
<1>7. \/ UNCHANGED sale /\ onHand' - delivered' = onHand - delivered
      \/ \E i \in TxnIds : SaleMade(i) \/ SaleUndone(i)
  BY DEF Moves, Still, Loaded, PaidOut, Collecting, stallVars
<1> QED
  BY <1>4, <1>5, <1>6, <1>7

-----------------------------------------------------------------------------
(* The drawers of the cashiers.                                               *)

HeldIn(col, c) == {k \in Collections : /\ col[k] # NoRow /\ col[k].cashier = c
                                       /\ col[k].status = "confirmed"}
GivenUp(col, c) == FieldSum(col, "amount", HeldIn(col, c))
Drawer(c) == Sum(CashRows(topups, c)) - Sum(CashRows(withdrawals, c))
             - GivenUp(collection, c)
Resold  == Sum(CashRows(topups, "reseller"))
Drawers == [c \in Cashiers |-> Drawer(c)]
Floats  == journal["CASH_DESK"] = SumFunctionOnSet(Drawers, Cashiers) + Resold

CollectionBook(col) ==
    /\ col \in [Collections -> CollectionRows \cup {NoRow}]
    /\ IsFiniteSet({k \in Collections : col[k] # NoRow /\ col[k].status = "confirmed"})

LEMMA CollectionBooks ==
    ASSUME Typed, Typed', Counted, Counted'
    PROVE  CollectionBook(collection) /\ CollectionBook(collection')
  BY DEF Typed, OtherTypes, Counted, CollectionBook, Confirmed

LEMMA HeldFinite ==
    ASSUME NEW col, CollectionBook(col), NEW c
    PROVE  /\ IsFiniteSet(HeldIn(col, c)) /\ GivenUp(col, c) \in Int
           /\ \A k \in HeldIn(col, c) : col[k].amount \in Int
<1>1. HeldIn(col, c) \subseteq {k \in Collections : col[k] # NoRow /\ col[k].status = "confirmed"}
  BY DEF HeldIn
<1>2. IsFiniteSet(HeldIn(col, c))
  BY <1>1, FS_Subset DEF CollectionBook
<1>3. \A k \in HeldIn(col, c) : col[k].amount \in Int
  BY DEF HeldIn, CollectionBook, CollectionRows
<1>4. GivenUp(col, c) \in Int
  BY <1>2, <1>3, FieldSame DEF GivenUp
<1> QED
  BY <1>2, <1>3, <1>4

LEMMA DrawerNumbers ==
    ASSUME Typed, Counted, NEW c
    PROVE  /\ Drawer(c) \in Int /\ Resold \in Int
           /\ Sum(CashRows(topups, c)) \in Int /\ Sum(CashRows(withdrawals, c)) \in Int
           /\ GivenUp(collection, c) \in Int
<1>1. CollectionBook(collection)
  BY DEF Typed, OtherTypes, Counted, CollectionBook, Confirmed
<1>2. /\ topups \subseteq Rows /\ withdrawals \subseteq Rows
      /\ IsFiniteSet(topups) /\ IsFiniteSet(withdrawals)
  BY DEF Typed, BookTypes, Counted
<1>3. /\ Sum(CashRows(topups, c)) \in Int /\ Sum(CashRows(withdrawals, c)) \in Int
      /\ Resold \in Int
  BY <1>2, RowSums DEF Resold
<1>4. GivenUp(collection, c) \in Int
  BY <1>1, HeldFinite
<1> QED
  BY <1>3, <1>4 DEF Drawer

LEMMA DrawerIs == Typed /\ Counted => \A c : CashOnHand(c) = Drawer(c)
<1> SUFFICES ASSUME Typed, Counted, NEW c PROVE CashOnHand(c) = Drawer(c)
  OBVIOUS
<1>1. IsFiniteSet(HeldIn(collection, c))
  BY HeldFinite DEF Typed, OtherTypes, Counted, CollectionBook, Confirmed
<1>2. ConfirmedBy(c) = HeldIn(collection, c)
  BY DEF ConfirmedBy, HeldIn
<1>3. MapThenSumSet(LAMBDA k : collection[k].amount, ConfirmedBy(c))
         = FieldFold(collection, "amount", ConfirmedBy(c))
  BY DEF FieldFold, MapThenSumSet, MapThenFoldSet
<1>4. FieldFold(collection, "amount", HeldIn(collection, c)) = GivenUp(collection, c)
  BY <1>1, FoldOfField DEF GivenUp
<1> QED
  BY <1>2, <1>3, <1>4, Zenon DEF CashOnHand, Drawer

(* The drawers together are a sum over the cashiers. *)
LEMMA HoldersSum == Holders = SumFunctionOnSet([c \in Cashiers |-> CashOnHand(c)], Cashiers)
<1> DEFINE S == Cashiers
           f == [c \in S |-> CashOnHand(c)]
           Solves(g) == g = [T \in SUBSET S |->
                               IF T = {} THEN 0 ELSE CashOnHand(Pick(T)) + g[T \ {Pick(T)}]]
           h == CHOOSE g : Solves(g)
<1>1. Holders = h[S]
  BY DEF Holders, MapThenSumSet, MapThenFoldSet, Pick
<1>2. ASSUME NEW g PROVE Solves(g) <=> Adds(f, g, S)
  <2>1. \A T \in SUBSET S : T # {} => f[Pick(T)] = CashOnHand(Pick(T))
    BY PickIn
  <2> HIDE DEF f
  <2> DEFINE a == [T \in SUBSET S |->
                     IF T = {} THEN 0 ELSE CashOnHand(Pick(T)) + g[T \ {Pick(T)}]]
             b == [T \in SUBSET S |->
                     IF T = {} THEN 0 ELSE f[Pick(T)] + g[T \ {Pick(T)}]]
  <2>2. a = b
    BY <2>1
  <2>3. (Solves(g) <=> g = a) /\ (Adds(f, g, S) <=> g = b)
    BY DEF Adds
  <2> QED
    BY <2>2, <2>3
<1>0. IsFiniteSet(S)
  BY CashierAssumption
<1> HIDE DEF f, Solves, S
<1>3. Solves(h)
  BY <1>0, <1>2, AddsExists
<1> HIDE DEF h
<1>4. Adds(f, h, S) /\ Adds(f, Chosen(f, S), S)
  BY <1>0, <1>2, <1>3, AddsExists DEF Chosen
<1>5. h[S] = Chosen(f, S)[S]
  BY <1>0, <1>4, AddsAgree
<1>6. Holders = SumFunctionOnSet(f, S)
  BY <1>1, <1>5, SumIsChosen
<1> QED
  BY <1>6 DEF f, S

LEMMA FloatsIs ==
    ASSUME Typed, Counted
    PROVE  Floats <=> DrawersHoldTheFloat
<1>1. [c \in Cashiers |-> CashOnHand(c)] = Drawers
  BY DrawerIs DEF Drawers
<1>2. Holders = SumFunctionOnSet(Drawers, Cashiers)
  BY <1>1, HoldersSum
<1> QED
  BY <1>2 DEF Floats, DrawersHoldTheFloat, Resold

(* A collection more that counts. *)
LEMMA GivenUpMore ==
    ASSUME NEW s, CollectionBook(s), NEW u, CollectionBook(u), NEW k \in Collections,
           {j \in Collections : u[j] # NoRow /\ u[j].status = "confirmed"}
             = {j \in Collections : s[j] # NoRow /\ s[j].status = "confirmed"} \cup {k},
           ~(s[k] # NoRow /\ s[k].status = "confirmed"),
           s[k] \in CollectionRows,
           \A j \in {i \in Collections : s[i] # NoRow /\ s[i].status = "confirmed"} \cup {k} :
              u[j].amount = s[j].amount /\ u[j].cashier = s[j].cashier,
           NEW c
    PROVE  GivenUp(u, c) = GivenUp(s, c) + (IF s[k].cashier = c THEN s[k].amount ELSE 0)
<1>1. /\ k \notin HeldIn(s, c)
      /\ HeldIn(u, c) = IF s[k].cashier = c THEN HeldIn(s, c) \cup {k} ELSE HeldIn(s, c)
      /\ \A j \in HeldIn(s, c) \cup {k} : u[j].amount = s[j].amount
  BY DEF HeldIn
<1>2. /\ IsFiniteSet(HeldIn(s, c)) /\ GivenUp(s, c) \in Int
      /\ \A j \in HeldIn(s, c) : s[j].amount \in Int
  BY HeldFinite
<1>3. s[k].amount \in Int
  BY DEF CollectionRows
<1>4. PICK f : f = "amount"
  OBVIOUS
<1>5. CASE s[k].cashier = c
  <2>1. /\ \A x \in HeldIn(s, c) : s[x][f] \in Int /\ u[x][f] = s[x][f]
        /\ u[k][f] \in Int /\ k \notin HeldIn(s, c) /\ IsFiniteSet(HeldIn(s, c))
    BY <1>1, <1>2, <1>3, <1>4
  <2>2. FieldSum(u, f, HeldIn(s, c) \cup {k}) = FieldSum(s, f, HeldIn(s, c)) + u[k][f]
    BY ONLY <2>1, FieldGrows
  <2>3. GivenUp(u, c) = GivenUp(s, c) + u[k].amount
    BY <1>1, <1>4, <1>5, <2>2 DEF GivenUp
  <2> QED
    BY <1>1, <1>5, <2>3
<1>6. CASE s[k].cashier # c
  <2>1. /\ \A x \in HeldIn(s, c) : s[x][f] \in Int /\ u[x][f] = s[x][f]
        /\ IsFiniteSet(HeldIn(s, c))
    BY <1>1, <1>2, <1>4
  <2>2. FieldSum(u, f, HeldIn(s, c)) = FieldSum(s, f, HeldIn(s, c))
    BY ONLY <2>1, FieldSame
  <2>3. GivenUp(u, c) = GivenUp(s, c)
    BY <1>1, <1>4, <1>6, <2>2 DEF GivenUp
  <2> QED
    BY <1>2, <1>6, <2>3
<1> QED
  BY <1>5, <1>6

LEMMA GivenUpSame ==
    ASSUME NEW s, CollectionBook(s), NEW u, CollectionBook(u),
           {j \in Collections : u[j] # NoRow /\ u[j].status = "confirmed"}
             = {j \in Collections : s[j] # NoRow /\ s[j].status = "confirmed"},
           \A j \in {i \in Collections : s[i] # NoRow /\ s[i].status = "confirmed"} :
              u[j].amount = s[j].amount /\ u[j].cashier = s[j].cashier,
           NEW c
    PROVE  GivenUp(u, c) = GivenUp(s, c)
<1>1. /\ HeldIn(u, c) = HeldIn(s, c)
      /\ \A j \in HeldIn(s, c) : u[j].amount = s[j].amount
  BY DEF HeldIn
<1>2. /\ IsFiniteSet(HeldIn(s, c)) /\ \A j \in HeldIn(s, c) : s[j].amount \in Int
  BY HeldFinite
<1>4. PICK f : f = "amount"
  OBVIOUS
<1>5. /\ \A x \in HeldIn(s, c) : s[x][f] \in Int /\ u[x][f] = s[x][f]
      /\ IsFiniteSet(HeldIn(s, c))
  BY <1>1, <1>2, <1>4
<1>6. FieldSum(u, f, HeldIn(s, c)) = FieldSum(s, f, HeldIn(s, c))
  BY ONLY <1>5, FieldSame
<1> QED
  BY <1>1, <1>4, <1>6 DEF GivenUp

(* What a step puts into, or takes out of, the drawers. *)
OneDrawer(a, n) ==
    /\ a \in Cashiers /\ CashMoves(n) /\ Resold' = Resold
    /\ Drawer(a)' = Drawer(a) + n
    /\ \A c \in Cashiers \ {a} : Drawer(c)' = Drawer(c)
NoDrawer(n) ==
    /\ CashMoves(n) /\ Resold' = Resold + n
    /\ \A c \in Cashiers : Drawer(c)' = Drawer(c)

LEMMA CollectingDrawer ==
    ASSUME Typed, Typed', Counted, Counted', NEW k \in Collections, Collecting(k),
           NEW a \in Cashiers, NEW n \in Nat,
           a = collection[k].cashier, n = collection[k].amount
    PROVE  OneDrawer(a, -n)
<1>0. /\ CollectionBook(collection) /\ CollectionBook(collection')
      /\ \A c : /\ Sum(CashRows(topups, c)) \in Int /\ Sum(CashRows(withdrawals, c)) \in Int
                /\ GivenUp(collection, c) \in Int /\ Drawer(c) \in Int
  BY CollectionBooks, DrawerNumbers
<1>1. UNCHANGED <<topups, withdrawals>> /\ CashMoves(-n)
  BY DEF Collecting
<1>2. n \in Int /\ -n \in Int /\ a \in Cashiers
  OBVIOUS
<1>3. \A c : GivenUp(collection', c) =
                GivenUp(collection, c) + (IF a = c THEN n ELSE 0)
  BY <1>0, GivenUpMore DEF Collecting, Confirmed
<1>4. ASSUME NEW c PROVE Drawer(c)' = Drawer(c) + (IF a = c THEN -n ELSE 0)
  <2> DEFINE x == Sum(CashRows(topups, c))
             y == Sum(CashRows(withdrawals, c))
             z == GivenUp(collection, c)
  <2>1. Drawer(c)' = x - y - z'
    BY <1>1 DEF Drawer
  <2>2. z' = z + (IF a = c THEN n ELSE 0)
    BY <1>3
  <2>3. Drawer(c) = x - y - z /\ x \in Int /\ y \in Int /\ z \in Int
    BY <1>0 DEF Drawer
  <2> HIDE DEF x, y, z
  <2> QED
    BY <1>2, <2>1, <2>2, <2>3
<1>5. Resold' = Resold
  BY <1>1 DEF Resold
<1>6. \A c \in Cashiers \ {a} : Drawer(c)' = Drawer(c)
  BY <1>0, <1>4
<1>7. Drawer(a)' = Drawer(a) + (-n)
  BY <1>4
<1>8. OneDrawer(a, -n)
  BY <1>1, <1>2, <1>5, <1>6, <1>7 DEF OneDrawer
<1> QED
  BY <1>8

LEMMA DrawerMoves ==
    ASSUME Typed, Typed', Counted, Counted', Moves
    PROVE  \E n \in Int : NoDrawer(n) \/ \E a \in Cashiers : OneDrawer(a, n)
<1>1. /\ topups \in SUBSET Rows /\ withdrawals \in SUBSET Rows
      /\ IsFiniteSet(topups) /\ IsFiniteSet(withdrawals)
      /\ CollectionBook(collection) /\ CollectionBook(collection')
  BY CollectionBooks DEF Typed, BookTypes, Counted
<1>2. "reseller" \notin Cashiers
  BY CashlessAssumption
<1>3. \A c : /\ Sum(CashRows(topups, c)) \in Int /\ Sum(CashRows(withdrawals, c)) \in Int
             /\ GivenUp(collection, c) \in Int /\ Drawer(c) \in Int /\ Resold \in Int
  BY DrawerNumbers
<1>4. CASE Still
  <2>1. ASSUME NEW c \in Cashiers PROVE Drawer(c)' = Drawer(c)
    <3>1. GivenUp(collection', c) = GivenUp(collection, c)
      BY <1>1, <1>4, GivenUpSame DEF Still, SameConfirmed, Confirmed
    <3>2. Drawer(c)' = Sum(CashRows(topups', c)) - Sum(CashRows(withdrawals', c))
                       - GivenUp(collection', c)
      BY DEF Drawer
    <3>3. topups' = topups /\ withdrawals' = withdrawals
      BY <1>4 DEF Still
    <3> QED
      BY <3>1, <3>2, <3>3, Zenon DEF Drawer
  <2>2. Resold' = Resold + 0
    BY <1>3, <1>4 DEF Still, Resold
  <2>3. NoDrawer(0)
    BY <1>4, <2>1, <2>2 DEF NoDrawer, Still
  <2> QED
    BY <2>3
<1>5. ASSUME NEW r \in Rows, Loaded(r)
      PROVE  \E n \in Int : NoDrawer(n) \/ \E a \in Cashiers : OneDrawer(a, n)
  <2> DEFINE n == InCash(r)
  <2>1. r \notin topups /\ topups' = topups \cup {r} /\ CashMoves(n)
        /\ UNCHANGED <<withdrawals, collection>>
    BY <1>5 DEF Loaded
  <2>2. \A c : Sum(CashRows(topups', c)) =
                  Sum(CashRows(topups, c)) + (IF r.by = c THEN n ELSE 0)
    BY ZenonT(30), <1>1, <2>1, FilteredRow
  <2>3. n \in Int /\ (n # 0 => r.by \in Cashiers \cup {"reseller"})
    BY <1>5 DEF InCash, Rows, Loaded
  <2> HIDE DEF n
  <2>4. ASSUME NEW c PROVE Drawer(c)' = Drawer(c) + (IF r.by = c THEN n ELSE 0)
    <3> DEFINE x == Sum(CashRows(topups, c))
               y == Sum(CashRows(withdrawals, c))
               z == GivenUp(collection, c)
    <3>1. Drawer(c)' = x' - y - z
      BY <2>1 DEF Drawer
    <3>2. x' = x + (IF r.by = c THEN n ELSE 0)
      BY <2>2
    <3>3. Drawer(c) = x - y - z /\ x \in Int /\ y \in Int /\ z \in Int
      BY <1>3 DEF Drawer
    <3> HIDE DEF x, y, z
    <3> QED
      BY <2>3, <3>1, <3>2, <3>3
  <2>5. Resold' = Resold + (IF r.by = "reseller" THEN n ELSE 0)
    BY <2>2 DEF Resold
  <2>6. CASE r.by \in Cashiers
    <3>1. OneDrawer(r.by, n)
      BY <1>2, <1>3, <2>1, <2>3, <2>4, <2>5, <2>6 DEF OneDrawer
    <3> QED
      BY <2>3, <2>6, <3>1
  <2>7. CASE r.by \notin Cashiers
    <3>1. \A c \in Cashiers : Drawer(c)' = Drawer(c)
      BY <1>3, <2>4, <2>7
    <3>2. Resold' = Resold + n
      BY <1>3, <2>3, <2>5, <2>7
    <3> QED
      BY <2>1, <2>3, <3>1, <3>2 DEF NoDrawer
  <2> QED
    BY <2>6, <2>7
<1>6. ASSUME NEW r \in Rows, NEW c0 \in Nat, PaidOut(r, c0)
      PROVE  \E n \in Int : NoDrawer(n) \/ \E a \in Cashiers : OneDrawer(a, n)
  <2> DEFINE n == InCash(r)
  <2>1. r \notin withdrawals /\ withdrawals' = withdrawals \cup {r} /\ CashMoves(-n)
        /\ UNCHANGED <<topups, collection>>
    BY <1>6 DEF PaidOut
  <2>2. \A c : Sum(CashRows(withdrawals', c)) =
                  Sum(CashRows(withdrawals, c)) + (IF r.by = c THEN n ELSE 0)
    BY <1>1, <2>1, FilteredRow
  <2>3. n \in Int /\ -n \in Int /\ (n # 0 => r.by \in Cashiers)
    BY <1>6 DEF InCash, Rows, PaidOut
  <2> HIDE DEF n
  <2>4. ASSUME NEW c PROVE Drawer(c)' = Drawer(c) + (IF r.by = c THEN -n ELSE 0)
    <3> DEFINE x == Sum(CashRows(topups, c))
               y == Sum(CashRows(withdrawals, c))
               z == GivenUp(collection, c)
    <3>1. Drawer(c)' = x - y' - z
      BY <2>1 DEF Drawer
    <3>2. y' = y + (IF r.by = c THEN n ELSE 0)
      BY <2>2
    <3>3. Drawer(c) = x - y - z /\ x \in Int /\ y \in Int /\ z \in Int
      BY <1>3 DEF Drawer
    <3> HIDE DEF x, y, z
    <3> QED
      BY <2>3, <3>1, <3>2, <3>3
  <2>5. Resold' = Resold
    BY <2>1 DEF Resold
  <2>6. CASE r.by \in Cashiers
    <3>1. \A c \in Cashiers \ {r.by} : Drawer(c)' = Drawer(c)
      BY <1>3, <2>4
    <3>2. Drawer(r.by)' = Drawer(r.by) + (-n)
      BY <2>4
    <3>3. OneDrawer(r.by, -n)
      BY <2>1, <2>5, <2>6, <3>1, <3>2 DEF OneDrawer
    <3> QED
      BY <2>3, <2>6, <3>3
  <2>7. CASE r.by \notin Cashiers
    <3>1. \A c \in Cashiers : Drawer(c)' = Drawer(c)
      BY <1>3, <2>4, <2>7
    <3>2. n = 0 /\ -n = 0
      BY <2>3, <2>7
    <3>3. Resold' = Resold + 0
      BY <1>3, <2>5
    <3> QED
      BY <2>1, <3>1, <3>2, <3>3 DEF NoDrawer
  <2> QED
    BY <2>6, <2>7
<1>7. ASSUME NEW i \in TxnIds, SaleMade(i) \/ SaleUndone(i)
      PROVE  \E n \in Int : NoDrawer(n) \/ \E a \in Cashiers : OneDrawer(a, n)
  <2>1. UNCHANGED <<topups, withdrawals, collection>> /\ CashMoves(0)
    BY <1>7 DEF SaleMade, SaleUndone
  <2>2. \A c \in Cashiers : Drawer(c)' = Drawer(c)
    BY <2>1 DEF Drawer
  <2>3. Resold' = Resold + 0
    BY <1>3, <2>1 DEF Resold
  <2> QED
    BY <2>1, <2>2, <2>3 DEF NoDrawer
<1>8. ASSUME NEW k \in Collections, Collecting(k)
      PROVE  \E n \in Int : NoDrawer(n) \/ \E a \in Cashiers : OneDrawer(a, n)
  <2>0. PICK a \in Cashiers, n \in Nat : a = collection[k].cashier /\ n = collection[k].amount
    BY <1>8 DEF Collecting, CollectionRows
  <2> QED
    BY <1>8, <2>0, CollectingDrawer
<1> QED
  BY <1>4, <1>5, <1>6, <1>7, <1>8 DEF Moves

LEMMA FloatsKeep ==
    ASSUME Typed, Typed', Counted, Counted', Moves, Floats
    PROVE  Floats'
<1> DEFINE J == journal["CASH_DESK"]
           S == SumFunctionOnSet(Drawers, Cashiers)
           R == Resold
<1>1. J = S + R
  BY DEF Floats
<1>2. /\ \A c \in Cashiers : Drawers[c] = Drawer(c) /\ Drawers[c] \in Int
      /\ R \in Int
  BY DrawerNumbers DEF Drawers
<1>3. S \in Int
  BY <1>2, SumInt, CashierAssumption
<1>4. Drawers' = [c \in Cashiers |-> Drawer(c)']
  BY DEF Drawers
<1>5. PICK n \in Int : NoDrawer(n) \/ \E a \in Cashiers : OneDrawer(a, n)
  BY DrawerMoves
<1>6. J' = J + n
  BY <1>5 DEF NoDrawer, OneDrawer, CashMoves
<1>7. S' = SumFunctionOnSet(Drawers', Cashiers)
  OBVIOUS
<1> HIDE DEF J, S, R
<1>8. CASE NoDrawer(n)
  <2>1. \A c \in Cashiers : Drawers'[c] = Drawers[c]
    BY <1>2, <1>4, <1>8 DEF NoDrawer
  <2>2. SumFunctionOnSet(Drawers', Cashiers) = S
    BY <2>1, SumSame, CashierAssumption DEF S
  <2>3. R' = R + n /\ S' = S
    BY <1>7, <1>8, <2>2 DEF NoDrawer, R
  <2>4. J' = S' + R'
    BY <1>1, <1>2, <1>3, <1>6, <2>3
  <2> QED
    BY <2>4 DEF J, S, R, Floats
<1>9. ASSUME NEW a \in Cashiers, OneDrawer(a, n)
      PROVE  Floats'
  <2>1. /\ \A c \in Cashiers : Drawers[c] \in Int
        /\ \A c \in Cashiers \ {a} : Drawers'[c] = Drawers[c]
        /\ Drawers'[a] = Drawers[a] + n /\ Drawers'[a] \in Int /\ Drawers[a] \in Int
    BY <1>2, <1>4, <1>9 DEF OneDrawer
  <2>2. SumFunctionOnSet(Drawers', Cashiers)
          = SumFunctionOnSet(Drawers, Cashiers) - Drawers[a] + Drawers'[a]
    BY <2>1, SumChanges, CashierAssumption
  <2>3. S' = S + n
    BY <1>3, <1>7, <2>1, <2>2 DEF S
  <2>4. R' = R
    BY <1>9 DEF OneDrawer, R
  <2>5. J' = S' + R'
    BY <1>1, <1>2, <1>3, <1>6, <2>3, <2>4
  <2> QED
    BY <2>5 DEF J, S, R, Floats
<1> QED
  BY <1>5, <1>8, <1>9

-----------------------------------------------------------------------------
(* The sums of the books, at every moment.                                    *)

Summed == Counted /\ Explained /\ Shelved /\ Floats

LEMMA SummedStart == Init => Summed
<1> SUFFICES ASSUME Init PROVE Summed
  OBVIOUS
<1>1. Counted
  <2>1. SoldIds = {} /\ Confirmed = {} /\ GoodsFollow
    BY DEF Init, SoldIds, Confirmed, GoodsFollow
  <2> QED
    BY <2>1, FS_EmptySet DEF Counted, Init
<1>2. Typed /\ Books
  BY InitHolds
<1>3. SaleBook(sale)
  BY <1>1, <1>2 DEF SaleBook, SoldIds, Counted, Typed, BookTypes
<1>4. \A w : KeptIn(sale, w) = {} /\ GoneIn(sale) = {}
  BY DEF Init, KeptIn, GoneIn
<1>5. \A s, k : FieldSum(s, k, {}) = 0
  BY SumEmpty DEF FieldSum
<1>6. \A w, c : /\ RowsOf(topups, w) = {} /\ RowsOf(withdrawals, w) = {}
                /\ CashOf(RowsOf(topups, w)) = {}
                /\ CashRows(topups, c) = {} /\ CashRows(withdrawals, c) = {}
  BY DEF Init, RowsOf, CashOf, CashRows
<1>7. Explained
  <2>1. \A w : Worth(w) = 0 - 0 - 0 /\ CashIn(w) = 0 - 0
    BY <1>4, <1>5, <1>6, NoRows DEF Worth, CashIn, KeptSum
  <2>2. \A w \in Wallets : wallet[w].balance = 0 /\ wallet[w].cash = 0
    BY DEF Init, Purse
  <2> QED
    BY <2>1, <2>2 DEF Explained
<1>8. Shelved
  <2>1. GoneSum(sale) = 0
    BY <1>4, <1>5 DEF GoneSum
  <2> QED
    BY <2>1 DEF Shelved, Init
<1>9. Floats
  <2>1. \A c : HeldIn(collection, c) = {}
    BY DEF Init, HeldIn
  <2>2. \A c : Drawer(c) = 0 - 0 - 0
    BY <1>5, <1>6, <2>1, NoRows DEF Drawer, GivenUp
  <2>3. Drawers = [c \in Cashiers |-> 0]
    BY <2>2 DEF Drawers
  <2>4. SumFunctionOnSet(Drawers, Cashiers) = 0
    BY <2>3, CashierAssumption, SumOfZeros
  <2>5. Resold = 0
    BY <1>6, NoRows DEF Resold
  <2>6. journal["CASH_DESK"] = 0
    BY AccountsApart DEF Init, FloatTags
  <2> QED
    BY <2>4, <2>5, <2>6 DEF Floats
<1> QED
  BY <1>1, <1>7, <1>8, <1>9 DEF Summed

LEMMA SummedStep ==
    ASSUME Typed, Books, Summed, [Next]_vars
    PROVE  Summed'
<1>1. Typed'
  BY StepKeeps, StutterKeeps
<1>2. Moves
  BY EveryStepMoves
<1>3. Counted'
  BY <1>1, <1>2, CountedKeeps DEF Summed
<1> QED
  BY <1>1, <1>2, <1>3, ExplainedKeeps, ShelvedKeeps, FloatsKeep DEF Summed

THEOREM SumsHold == Spec => [](Typed /\ Books /\ Summed)
<1>1. Typed /\ Books /\ Summed /\ [Next]_vars => Summed'
  BY SummedStep
<1> QED
  BY <1>1, SummedStart, Invariance, PTL DEF Spec

LEMMA SummedSales ==
    ASSUME Typed, Summed
    PROVE  SaleBook(sale)
  BY DEF SaleBook, SoldIds, Summed, Counted, Typed, BookTypes

(* Every balance is what its statement adds up to, for any number of          *)
(* wallets, loads, cash-outs, sales and reversals, in any order.              *)
THEOREM StatementsExplain == Spec => []StatementExplainsBalance
<1>1. Typed /\ Summed => StatementExplainsBalance
  BY SummedSales, ExplainedIs DEF Summed
<1> QED
  BY <1>1, SumsHold, PTL

(* No order of loads, sales and reversals makes cash of card money.           *)
THEOREM CashIsCash == Spec => []CashComesFromCash
<1>1. Typed /\ Summed => CashComesFromCash
  BY SummedSales, ExplainedIs DEF Summed
<1> QED
  BY <1>1, SumsHold, PTL

(* The shelf is what was delivered less what was sold and not brought back.   *)
THEOREM ShelfIsExplained == Spec => []StockExplained
<1>1. Typed /\ Summed => StockExplained
  BY SummedSales, ShelvedIs DEF Summed
<1> QED
  BY <1>1, SumsHold, PTL

(* The drawers of any number of cashiers hold the journal's cash-desk float.  *)
THEOREM DrawersAddUp == Spec => []DrawersHoldTheFloat
<1>1. Typed /\ Summed => DrawersHoldTheFloat
  BY FloatsIs DEF Summed
<1> QED
  BY <1>1, SumsHold, PTL

(* A collection comes to be confirmed by Confirm alone.                       *)
LEMMA ConfirmedByConfirm ==
    ASSUME Typed, [Next]_vars, NEW k \in Collections,
           collection'[k] # collection[k], collection'[k].status = "confirmed"
    PROVE  Confirm(k)
<1>2. Next
  BY DEF vars, officeVars
<1>3. CollectionStep
  <2>1. ASSUME NEW d \in Desks, DeskStep(d) PROVE collection' = collection
    BY <2>1 DEF DeskStep, AskTopUp, AskCashOut, AskCharge, Ask, PreCheck, ReadWinner,
       Abandon, CommitTopUp, CommitCashOut, CommitCharge, Moved, officeVars
  <2>2. ASSUME BandStep PROVE collection' = collection
    BY <2>2 DEF BandStep, ReleaseBand, ClaimBand, officeVars
  <2>3. ASSUME StallStep PROVE collection' = collection
    BY <2>3 DEF StallStep, Reverse, MoveStock, Moved, officeVars
  <2>4. ASSUME OfficeStep PROVE collection' = collection
    BY <2>4 DEF OfficeStep, MoveEnd, RequestPayout, TakeOn, PayOut, RejectPayout, Moved
  <2> QED
    BY ONLY <1>2, <2>1, <2>2, <2>3, <2>4, collection'[k] # collection[k] DEF Next
<1>4. PICK j \in Collections :
        \/ \E c \in Cashiers, n \in Amounts : AskCollection(j, c, n)
        \/ FileCollection(j) \/ Confirm(j) \/ CallOff(j, "rejected")
        \/ CallOff(j, "cancelled")
  BY <1>3 DEF CollectionStep
<1>5. \A i \in Collections \ {j} : collection'[i] = collection[i]
  BY <1>4 DEF AskCollection, FileCollection, Confirm, CallOff, Collected, Typed, OtherTypes
<1>6. j = k
  BY <1>5
<1>7. ASSUME NEW c \in Cashiers, NEW n \in Amounts, AskCollection(k, c, n) PROVE FALSE
  <2>1. collection'[k] = [cashier |-> c, amount |-> n, status |-> "checked"]
    BY <1>7 DEF AskCollection, Typed, OtherTypes
  <2> QED
    BY <2>1
<1>8. ASSUME NEW s \in {"pending", "rejected", "cancelled"}, Collected(k, s) PROVE FALSE
  <2>1. collection'[k] =
          [cashier |-> collection[k].cashier, amount |-> collection[k].amount, status |-> s]
    BY <1>8 DEF Collected, Typed, OtherTypes
  <2> QED
    BY <2>1
<1> QED
  BY <1>4, <1>6, <1>7, <1>8 DEF FileCollection, CallOff

LEMMA CoveredStep ==
    ASSUME Typed, Typed', Counted, Counted', \A c : CashOnHand(c)' = Drawer(c)',
           NEW k \in Collections, Confirm(k)
    PROVE  CashOnHand(collection[k].cashier)' >= 0
<1>1. Collecting(k)
  BY ConfirmCollects DEF Typed
<1>2. PICK a \in Cashiers, n \in Nat : a = collection[k].cashier /\ n = collection[k].amount
  BY <1>1 DEF Collecting, CollectionRows
<1>3. Drawer(a)' = Drawer(a) + (-n)
  BY <1>1, <1>2, CollectingDrawer DEF OneDrawer
<1>4. n <= Drawer(a) /\ Drawer(a) \in Int
  BY <1>1, <1>2, DrawerIs, DrawerNumbers DEF Collecting
<1>5. collection'[k].cashier = a
  BY <1>1, <1>2 DEF Collecting
<1>6. CashOnHand(a)' >= 0
  BY <1>3, <1>4
<1> QED
  BY <1>5, <1>6

(* Whatever was paid out, reversed or collected since a collection was asked  *)
(* for, its confirmation never leaves a drawer short.                         *)
THEOREM CollectionsAreCovered == Spec => CollectionsCovered
<1> DEFINE AsDrawn == \A c : CashOnHand(c) = Drawer(c)
<1>1. Typed /\ Summed => AsDrawn
  BY DrawerIs DEF Summed
<1>2. (Typed /\ Summed => AsDrawn)'
  BY <1>1, PTL
<1>3. ASSUME Typed /\ Summed, (Typed /\ Summed)', AsDrawn', [Next]_vars
      PROVE  [\A k \in Collections :
                (collection'[k] # collection[k] /\ collection'[k].status = "confirmed")
                   => CashOnHand(collection[k].cashier)' >= 0]_vars
  BY <1>3, ConfirmedByConfirm, CoveredStep DEF Summed
<1> QED
  BY <1>2, <1>3, SumsHold, PTL DEF Spec, CollectionsCovered
=============================================================================
