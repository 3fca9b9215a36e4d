------------------------------- MODULE Purse -------------------------------
(* What the cashless desks promise the holder of a wallet, with nothing said  *)
(* of requests, retries, bands or the journal: every load and every cash-out  *)
(* moves the balance by the sum on its slip, and no reference has two slips;  *)
(* money comes in and goes out only while the wallet is active, never below   *)
(* zero; a sale is paid once and given back at most once, in full and to the  *)
(* wallet that paid it; and a reserved balance either comes back whole or is  *)
(* paid out whole.                                                            *)
EXTENDS Integers

CONSTANTS Wallets, Sales, Unsold

VARIABLES
    balance,    \* money in each wallet
    standing,   \* "active", "frozen" or "closed"
    loads,      \* slips of money in: at least a wallet, an id and an amount
    outs,       \* slips of money out
    sale        \* who paid how much for a sale, and whether it was undone
vars == <<balance, standing, loads, outs, sale>>

Init ==
    /\ balance = [w \in Wallets |-> 0]
    /\ standing = [w \in Wallets |-> "active"]
    /\ loads = {} /\ outs = {}
    /\ sale = [i \in Sales |-> Unsold]

Becomes(w, b) == balance' = [balance EXCEPT ![w] = b]
Stands(w, s)  == standing' = [standing EXCEPT ![w] = s]
Fresh(s, slips) == \A o \in slips : o.wallet # s.wallet \/ o.id # s.id

Load(s) ==
    /\ standing[s.wallet] = "active"
    /\ s.amount > 0 /\ Fresh(s, loads)
    /\ loads' = loads \cup {s}
    /\ Becomes(s.wallet, balance[s.wallet] + s.amount)
    /\ UNCHANGED <<standing, outs, sale>>

Takes(s, bal) ==
    /\ s.amount \in 1 .. bal /\ Fresh(s, outs)
    /\ outs' = outs \cup {s}
    /\ Becomes(s.wallet, bal - s.amount)
    /\ UNCHANGED <<loads, sale>>

CashOut(s) ==
    /\ standing[s.wallet] = "active"
    /\ Takes(s, balance[s.wallet]) /\ UNCHANGED standing

Sell(w, i) ==
    /\ standing[w] = "active" /\ sale[i] = Unsold
    /\ balance'[w] \in 0 .. balance[w] - 1 /\ Becomes(w, balance'[w])
    /\ sale' = [sale EXCEPT ![i] = [payer |-> w, undone |-> FALSE,
                                    total |-> balance[w] - balance'[w]]]
    /\ UNCHANGED <<standing, loads, outs>>

GiveBack(i) ==
    /\ sale[i] # Unsold /\ ~sale[i].undone
    /\ standing[sale[i].payer] = "active"
    /\ Becomes(sale[i].payer, balance[sale[i].payer] + sale[i].total)
    /\ sale' = [sale EXCEPT ![i] = [payer |-> sale[i].payer, undone |-> TRUE,
                                    total |-> sale[i].total]]
    /\ UNCHANGED <<standing, loads, outs>>

Reserve(w) ==
    /\ standing[w] = "active" /\ balance[w] > 0
    /\ Stands(w, "frozen") /\ UNCHANGED <<balance, loads, outs, sale>>

Release(w) ==
    /\ standing[w] = "frozen"
    /\ Stands(w, "active") /\ UNCHANGED <<balance, loads, outs, sale>>

PayOut(s) ==
    /\ standing[s.wallet] = "frozen" /\ s.amount = balance[s.wallet]
    /\ Takes(s, balance[s.wallet]) /\ Stands(s.wallet, "closed")

Next ==
    \/ \E s \in loads' \ loads : Load(s)
    \/ \E s \in outs' \ outs : CashOut(s) \/ PayOut(s)
    \/ \E w \in Wallets : Reserve(w) \/ Release(w)
    \/ \E w \in Wallets, i \in Sales : Sell(w, i)
    \/ \E i \in Sales : GiveBack(i)

Spec == Init /\ [][Next]_vars
=============================================================================
