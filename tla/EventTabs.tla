------------------------------ MODULE EventTabs ------------------------------
(***************************************************************************)
(* One table of an event: lines of several stalls, settled at once against *)
(* one tapped tag (services/table).  A settlement reads and prices the     *)
(* table first; the flip of the table, the debit of the wallet and one     *)
(* charge per stall are one transaction later.  Adding and removing lines  *)
(* are transactions that reprice the whole table.                          *)
(***************************************************************************)
EXTENDS Integers, FiniteSetsExt

CONSTANTS
    TabLines,      \* line ids
    TabStalls, NoStall,
    Wristbands, NoBand,
    SettleIds, NoId,   \* clientTxnIds; a retry reuses one
    Readers,       \* settlements in flight
    Funds,         \* what each wristband holds at first
    MaxChanges     \* bound: changes of the lines of the table

ASSUME TabAssumption ==
    /\ IsFiniteSet(TabLines) /\ IsFiniteSet(TabStalls)
    /\ NoStall \notin TabStalls /\ NoBand \notin Wristbands /\ NoId \notin SettleIds
    /\ Funds \in Nat /\ MaxChanges \in Nat

VARIABLES
    tab,        \* status, subtotal, revision, and the settlement's id and band
    placed,     \* the stall of each line on the table
    funds,      \* balance of each wallet, and whether it is active
    elsewhere,  \* what each wallet spent at other tills
    charged,    \* MerchantCharge rows of the table
    fulfilment, \* handover rows
    reader,     \* a settlement between its reads and its commit
    answered    \* settlements reported as paid: their id and band

tabVars == <<tab, placed, funds, elsewhere, charged, fulfilment, reader, answered>>

NoReader == [id |-> NoId]
Placing == [TabLines -> TabStalls \cup {NoStall}]

TabTypeOK ==
    /\ tab \in [status : {"open", "settled", "voided"}, subtotal : Nat, rev : 0..MaxChanges,
                id : SettleIds \cup {NoId}, band : Wristbands \cup {NoBand}]
    /\ placed \in Placing
    /\ funds \in [Wristbands -> [balance : 0..Funds, active : BOOLEAN]]
    /\ elsewhere \in [Wristbands -> 0..Funds]
    /\ charged \in [TabStalls -> Nat]
    /\ fulfilment \in [TabStalls -> {"none", "paid", "handed_out", "collected"}]
    /\ reader \in [Readers -> {NoReader}
          \cup [id : SettleIds, band : Wristbands, rev : Nat, items : Placing]]
    /\ answered \subseteq SettleIds \X Wristbands

TabInit ==
    /\ tab = [status |-> "open", subtotal |-> 0, rev |-> 0, id |-> NoId, band |-> NoBand]
    /\ placed = [l \in TabLines |-> NoStall]
    /\ funds = [w \in Wristbands |-> [balance |-> Funds, active |-> TRUE]]
    /\ elsewhere = [w \in Wristbands |-> 0]
    /\ charged = [m \in TabStalls |-> 0]
    /\ fulfilment = [m \in TabStalls |-> "none"]
    /\ reader = [h \in Readers |-> NoReader]
    /\ answered = {}

(***************************************************************************)
(* priceTableLines: units of one stall are priced together, two for the    *)
(* price of one.                                                           *)
(***************************************************************************)
BundlePrice(n) == n - (n \div 2)
Gross(items, m) == BundlePrice(Cardinality({ l \in TabLines : items[l] = m }))
PriceTableLines(items) == MapThenSumSet(LAMBDA m : Gross(items, m), TabStalls)

(***************************************************************************)
(* The lines: a whole round at a time, or one line off again.              *)
(***************************************************************************)
PlaceLines(items) ==
    /\ tab.status = "open" /\ tab.rev < MaxChanges
    /\ placed' = items
    /\ tab' = [tab EXCEPT !.subtotal = PriceTableLines(items), !.rev = @ + 1]
    /\ UNCHANGED <<funds, elsewhere, charged, fulfilment, reader, answered>>

AddItems(items) ==
    /\ items # placed
    /\ \A l \in TabLines : placed[l] # NoStall => items[l] = placed[l]
    /\ PlaceLines(items)

RemoveItem(l) ==
    /\ placed[l] # NoStall
    /\ PlaceLines([placed EXCEPT ![l] = NoStall])

VoidTab ==
    /\ tab.status = "open"
    /\ tab' = [tab EXCEPT !.status = "voided"]
    /\ UNCHANGED <<placed, funds, elsewhere, charged, fulfilment, reader, answered>>

(***************************************************************************)
(* Settlement.                                                             *)
(***************************************************************************)
StartSettle(h, x, w) ==
    /\ reader[h] = NoReader /\ tab.status = "open"
    /\ PriceTableLines(placed) \in 1..funds[w].balance
    /\ reader' = [reader EXCEPT ![h] =
          [id |-> x, band |-> w, rev |-> tab.rev, items |-> placed]]
    /\ UNCHANGED <<tab, placed, funds, elsewhere, charged, fulfilment, answered>>

\* Open, whatever became of the lines.
TabStillOpen(h) == tab.status = "open"

\* The lines as they were priced.
TabUnchanged(h) == tab.status = "open" /\ tab.rev = reader[h].rev

CommitSettle(h) ==
    /\ reader[h] # NoReader /\ TabUnchanged(h)
    /\ LET t == reader[h]  total == PriceTableLines(t.items) IN
       /\ funds[t.band].active /\ funds[t.band].balance >= total
       /\ tab' = [tab EXCEPT !.status = "settled", !.id = t.id, !.band = t.band]
       /\ funds' = [funds EXCEPT ![t.band].balance = @ - total]
       /\ charged' = [m \in TabStalls |-> charged[m] + Gross(t.items, m)]
       /\ fulfilment' = [m \in TabStalls |->
             IF Gross(t.items, m) > 0 THEN "paid" ELSE "none"]
       /\ answered' = answered \cup {<<t.id, t.band>>}
    /\ reader' = [reader EXCEPT ![h] = NoReader]
    /\ UNCHANGED <<placed, elsewhere>>

\* Refused or failed: nothing is written.
SettleEndsUnwritten(h) ==
    /\ reader[h] # NoReader
    /\ reader' = [reader EXCEPT ![h] = NoReader]
    /\ UNCHANGED <<tab, placed, funds, elsewhere, charged, fulfilment, answered>>

\* Only a repeat of the same tap is answered with the settlement that closed
\* the table; the same id with another tag is a mismatch.
SameTap(x, w) == tab.status = "settled" /\ tab.id = x /\ tab.band = w

ReplaySettlement(x, w) ==
    /\ SameTap(x, w)
    /\ answered' = answered \cup {<<x, w>>}
    /\ UNCHANGED <<tab, placed, funds, elsewhere, charged, fulfilment, reader>>

(***************************************************************************)
(* The handover of a settled table; the wallet's other uses.               *)
(***************************************************************************)
AdvanceFulfilment(m, from, to) ==
    /\ tab.status = "settled" /\ fulfilment[m] = from
    /\ fulfilment' = [fulfilment EXCEPT ![m] = to]
    /\ UNCHANGED <<tab, placed, funds, elsewhere, charged, reader, answered>>

SpendElsewhere(w) ==
    /\ funds[w].active /\ funds[w].balance > 0
    /\ funds' = [funds EXCEPT ![w].balance = @ - 1]
    /\ elsewhere' = [elsewhere EXCEPT ![w] = @ + 1]
    /\ UNCHANGED <<tab, placed, charged, fulfilment, reader, answered>>

SetActive(w, active) ==
    /\ funds[w].active # active
    /\ funds' = [funds EXCEPT ![w].active = active]
    /\ UNCHANGED <<tab, placed, elsewhere, charged, fulfilment, reader, answered>>

TabNext ==
    \/ \E items \in Placing : AddItems(items)
    \/ \E l \in TabLines : RemoveItem(l)
    \/ VoidTab
    \/ \E x \in SettleIds, w \in Wristbands :
          ReplaySettlement(x, w) \/ \E h \in Readers : StartSettle(h, x, w)
    \/ \E h \in Readers : CommitSettle(h) \/ SettleEndsUnwritten(h)
    \/ \E m \in TabStalls :
          \/ AdvanceFulfilment(m, "paid", "handed_out")
          \/ AdvanceFulfilment(m, "handed_out", "collected")
    \/ \E w \in Wristbands :
          SpendElsewhere(w) \/ \E active \in BOOLEAN : SetActive(w, active)

TabSpec == TabInit /\ [][TabNext]_tabVars

(***************************************************************************)
(* What a settlement promises.                                             *)
(***************************************************************************)
\* All or nothing, once: whatever rounds, removals, retries and other taps come
\* in while a table is settled, either nobody was charged and no stall owes a
\* handover, or one wallet paid the price of exactly the lines on the table and
\* every stall was credited with its own; and only who paid was told so.
TabPaidOnce ==
    /\ tab.subtotal = PriceTableLines(placed)
    /\ \A w \in Wristbands :
          Funds - elsewhere[w] - funds[w].balance
             = IF tab.band = w THEN tab.subtotal ELSE 0
    /\ \A m \in TabStalls :
          /\ charged[m] = IF tab.status = "settled" THEN Gross(placed, m) ELSE 0
          /\ fulfilment[m] # "none" <=> charged[m] > 0
    /\ answered \subseteq {<<tab.id, tab.band>>}
=============================================================================
