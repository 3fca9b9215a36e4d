---------------------------- MODULE OnSite_proofs ----------------------------
(***************************************************************************)
(* Proofs about what happens at the venue: MenuOrders, BoxOffice,          *)
(* BandRegister, VenueTables and EventTabs.                                *)
(***************************************************************************)
EXTENDS MenuOrders, BoxOffice, BandRegister, VenueTables, EventTabs,
        FiniteSetTheorems, SequenceTheorems, SumTheorems, TLAPS

-----------------------------------------------------------------------------
(* Menu orders.                                                            *)

OrderRow == [pay : Payments, known : BOOLEAN, kitchen : Kitchen]
CheckoutStages == {"none", "charged", "refused", "asking", "asked", "failing",
                   "done", "dead"}
Payers == {"none", "pending"} \cup Verdicts
MenuJobs ==
    {NoMenuJob}
    \cup [at : {"ask", "claim", "fail"}, order : Orders]
    \cup [at : {"save", "collect"}, order : Orders, seen : Kitchen, to : Kitchen]

\* How far a checkout is says what the row and the provider know: an order with
\* a reference is one whose checkout came to its end, so a checkout that fails
\* its order fails one that no finalizer can have completed.
CheckoutAgrees(at, row, p) ==
    /\ at = "none" => row.pay = "none" /\ p = "none"
    /\ at = "charged" => row.pay = "none" /\ p = "paid"
    /\ at = "refused" => row.pay = "none" /\ p = "declined"
    /\ at \in {"asking", "asked", "failing"} => row.pay = "pending"
    /\ at = "asking" => p = "none"
    /\ at = "asked" => p # "none"
    /\ row.known => at = "done" /\ p # "none"
    /\ row.pay = "failed" => p \in {"declined", "wrong sum"} \/ at = "dead"

\* What HandedOutOnce and PaidInFull say of one order, handed out n times and
\* overwritten w times.
ServedAgrees(at, row, p, n, w) ==
    /\ n <= w + (IF row.kitchen = "collected" THEN 1 ELSE 0)
    /\ row.kitchen = "collected" => n >= 1
    /\ n >= 1 => row.pay = "completed"
    /\ row.pay = "completed" => p = "paid"
    /\ p = "paid" /\ row.pay = "failed" => at = "dead"

\* What a desk is about to write is still due: verdicts are final, and a paid
\* order stays paid.
MenuJobDue(j, row, p) ==
    /\ j.at \in {"ask", "claim", "fail"} => row.known
    /\ j.at = "claim" => p = "paid"
    /\ j.at = "fail" => p \in {"declined", "wrong sum"}
    /\ j.at = "collect" => j.to = "collected"
    /\ j.at \in {"save", "collect"} =>
          /\ MayFollow(j.seen, j.to)
          /\ j.to # "cancelled" => row.pay = "completed"

MenuInv ==
    /\ MenuTypeOK
    /\ \A o \in Orders :
          /\ CheckoutAgrees(checkout[o], menuOrder[o], payer[o])
          /\ ServedAgrees(checkout[o], menuOrder[o], payer[o], served[o], overwritten[o])
    /\ \A d \in MenuDesks : menuJob[d] # NoMenuJob =>
          MenuJobDue(menuJob[d], menuOrder[menuJob[d].order],
                     payer[menuJob[d].order])

LEMMA MenuTypes ==
    ASSUME MenuTypeOK
    PROVE  /\ menuOrder \in [Orders -> OrderRow]
           /\ checkout \in [Orders -> CheckoutStages]
           /\ payer \in [Orders -> Payers]
           /\ served \in [Orders -> Nat] /\ overwritten \in [Orders -> Nat]
           /\ menuJob \in [MenuDesks -> MenuJobs]
BY MenuAssumption DEF MenuTypeOK, OrderRow, CheckoutStages, Payers, MenuJobs

\* A request in flight has an order.
LEMMA MenuJobTyped ==
    ASSUME MenuTypeOK, NEW d \in MenuDesks, menuJob[d] # NoMenuJob
    PROVE  /\ menuJob[d].order \in Orders
           /\ menuJob[d].at \in {"ask", "claim", "fail", "save", "collect"}
           /\ menuJob[d].at \in {"save", "collect"} =>
                 menuJob[d].seen \in Kitchen /\ menuJob[d].to \in Kitchen
BY DEF MenuTypeOK

\* A request begins, goes on or ends, and nothing else moves.
LEMMA MenuDeskMoves ==
    ASSUME MenuInv, NEW d \in MenuDesks, NEW j \in MenuJobs,
           MenuStage(d, j), UNCHANGED <<menuOrder, checkout, payer, served, overwritten>>,
           j # NoMenuJob =>
              MenuJobDue(j, menuOrder[j.order], payer[j.order])
    PROVE  MenuInv'
<1>1. MenuTypeOK'
  BY MenuTypes
     DEF MenuInv, MenuTypeOK, MenuStage, MenuJobs, OrderRow, CheckoutStages,
         Payers
<1>2. menuJob'[d] = j /\ \A x \in MenuDesks \ {d} : menuJob'[x] = menuJob[x]
  BY DEF MenuInv, MenuTypeOK, MenuStage
<1> QED
  BY <1>1, <1>2 DEF MenuInv

\* One order changes; what the desks have read of it still holds, and at most
\* requests end.
LEMMA MenuOrderMoves ==
    ASSUME MenuInv, NEW o \in Orders,
           menuOrder' \in [Orders -> OrderRow],
           checkout' \in [Orders -> CheckoutStages],
           payer' \in [Orders -> Payers],
           served' \in [Orders -> Nat], overwritten' \in [Orders -> 0..MaxOverwrites],
           menuJob' \in [MenuDesks -> MenuJobs],
           \A x \in Orders \ {o} :
              /\ menuOrder'[x] = menuOrder[x] /\ checkout'[x] = checkout[x]
              /\ payer'[x] = payer[x] /\ served'[x] = served[x]
              /\ overwritten'[x] = overwritten[x],
           CheckoutAgrees(checkout'[o], menuOrder'[o], payer'[o]),
           ServedAgrees(checkout'[o], menuOrder'[o], payer'[o], served'[o], overwritten'[o]),
           menuOrder[o].known => menuOrder'[o].known,
           menuOrder[o].pay = "completed" => menuOrder'[o].pay = "completed",
           payer[o] \in Verdicts => payer'[o] = payer[o],
           \A d \in MenuDesks :
              menuJob'[d] = menuJob[d] \/ menuJob'[d] = NoMenuJob
    PROVE  MenuInv'
<1>1. MenuTypeOK'
  BY DEF MenuTypeOK, OrderRow, CheckoutStages, Payers, MenuJobs
<1>2. ASSUME NEW d \in MenuDesks, menuJob'[d] # NoMenuJob
      PROVE  MenuJobDue(menuJob'[d], menuOrder'[menuJob'[d].order],
                        payer'[menuJob'[d].order])
  <2>1. menuJob'[d] = menuJob[d] /\ menuJob[d].order \in Orders
    BY <1>2, MenuJobTyped DEF MenuInv
  <2>2. MenuJobDue(menuJob[d], menuOrder[menuJob[d].order],
                   payer[menuJob[d].order])
    BY <1>2, <2>1 DEF MenuInv
  <2>3. CASE menuJob[d].order = o
    BY <2>1, <2>2, <2>3 DEF MenuJobDue, Verdicts
  <2>4. CASE menuJob[d].order # o
    BY <2>1, <2>2, <2>4
  <2> QED
    BY <2>3, <2>4
<1>3. ASSUME NEW x \in Orders
      PROVE  /\ CheckoutAgrees(checkout'[x], menuOrder'[x], payer'[x])
             /\ ServedAgrees(checkout'[x], menuOrder'[x], payer'[x], served'[x], overwritten'[x])
  BY <1>3 DEF MenuInv
<1> QED
  BY <1>1, <1>2, <1>3 DEF MenuInv

\* The card is charged or refused; no row exists yet.
LEMMA ChargeCardKeeps ==
    ASSUME MenuInv, NEW o \in Orders, ChargeCard(o)
    PROVE  MenuInv'
<1>1. /\ menuOrder \in [Orders -> OrderRow]
      /\ checkout \in [Orders -> CheckoutStages]
      /\ payer \in [Orders -> Payers] /\ served \in [Orders -> Nat]
      /\ overwritten \in [Orders -> 0..MaxOverwrites]
      /\ menuJob \in [MenuDesks -> MenuJobs]
  BY MenuTypes DEF MenuInv, MenuTypeOK
<1>2. /\ CheckoutAgrees(checkout[o], menuOrder[o], payer[o])
      /\ ServedAgrees(checkout[o], menuOrder[o], payer[o], served[o], overwritten[o])
  BY DEF MenuInv
<1>3. /\ menuOrder' \in [Orders -> OrderRow]
      /\ checkout' \in [Orders -> CheckoutStages]
      /\ payer' \in [Orders -> Payers] /\ served' \in [Orders -> Nat]
      /\ menuJob' = menuJob /\ overwritten' = overwritten
  BY <1>1 DEF ChargeCard, Advance, OrderRow, Payments, CheckoutStages,
     Payers, Verdicts
<1>4. \A x \in Orders \ {o} :
         /\ menuOrder'[x] = menuOrder[x] /\ checkout'[x] = checkout[x]
         /\ payer'[x] = payer[x] /\ served'[x] = served[x]
         /\ overwritten'[x] = overwritten[x]
  BY <1>1 DEF ChargeCard, Advance, OrderRow
<1>5. /\ CheckoutAgrees(checkout'[o], menuOrder'[o], payer'[o])
      /\ ServedAgrees(checkout'[o], menuOrder'[o], payer'[o], served'[o], overwritten'[o])
      /\ menuOrder[o].known => menuOrder'[o].known
      /\ menuOrder[o].pay = "completed" => menuOrder'[o].pay = "completed"
      /\ payer[o] \in Verdicts => payer'[o] = payer[o]
  BY <1>1, <1>2 DEF ChargeCard, Advance, OrderRow, CheckoutAgrees,
     ServedAgrees,
     Verdicts, Payers
<1> QED
  BY ONLY <1>1, <1>3, <1>4, <1>5, MenuInv, MenuOrderMoves, o \in Orders

\* The row says what the card said.
LEMMA SaveCardOrderKeeps ==
    ASSUME MenuInv, NEW o \in Orders, SaveCardOrder(o)
    PROVE  MenuInv'
<1>1. /\ menuOrder \in [Orders -> OrderRow]
      /\ checkout \in [Orders -> CheckoutStages]
      /\ payer \in [Orders -> Payers] /\ served \in [Orders -> Nat]
      /\ overwritten \in [Orders -> 0..MaxOverwrites]
      /\ menuJob \in [MenuDesks -> MenuJobs]
  BY MenuTypes DEF MenuInv, MenuTypeOK
<1>2. /\ CheckoutAgrees(checkout[o], menuOrder[o], payer[o])
      /\ ServedAgrees(checkout[o], menuOrder[o], payer[o], served[o], overwritten[o])
  BY DEF MenuInv
<1>3. /\ menuOrder' \in [Orders -> OrderRow]
      /\ checkout' \in [Orders -> CheckoutStages]
      /\ payer' \in [Orders -> Payers] /\ served' \in [Orders -> Nat]
      /\ menuJob' = menuJob /\ overwritten' = overwritten
  <2>1. CASE Advance(o, "charged", "done") /\ SetPay(o, "completed")
    BY <1>1, <2>1 DEF SaveCardOrder, Advance, SetPay, OrderRow, Payments,
       CheckoutStages, Payers, Verdicts
  <2>2. CASE Advance(o, "refused", "done") /\ SetPay(o, "failed")
    BY <1>1, <2>2 DEF SaveCardOrder, Advance, SetPay, OrderRow, Payments,
       CheckoutStages, Payers, Verdicts
  <2> QED
    BY <2>1, <2>2 DEF SaveCardOrder
<1>4. \A x \in Orders \ {o} :
         /\ menuOrder'[x] = menuOrder[x] /\ checkout'[x] = checkout[x]
         /\ payer'[x] = payer[x] /\ served'[x] = served[x]
         /\ overwritten'[x] = overwritten[x]
  BY <1>1 DEF SaveCardOrder, Advance, SetPay, OrderRow
<1>5. /\ CheckoutAgrees(checkout'[o], menuOrder'[o], payer'[o])
      /\ ServedAgrees(checkout'[o], menuOrder'[o], payer'[o], served'[o], overwritten'[o])
      /\ menuOrder[o].known => menuOrder'[o].known
      /\ menuOrder[o].pay = "completed" => menuOrder'[o].pay = "completed"
      /\ payer[o] \in Verdicts => payer'[o] = payer[o]
  <2>1. CASE Advance(o, "charged", "done") /\ SetPay(o, "completed")
    BY <1>1, <2>1, <1>2 DEF SaveCardOrder, Advance, SetPay, OrderRow,
       CheckoutAgrees, ServedAgrees,
       Verdicts, Payers
  <2>2. CASE Advance(o, "refused", "done") /\ SetPay(o, "failed")
    BY <1>1, <2>2, <1>2 DEF SaveCardOrder, Advance, SetPay, OrderRow,
       CheckoutAgrees, ServedAgrees,
       Verdicts, Payers
  <2> QED
    BY <2>1, <2>2 DEF SaveCardOrder
<1> QED
  BY ONLY <1>1, <1>3, <1>4, <1>5, MenuInv, MenuOrderMoves, o \in Orders

\* The row of a mobile payment comes before the request.
LEMMA SaveMomoOrderKeeps ==
    ASSUME MenuInv, NEW o \in Orders, SaveMomoOrder(o)
    PROVE  MenuInv'
<1>1. /\ menuOrder \in [Orders -> OrderRow]
      /\ checkout \in [Orders -> CheckoutStages]
      /\ payer \in [Orders -> Payers] /\ served \in [Orders -> Nat]
      /\ overwritten \in [Orders -> 0..MaxOverwrites]
      /\ menuJob \in [MenuDesks -> MenuJobs]
  BY MenuTypes DEF MenuInv, MenuTypeOK
<1>2. /\ CheckoutAgrees(checkout[o], menuOrder[o], payer[o])
      /\ ServedAgrees(checkout[o], menuOrder[o], payer[o], served[o], overwritten[o])
  BY DEF MenuInv
<1>3. /\ menuOrder' \in [Orders -> OrderRow]
      /\ checkout' \in [Orders -> CheckoutStages]
      /\ payer' \in [Orders -> Payers] /\ served' \in [Orders -> Nat]
      /\ menuJob' = menuJob /\ overwritten' = overwritten
  BY <1>1 DEF SaveMomoOrder, Advance, SetPay, OrderRow, Payments,
     CheckoutStages, Payers, Verdicts
<1>4. \A x \in Orders \ {o} :
         /\ menuOrder'[x] = menuOrder[x] /\ checkout'[x] = checkout[x]
         /\ payer'[x] = payer[x] /\ served'[x] = served[x]
         /\ overwritten'[x] = overwritten[x]
  BY <1>1 DEF SaveMomoOrder, Advance, SetPay, OrderRow
<1>5. /\ CheckoutAgrees(checkout'[o], menuOrder'[o], payer'[o])
      /\ ServedAgrees(checkout'[o], menuOrder'[o], payer'[o], served'[o], overwritten'[o])
      /\ menuOrder[o].known => menuOrder'[o].known
      /\ menuOrder[o].pay = "completed" => menuOrder'[o].pay = "completed"
      /\ payer[o] \in Verdicts => payer'[o] = payer[o]
  BY <1>1, <1>2 DEF SaveMomoOrder, Advance, SetPay, OrderRow,
     CheckoutAgrees, ServedAgrees,
     Verdicts, Payers
<1> QED
  BY ONLY <1>1, <1>3, <1>4, <1>5, MenuInv, MenuOrderMoves, o \in Orders

\* The request reaches the provider, or may have.
LEMMA RequestPaymentKeeps ==
    ASSUME MenuInv, NEW o \in Orders, RequestPayment(o)
    PROVE  MenuInv'
<1>1. /\ menuOrder \in [Orders -> OrderRow]
      /\ checkout \in [Orders -> CheckoutStages]
      /\ payer \in [Orders -> Payers] /\ served \in [Orders -> Nat]
      /\ overwritten \in [Orders -> 0..MaxOverwrites]
      /\ menuJob \in [MenuDesks -> MenuJobs]
  BY MenuTypes DEF MenuInv, MenuTypeOK
<1>2. /\ CheckoutAgrees(checkout[o], menuOrder[o], payer[o])
      /\ ServedAgrees(checkout[o], menuOrder[o], payer[o], served[o], overwritten[o])
  BY DEF MenuInv
<1>3. /\ menuOrder' \in [Orders -> OrderRow]
      /\ checkout' \in [Orders -> CheckoutStages]
      /\ payer' \in [Orders -> Payers] /\ served' \in [Orders -> Nat]
      /\ menuJob' = menuJob /\ overwritten' = overwritten
  BY <1>1 DEF RequestPayment, Advance, OrderRow, Payments, CheckoutStages,
     Payers, Verdicts
<1>4. \A x \in Orders \ {o} :
         /\ menuOrder'[x] = menuOrder[x] /\ checkout'[x] = checkout[x]
         /\ payer'[x] = payer[x] /\ served'[x] = served[x]
         /\ overwritten'[x] = overwritten[x]
  BY <1>1 DEF RequestPayment, Advance, OrderRow
<1>5. /\ CheckoutAgrees(checkout'[o], menuOrder'[o], payer'[o])
      /\ ServedAgrees(checkout'[o], menuOrder'[o], payer'[o], served'[o], overwritten'[o])
      /\ menuOrder[o].known => menuOrder'[o].known
      /\ menuOrder[o].pay = "completed" => menuOrder'[o].pay = "completed"
      /\ payer[o] \in Verdicts => payer'[o] = payer[o]
  BY <1>1, <1>2 DEF RequestPayment, Advance, OrderRow, CheckoutAgrees,
     ServedAgrees,
     Verdicts, Payers
<1> QED
  BY ONLY <1>1, <1>3, <1>4, <1>5, MenuInv, MenuOrderMoves, o \in Orders

\* Only an order whose checkout came to its end can be finalized.
LEMMA SaveReferenceKeeps ==
    ASSUME MenuInv, NEW o \in Orders, SaveReference(o)
    PROVE  MenuInv'
<1>1. /\ menuOrder \in [Orders -> OrderRow]
      /\ checkout \in [Orders -> CheckoutStages]
      /\ payer \in [Orders -> Payers] /\ served \in [Orders -> Nat]
      /\ overwritten \in [Orders -> 0..MaxOverwrites]
      /\ menuJob \in [MenuDesks -> MenuJobs]
  BY MenuTypes DEF MenuInv, MenuTypeOK
<1>2. /\ CheckoutAgrees(checkout[o], menuOrder[o], payer[o])
      /\ ServedAgrees(checkout[o], menuOrder[o], payer[o], served[o], overwritten[o])
  BY DEF MenuInv
<1>3. /\ menuOrder' \in [Orders -> OrderRow]
      /\ checkout' \in [Orders -> CheckoutStages]
      /\ payer' \in [Orders -> Payers] /\ served' \in [Orders -> Nat]
      /\ menuJob' = menuJob /\ overwritten' = overwritten
  <2>1. CASE /\ Advance(o, "asked", "done")
              /\ menuOrder' = [menuOrder EXCEPT ![o].known = TRUE]
    BY <1>1, <2>1 DEF SaveReference, Advance, OrderRow, Payments,
       CheckoutStages, Payers, Verdicts
  <2>2. CASE Advance(o, "asked", "failing") /\ UNCHANGED menuOrder
    BY <1>1, <2>2 DEF SaveReference, Advance, OrderRow, Payments,
       CheckoutStages, Payers, Verdicts
  <2> QED
    BY <2>1, <2>2 DEF SaveReference
<1>4. \A x \in Orders \ {o} :
         /\ menuOrder'[x] = menuOrder[x] /\ checkout'[x] = checkout[x]
         /\ payer'[x] = payer[x] /\ served'[x] = served[x]
         /\ overwritten'[x] = overwritten[x]
  BY <1>1 DEF SaveReference, Advance, OrderRow
<1>5. /\ CheckoutAgrees(checkout'[o], menuOrder'[o], payer'[o])
      /\ ServedAgrees(checkout'[o], menuOrder'[o], payer'[o], served'[o], overwritten'[o])
      /\ menuOrder[o].known => menuOrder'[o].known
      /\ menuOrder[o].pay = "completed" => menuOrder'[o].pay = "completed"
      /\ payer[o] \in Verdicts => payer'[o] = payer[o]
  <2>1. CASE /\ Advance(o, "asked", "done")
              /\ menuOrder' = [menuOrder EXCEPT ![o].known = TRUE]
    BY <1>1, <2>1, <1>2 DEF SaveReference, Advance, OrderRow,
       CheckoutAgrees, ServedAgrees,
       Verdicts, Payers
  <2>2. CASE Advance(o, "asked", "failing") /\ UNCHANGED menuOrder
    BY <1>1, <2>2, <1>2 DEF SaveReference, Advance, OrderRow,
       CheckoutAgrees, ServedAgrees,
       Verdicts, Payers
  <2> QED
    BY <2>1, <2>2 DEF SaveReference
<1> QED
  BY ONLY <1>1, <1>3, <1>4, <1>5, MenuInv, MenuOrderMoves, o \in Orders

\* A checkout fails the order that no finalizer has seen.
LEMMA FailCheckoutKeeps ==
    ASSUME MenuInv, NEW o \in Orders, FailCheckout(o)
    PROVE  MenuInv'
<1>1. /\ menuOrder \in [Orders -> OrderRow]
      /\ checkout \in [Orders -> CheckoutStages]
      /\ payer \in [Orders -> Payers] /\ served \in [Orders -> Nat]
      /\ overwritten \in [Orders -> 0..MaxOverwrites]
      /\ menuJob \in [MenuDesks -> MenuJobs]
  BY MenuTypes DEF MenuInv, MenuTypeOK
<1>2. /\ CheckoutAgrees(checkout[o], menuOrder[o], payer[o])
      /\ ServedAgrees(checkout[o], menuOrder[o], payer[o], served[o], overwritten[o])
  BY DEF MenuInv
<1>3. /\ menuOrder' \in [Orders -> OrderRow]
      /\ checkout' \in [Orders -> CheckoutStages]
      /\ payer' \in [Orders -> Payers] /\ served' \in [Orders -> Nat]
      /\ menuJob' = menuJob /\ overwritten' = overwritten
  BY <1>1 DEF FailCheckout, Advance, SetPay, OrderRow, Payments,
     CheckoutStages, Payers, Verdicts
<1>4. \A x \in Orders \ {o} :
         /\ menuOrder'[x] = menuOrder[x] /\ checkout'[x] = checkout[x]
         /\ payer'[x] = payer[x] /\ served'[x] = served[x]
         /\ overwritten'[x] = overwritten[x]
  BY <1>1 DEF FailCheckout, Advance, SetPay, OrderRow
<1>5. /\ CheckoutAgrees(checkout'[o], menuOrder'[o], payer'[o])
      /\ ServedAgrees(checkout'[o], menuOrder'[o], payer'[o], served'[o], overwritten'[o])
      /\ menuOrder[o].known => menuOrder'[o].known
      /\ menuOrder[o].pay = "completed" => menuOrder'[o].pay = "completed"
      /\ payer[o] \in Verdicts => payer'[o] = payer[o]
  BY <1>1, <1>2 DEF FailCheckout, Advance, SetPay, OrderRow,
     CheckoutAgrees, ServedAgrees,
     Verdicts, Payers
<1> QED
  BY ONLY <1>1, <1>3, <1>4, <1>5, MenuInv, MenuOrderMoves, o \in Orders

\* A checkout that dies leaves the row as it is.
LEMMA CheckoutDiesKeeps ==
    ASSUME MenuInv, NEW o \in Orders, CheckoutDies(o)
    PROVE  MenuInv'
<1>1. /\ menuOrder \in [Orders -> OrderRow]
      /\ checkout \in [Orders -> CheckoutStages]
      /\ payer \in [Orders -> Payers] /\ served \in [Orders -> Nat]
      /\ overwritten \in [Orders -> 0..MaxOverwrites]
      /\ menuJob \in [MenuDesks -> MenuJobs]
  BY MenuTypes DEF MenuInv, MenuTypeOK
<1>2. /\ CheckoutAgrees(checkout[o], menuOrder[o], payer[o])
      /\ ServedAgrees(checkout[o], menuOrder[o], payer[o], served[o], overwritten[o])
  BY DEF MenuInv
<1>3. /\ menuOrder' \in [Orders -> OrderRow]
      /\ checkout' \in [Orders -> CheckoutStages]
      /\ payer' \in [Orders -> Payers] /\ served' \in [Orders -> Nat]
      /\ menuJob' = menuJob /\ overwritten' = overwritten
  BY <1>1 DEF CheckoutDies, Advance, OrderRow, Payments, CheckoutStages,
     Payers, Verdicts
<1>4. \A x \in Orders \ {o} :
         /\ menuOrder'[x] = menuOrder[x] /\ checkout'[x] = checkout[x]
         /\ payer'[x] = payer[x] /\ served'[x] = served[x]
         /\ overwritten'[x] = overwritten[x]
  BY <1>1 DEF CheckoutDies, Advance, OrderRow
<1>5. /\ CheckoutAgrees(checkout'[o], menuOrder'[o], payer'[o])
      /\ ServedAgrees(checkout'[o], menuOrder'[o], payer'[o], served'[o], overwritten'[o])
      /\ menuOrder[o].known => menuOrder'[o].known
      /\ menuOrder[o].pay = "completed" => menuOrder'[o].pay = "completed"
      /\ payer[o] \in Verdicts => payer'[o] = payer[o]
  BY <1>1, <1>2 DEF CheckoutDies, Advance, OrderRow, CheckoutAgrees,
     ServedAgrees,
     Verdicts, Payers
<1> QED
  BY ONLY <1>1, <1>3, <1>4, <1>5, MenuInv, MenuOrderMoves, o \in Orders

\* The payer answers once.
LEMMA PayerAnswersKeeps ==
    ASSUME MenuInv, NEW o \in Orders, PayerAnswers(o)
    PROVE  MenuInv'
<1>1. /\ menuOrder \in [Orders -> OrderRow]
      /\ checkout \in [Orders -> CheckoutStages]
      /\ payer \in [Orders -> Payers] /\ served \in [Orders -> Nat]
      /\ overwritten \in [Orders -> 0..MaxOverwrites]
      /\ menuJob \in [MenuDesks -> MenuJobs]
  BY MenuTypes DEF MenuInv, MenuTypeOK
<1>2. /\ CheckoutAgrees(checkout[o], menuOrder[o], payer[o])
      /\ ServedAgrees(checkout[o], menuOrder[o], payer[o], served[o], overwritten[o])
  BY DEF MenuInv
<1>3. /\ menuOrder' \in [Orders -> OrderRow]
      /\ checkout' \in [Orders -> CheckoutStages]
      /\ payer' \in [Orders -> Payers] /\ served' \in [Orders -> Nat]
      /\ menuJob' = menuJob /\ overwritten' = overwritten
  BY ZenonT(30), <1>1 DEF PayerAnswers, OrderRow, Payments, CheckoutStages, Payers,
     Verdicts
<1>4. \A x \in Orders \ {o} :
         /\ menuOrder'[x] = menuOrder[x] /\ checkout'[x] = checkout[x]
         /\ payer'[x] = payer[x] /\ served'[x] = served[x]
         /\ overwritten'[x] = overwritten[x]
  BY <1>1 DEF PayerAnswers, OrderRow
<1>5. /\ CheckoutAgrees(checkout'[o], menuOrder'[o], payer'[o])
      /\ ServedAgrees(checkout'[o], menuOrder'[o], payer'[o], served'[o], overwritten'[o])
      /\ menuOrder[o].known => menuOrder'[o].known
      /\ menuOrder[o].pay = "completed" => menuOrder'[o].pay = "completed"
      /\ payer[o] \in Verdicts => payer'[o] = payer[o]
  BY <1>1, <1>2 DEF PayerAnswers, OrderRow, CheckoutAgrees, ServedAgrees,
     Verdicts, Payers
<1> QED
  BY ONLY <1>1, <1>3, <1>4, <1>5, MenuInv, MenuOrderMoves, o \in Orders

\* A finalizer takes up an order whose reference is known.
LEMMA LoadPendingKeeps ==
    ASSUME MenuInv, NEW d \in MenuDesks, NEW o \in Orders, LoadPending(d, o)
    PROVE  MenuInv'
<1>1. /\ menuOrder \in [Orders -> OrderRow]
      /\ checkout \in [Orders -> CheckoutStages]
      /\ payer \in [Orders -> Payers] /\ served \in [Orders -> Nat]
      /\ overwritten \in [Orders -> 0..MaxOverwrites]
      /\ menuJob \in [MenuDesks -> MenuJobs]
  BY MenuTypes DEF MenuInv, MenuTypeOK
<1> DEFINE j == [at |-> "ask", order |-> o]
<1>2. /\ MenuStage(d, j)
      /\ UNCHANGED <<menuOrder, checkout, payer, served, overwritten>>
  BY DEF LoadPending
<1>3. j \in MenuJobs
  BY <1>1 DEF MenuJobs, OrderRow
<1>4. MenuJobDue(j, menuOrder[j.order], payer[j.order])
  BY <1>1 DEF LoadPending, MenuJobDue
<1> HIDE DEF j
<1> QED
  BY ONLY <1>2, <1>3, <1>4, MenuInv, MenuDeskMoves, d \in MenuDesks

\* A scanner looks at an order that may be collected.
LEMMA LoadForScannerKeeps ==
    ASSUME MenuInv, NEW d \in MenuDesks, NEW o \in Orders, LoadForScanner(d, o)
    PROVE  MenuInv'
<1>1. /\ menuOrder \in [Orders -> OrderRow]
      /\ checkout \in [Orders -> CheckoutStages]
      /\ payer \in [Orders -> Payers] /\ served \in [Orders -> Nat]
      /\ overwritten \in [Orders -> 0..MaxOverwrites]
      /\ menuJob \in [MenuDesks -> MenuJobs]
  BY MenuTypes DEF MenuInv, MenuTypeOK
<1> DEFINE j == [at |-> "collect", order |-> o, seen |-> menuOrder[o].kitchen,
                to |-> "collected"]
<1>2. /\ MenuStage(d, j)
      /\ UNCHANGED <<menuOrder, checkout, payer, served, overwritten>>
  BY DEF LoadForScanner
<1>3. j \in MenuJobs
  BY <1>1 DEF MenuJobs, OrderRow, Kitchen
<1>4. MenuJobDue(j, menuOrder[j.order], payer[j.order])
  BY <1>1 DEF LoadForScanner, MenuJobDue, MayMove
<1> HIDE DEF j
<1> QED
  BY ONLY <1>2, <1>3, <1>4, MenuInv, MenuDeskMoves, d \in MenuDesks

\* A screen looks at an order that may move on.
LEMMA LoadForKitchenKeeps ==
    ASSUME MenuInv, NEW d \in MenuDesks, NEW o \in Orders, NEW to \in Kitchen,
           LoadForKitchen(d, o, to)
    PROVE  MenuInv'
<1>1. /\ menuOrder \in [Orders -> OrderRow]
      /\ checkout \in [Orders -> CheckoutStages]
      /\ payer \in [Orders -> Payers] /\ served \in [Orders -> Nat]
      /\ overwritten \in [Orders -> 0..MaxOverwrites]
      /\ menuJob \in [MenuDesks -> MenuJobs]
  BY MenuTypes DEF MenuInv, MenuTypeOK
<1> DEFINE j == [at |-> "save", order |-> o, seen |-> menuOrder[o].kitchen,
                to |-> to]
<1>2. /\ MenuStage(d, j)
      /\ UNCHANGED <<menuOrder, checkout, payer, served, overwritten>>
  BY DEF LoadForKitchen
<1>3. j \in MenuJobs
  BY <1>1 DEF MenuJobs, OrderRow
<1>4. MenuJobDue(j, menuOrder[j.order], payer[j.order])
  BY <1>1 DEF LoadForKitchen, MenuJobDue, MayMove
<1> HIDE DEF j
<1> QED
  BY ONLY <1>2, <1>3, <1>4, MenuInv, MenuDeskMoves, d \in MenuDesks

\* The verdict a finalizer takes along is the provider's, which is final.
LEMMA AskProviderKeeps ==
    ASSUME MenuInv, NEW d \in MenuDesks, AskProvider(d)
    PROVE  MenuInv'
<1>1. /\ menuOrder \in [Orders -> OrderRow]
      /\ checkout \in [Orders -> CheckoutStages]
      /\ payer \in [Orders -> Payers] /\ served \in [Orders -> Nat]
      /\ overwritten \in [Orders -> 0..MaxOverwrites]
      /\ menuJob \in [MenuDesks -> MenuJobs]
  BY MenuTypes DEF MenuInv, MenuTypeOK
<1>2. menuJob[d] # NoMenuJob /\ menuJob[d].order \in Orders
  BY MenuJobTyped DEF MenuInv, AskProvider, NoMenuJob
<1>3. MenuJobDue(menuJob[d], menuOrder[menuJob[d].order],
                 payer[menuJob[d].order])
  BY <1>2 DEF MenuInv
<1> DEFINE o == menuJob[d].order
           j == IF payer[o] = "pending" THEN NoMenuJob
                ELSE [at |-> IF Confirmed(o) THEN "claim" ELSE "fail",
                      order |-> o]
<1>4. /\ MenuStage(d, j)
      /\ UNCHANGED <<menuOrder, checkout, payer, served, overwritten>>
  BY DEF AskProvider
<1>5. j \in MenuJobs
  BY <1>2 DEF MenuJobs
<1>6. payer[o] # "none"
  BY <1>2, <1>3 DEF MenuInv, MenuJobDue, CheckoutAgrees, AskProvider
<1>7. j # NoMenuJob => MenuJobDue(j, menuOrder[j.order], payer[j.order])
  BY <1>1, <1>2, <1>3, <1>6
     DEF AskProvider, MenuJobDue, Confirmed, Payers, Verdicts
<1> HIDE DEF j
<1> QED
  BY ONLY <1>4, <1>5, <1>7, MenuInv, MenuDeskMoves, d \in MenuDesks

\* A request that fails leaves nothing behind.
LEMMA MenuRequestFailsKeeps ==
    ASSUME MenuInv, NEW d \in MenuDesks, MenuRequestFails(d)
    PROVE  MenuInv'
<1>1. MenuStage(d, NoMenuJob) /\ NoMenuJob \in MenuJobs
      /\ UNCHANGED <<menuOrder, checkout, payer, served, overwritten>>
  BY DEF MenuRequestFails, MenuJobs
<1> QED
  BY ONLY <1>1, MenuInv, MenuDeskMoves, d \in MenuDesks

\* The claim completes an order that the provider was paid for.
LEMMA ClaimPaidKeeps ==
    ASSUME MenuInv, NEW d \in MenuDesks, ClaimPaid(d)
    PROVE  MenuInv'
<1>1. /\ menuOrder \in [Orders -> OrderRow]
      /\ checkout \in [Orders -> CheckoutStages]
      /\ payer \in [Orders -> Payers] /\ served \in [Orders -> Nat]
      /\ overwritten \in [Orders -> 0..MaxOverwrites]
      /\ menuJob \in [MenuDesks -> MenuJobs]
  BY MenuTypes DEF MenuInv, MenuTypeOK
<1> DEFINE o == menuJob[d].order
<1>2. /\ menuJob[d] # NoMenuJob /\ o \in Orders
      /\ menuJob[d].at \in {"save", "collect"} =>
            menuJob[d].seen \in Kitchen /\ menuJob[d].to \in Kitchen
  <2>1. menuJob[d] # NoMenuJob
    BY DEF ClaimPaid, NoMenuJob
  <2> QED
    BY <2>1, MenuJobTyped DEF MenuInv
<1>3. /\ CheckoutAgrees(checkout[o], menuOrder[o], payer[o])
      /\ ServedAgrees(checkout[o], menuOrder[o], payer[o], served[o], overwritten[o])
      /\ MenuJobDue(menuJob[d], menuOrder[o], payer[o])
  BY <1>2 DEF MenuInv
<1>4. /\ menuOrder' \in [Orders -> OrderRow] /\ served' \in [Orders -> Nat]
      /\ overwritten' \in [Orders -> 0..MaxOverwrites]
      /\ checkout' = checkout /\ payer' = payer
  <2>1. menuOrder' \in [Orders -> OrderRow]
    <3>1. CASE menuOrder[o].pay = "pending"
      BY <1>1, <1>2, <3>1 DEF ClaimPaid, SetPay, OrderRow, Payments
    <3>2. CASE menuOrder[o].pay # "pending"
      BY <1>1, <3>2 DEF ClaimPaid
    <3> QED
      BY <3>1, <3>2
  <2> QED
    BY <1>1, <2>1 DEF ClaimPaid
<1>5. menuJob' \in [MenuDesks -> MenuJobs]
      /\ \A x \in MenuDesks : menuJob'[x] = menuJob[x] \/ menuJob'[x] = NoMenuJob
  BY <1>1 DEF ClaimPaid, MenuStage, MenuJobs
<1>6. \A x \in Orders \ {o} :
         /\ menuOrder'[x] = menuOrder[x] /\ served'[x] = served[x]
         /\ overwritten'[x] = overwritten[x]
  BY <1>1, <1>2 DEF ClaimPaid, SetPay, OrderRow
<1>8. /\ menuOrder'[o].known = menuOrder[o].known
      /\ menuOrder'[o].kitchen = menuOrder[o].kitchen
      /\ menuOrder'[o].pay = IF menuOrder[o].pay = "pending" THEN "completed"
                             ELSE menuOrder[o].pay
      /\ served'[o] = served[o] /\ overwritten'[o] = overwritten[o]
  BY <1>1, <1>2, <1>4 DEF ClaimPaid, SetPay, OrderRow
<1>7. /\ CheckoutAgrees(checkout'[o], menuOrder'[o], payer'[o])
      /\ ServedAgrees(checkout'[o], menuOrder'[o], payer'[o], served'[o], overwritten'[o])
      /\ menuOrder[o].known => menuOrder'[o].known
      /\ menuOrder[o].pay = "completed" => menuOrder'[o].pay = "completed"
  BY <1>1, <1>2, <1>3, <1>4, <1>8
     DEF ClaimPaid, CheckoutAgrees, ServedAgrees, MenuJobDue
<1> HIDE DEF o
<1> QED
  BY ONLY <1>1, <1>2, <1>4, <1>5, <1>6, <1>7, MenuInv, MenuOrderMoves

\* An order the payer declined is failed; none that was paid for is.
LEMMA SaveDeclinedKeeps ==
    ASSUME MenuInv, NEW d \in MenuDesks, SaveDeclined(d)
    PROVE  MenuInv'
<1>1. /\ menuOrder \in [Orders -> OrderRow]
      /\ checkout \in [Orders -> CheckoutStages]
      /\ payer \in [Orders -> Payers] /\ served \in [Orders -> Nat]
      /\ overwritten \in [Orders -> 0..MaxOverwrites]
      /\ menuJob \in [MenuDesks -> MenuJobs]
  BY MenuTypes DEF MenuInv, MenuTypeOK
<1> DEFINE o == menuJob[d].order
<1>2. /\ menuJob[d] # NoMenuJob /\ o \in Orders
      /\ menuJob[d].at \in {"save", "collect"} =>
            menuJob[d].seen \in Kitchen /\ menuJob[d].to \in Kitchen
  <2>1. menuJob[d] # NoMenuJob
    BY DEF SaveDeclined, NoMenuJob
  <2> QED
    BY <2>1, MenuJobTyped DEF MenuInv
<1>3. /\ CheckoutAgrees(checkout[o], menuOrder[o], payer[o])
      /\ ServedAgrees(checkout[o], menuOrder[o], payer[o], served[o], overwritten[o])
      /\ MenuJobDue(menuJob[d], menuOrder[o], payer[o])
  BY <1>2 DEF MenuInv
<1>4. /\ menuOrder' \in [Orders -> OrderRow] /\ served' \in [Orders -> Nat]
      /\ overwritten' \in [Orders -> 0..MaxOverwrites]
      /\ checkout' = checkout /\ payer' = payer
  BY <1>1, <1>2 DEF SaveDeclined, SetPay, OrderRow, Payments, Kitchen
<1>5. menuJob' \in [MenuDesks -> MenuJobs]
      /\ \A x \in MenuDesks : menuJob'[x] = menuJob[x] \/ menuJob'[x] = NoMenuJob
  BY <1>1 DEF SaveDeclined, MenuStage, MenuJobs
<1>6. \A x \in Orders \ {o} :
         /\ menuOrder'[x] = menuOrder[x] /\ served'[x] = served[x]
         /\ overwritten'[x] = overwritten[x]
  BY <1>1, <1>2 DEF SaveDeclined, SetPay, OrderRow
<1>7. /\ CheckoutAgrees(checkout'[o], menuOrder'[o], payer'[o])
      /\ ServedAgrees(checkout'[o], menuOrder'[o], payer'[o], served'[o], overwritten'[o])
      /\ menuOrder[o].known => menuOrder'[o].known
      /\ menuOrder[o].pay = "completed" => menuOrder'[o].pay = "completed"
  BY <1>1, <1>2, <1>3, <1>4
     DEF SaveDeclined, SetPay, OrderRow, CheckoutAgrees, ServedAgrees, MenuJobDue
<1> HIDE DEF o
<1> QED
  BY ONLY <1>1, <1>2, <1>4, <1>5, <1>6, <1>7, MenuInv, MenuOrderMoves

\* A screen saves the step it chose: over the state it looked at once, over another
\* with a mark.
LEMMA SaveKitchenKeeps ==
    ASSUME MenuInv, NEW d \in MenuDesks, SaveKitchen(d)
    PROVE  MenuInv'
<1>1. /\ menuOrder \in [Orders -> OrderRow]
      /\ checkout \in [Orders -> CheckoutStages]
      /\ payer \in [Orders -> Payers] /\ served \in [Orders -> Nat]
      /\ overwritten \in [Orders -> 0..MaxOverwrites]
      /\ menuJob \in [MenuDesks -> MenuJobs]
  BY MenuTypes DEF MenuInv, MenuTypeOK
<1> DEFINE o == menuJob[d].order
<1>2. /\ menuJob[d] # NoMenuJob /\ o \in Orders
      /\ menuJob[d].at \in {"save", "collect"} =>
            menuJob[d].seen \in Kitchen /\ menuJob[d].to \in Kitchen
  <2>1. menuJob[d] # NoMenuJob
    BY DEF SaveKitchen, NoMenuJob
  <2> QED
    BY <2>1, MenuJobTyped DEF MenuInv
<1>3. /\ CheckoutAgrees(checkout[o], menuOrder[o], payer[o])
      /\ ServedAgrees(checkout[o], menuOrder[o], payer[o], served[o], overwritten[o])
      /\ MenuJobDue(menuJob[d], menuOrder[o], payer[o])
  BY <1>2 DEF MenuInv
<1>4. /\ menuOrder' \in [Orders -> OrderRow] /\ served' \in [Orders -> Nat]
      /\ overwritten' \in [Orders -> 0..MaxOverwrites]
      /\ checkout' = checkout /\ payer' = payer
  <2>1. menuOrder' \in [Orders -> OrderRow]
    BY <1>1, <1>2 DEF SaveKitchen, MoveOn, OrderRow, Kitchen
  <2>2. served' \in [Orders -> Nat]
    BY <1>1, <1>2 DEF SaveKitchen, MoveOn
  <2>3. CASE StillAsSeen(d)
    BY <1>1, <2>1, <2>2, <2>3 DEF SaveKitchen
  <2>4. CASE ~StillAsSeen(d)
    <3>1. /\ overwritten[o] < MaxOverwrites
          /\ overwritten' = [overwritten EXCEPT ![o] = @ + 1]
          /\ checkout' = checkout /\ payer' = payer
      BY <2>4 DEF SaveKitchen
    <3>2. overwritten' \in [Orders -> 0..MaxOverwrites]
      BY <1>1, <1>2, <3>1, MenuAssumption
    <3> QED
      BY <2>1, <2>2, <3>1, <3>2
  <2> QED
    BY <2>3, <2>4
<1>5. menuJob' \in [MenuDesks -> MenuJobs]
      /\ \A x \in MenuDesks : menuJob'[x] = menuJob[x] \/ menuJob'[x] = NoMenuJob
  BY <1>1 DEF SaveKitchen, MenuStage, MenuJobs
<1>6. \A x \in Orders \ {o} :
         /\ menuOrder'[x] = menuOrder[x] /\ served'[x] = served[x]
         /\ overwritten'[x] = overwritten[x]
  BY <1>1, <1>2 DEF SaveKitchen, StillAsSeen, MoveOn, OrderRow
<1>8. /\ menuOrder'[o].known = menuOrder[o].known
      /\ menuOrder'[o].pay = menuOrder[o].pay
      /\ menuOrder'[o].kitchen = menuJob[d].to
      /\ served'[o] = served[o] + IF menuJob[d].to = "collected" THEN 1 ELSE 0
      /\ overwritten'[o] = overwritten[o] + IF StillAsSeen(d) THEN 0 ELSE 1
  BY <1>1, <1>2 DEF SaveKitchen, MoveOn, OrderRow
<1>9. /\ MayFollow(menuJob[d].seen, menuJob[d].to)
      /\ menuJob[d].to # "cancelled" => menuOrder[o].pay = "completed"
  BY <1>3 DEF MenuJobDue, SaveKitchen
<1>10. CheckoutAgrees(checkout'[o], menuOrder'[o], payer'[o])
  BY <1>3, <1>4, <1>8 DEF CheckoutAgrees
<1>11. /\ StillAsSeen(d) => menuOrder[o].kitchen # "collected"
       /\ served[o] \in Nat /\ overwritten[o] \in Nat
  BY <1>1, <1>2, <1>9 DEF StillAsSeen, MayFollow, Forward
<1>12. served'[o] >= 1 => menuOrder'[o].pay = "completed"
  BY <1>3, <1>8, <1>9, <1>11 DEF ServedAgrees
<1>13. /\ served'[o] <= overwritten'[o]
                           + (IF menuOrder'[o].kitchen = "collected" THEN 1 ELSE 0)
       /\ menuOrder'[o].kitchen = "collected" => served'[o] >= 1
  BY <1>3, <1>8, <1>11 DEF ServedAgrees
<1>7. /\ CheckoutAgrees(checkout'[o], menuOrder'[o], payer'[o])
      /\ ServedAgrees(checkout'[o], menuOrder'[o], payer'[o], served'[o], overwritten'[o])
      /\ menuOrder[o].known => menuOrder'[o].known
      /\ menuOrder[o].pay = "completed" => menuOrder'[o].pay = "completed"
  BY <1>3, <1>4, <1>8, <1>10, <1>12, <1>13 DEF ServedAgrees
<1> HIDE DEF o
<1> QED
  BY ONLY <1>1, <1>2, <1>4, <1>5, <1>6, <1>7, MenuInv, MenuOrderMoves

\* The claim hands out what is still as it was seen, and nothing else.
LEMMA ClaimCollectKeeps ==
    ASSUME MenuInv, NEW d \in MenuDesks, ClaimCollect(d)
    PROVE  MenuInv'
<1>1. /\ menuOrder \in [Orders -> OrderRow]
      /\ checkout \in [Orders -> CheckoutStages]
      /\ payer \in [Orders -> Payers] /\ served \in [Orders -> Nat]
      /\ overwritten \in [Orders -> 0..MaxOverwrites]
      /\ menuJob \in [MenuDesks -> MenuJobs]
  BY MenuTypes DEF MenuInv, MenuTypeOK
<1> DEFINE o == menuJob[d].order
<1>2. /\ menuJob[d] # NoMenuJob /\ o \in Orders
      /\ menuJob[d].at \in {"save", "collect"} =>
            menuJob[d].seen \in Kitchen /\ menuJob[d].to \in Kitchen
  <2>1. menuJob[d] # NoMenuJob
    BY DEF ClaimCollect, NoMenuJob
  <2> QED
    BY <2>1, MenuJobTyped DEF MenuInv
<1>3. /\ CheckoutAgrees(checkout[o], menuOrder[o], payer[o])
      /\ ServedAgrees(checkout[o], menuOrder[o], payer[o], served[o], overwritten[o])
      /\ MenuJobDue(menuJob[d], menuOrder[o], payer[o])
  BY <1>2 DEF MenuInv
<1>4. /\ menuOrder' \in [Orders -> OrderRow] /\ served' \in [Orders -> Nat]
      /\ overwritten' \in [Orders -> 0..MaxOverwrites]
      /\ checkout' = checkout /\ payer' = payer
  <2>1. CASE Collectable(d)
    <3>1. menuOrder' \in [Orders -> OrderRow]
      BY <1>1, <1>2, <2>1 DEF ClaimCollect, MoveOn, OrderRow, Kitchen
    <3>2. served' \in [Orders -> Nat]
      BY <1>1, <1>2, <2>1 DEF ClaimCollect, MoveOn
    <3> QED
      BY <1>1, <3>1, <3>2 DEF ClaimCollect
  <2>2. CASE ~Collectable(d)
    BY <1>1, <2>2 DEF ClaimCollect
  <2> QED
    BY <2>1, <2>2
<1>5. menuJob' \in [MenuDesks -> MenuJobs]
      /\ \A x \in MenuDesks : menuJob'[x] = menuJob[x] \/ menuJob'[x] = NoMenuJob
  BY <1>1 DEF ClaimCollect, MenuStage, MenuJobs
<1>6. \A x \in Orders \ {o} :
         /\ menuOrder'[x] = menuOrder[x] /\ served'[x] = served[x]
         /\ overwritten'[x] = overwritten[x]
  BY <1>1, <1>2 DEF ClaimCollect, Collectable, StillAsSeen, MoveOn, OrderRow
<1>8. ASSUME StillAsSeen(d)
      PROVE  /\ CheckoutAgrees(checkout'[o], menuOrder'[o], payer'[o])
             /\ ServedAgrees(checkout'[o], menuOrder'[o], payer'[o], served'[o], overwritten'[o])
             /\ menuOrder[o].known => menuOrder'[o].known
             /\ menuOrder[o].pay = "completed" => menuOrder'[o].pay = "completed"
  <2>1. /\ menuOrder'[o].known = menuOrder[o].known
        /\ menuOrder'[o].pay = menuOrder[o].pay
        /\ menuOrder'[o].kitchen = "collected"
        /\ served'[o] = served[o] + 1 /\ overwritten'[o] = overwritten[o]
        /\ served[o] \in Nat /\ overwritten[o] \in Nat
    BY <1>1, <1>2, <1>8 DEF ClaimCollect, Collectable, MoveOn, OrderRow
  <2>2. menuOrder[o].kitchen = menuJob[d].seen
    BY <1>8 DEF StillAsSeen
  <2>3. MayFollow(menuJob[d].seen, menuJob[d].to)
        /\ (menuJob[d].to # "cancelled" => menuOrder[o].pay = "completed")
    BY <1>3 DEF MenuJobDue, ClaimCollect
  <2>4. menuOrder[o].kitchen # "collected"
    BY <2>2, <2>3 DEF MayFollow, Forward
  <2>6. menuJob[d].to = "collected"
    BY <1>3 DEF MenuJobDue, ClaimCollect
  <2>5. CheckoutAgrees(checkout'[o], menuOrder'[o], payer'[o])
    BY <1>3, <1>4, <2>1 DEF CheckoutAgrees
  <2> QED
    BY SMTT(30), <1>3, <1>4, <2>1, <2>3, <2>4, <2>5, <2>6 DEF ServedAgrees
<1>9. ASSUME ~StillAsSeen(d)
      PROVE  /\ CheckoutAgrees(checkout'[o], menuOrder'[o], payer'[o])
             /\ ServedAgrees(checkout'[o], menuOrder'[o], payer'[o], served'[o], overwritten'[o])
             /\ menuOrder[o].known => menuOrder'[o].known
             /\ menuOrder[o].pay = "completed" => menuOrder'[o].pay = "completed"
  BY <1>3, <1>4, <1>9 DEF ClaimCollect, Collectable
<1>7. /\ CheckoutAgrees(checkout'[o], menuOrder'[o], payer'[o])
      /\ ServedAgrees(checkout'[o], menuOrder'[o], payer'[o], served'[o], overwritten'[o])
      /\ menuOrder[o].known => menuOrder'[o].known
      /\ menuOrder[o].pay = "completed" => menuOrder'[o].pay = "completed"
  BY <1>8, <1>9
<1> HIDE DEF o
<1> QED
  BY ONLY <1>1, <1>2, <1>4, <1>5, <1>6, <1>7, MenuInv, MenuOrderMoves

\* Every step of menu orders keeps the invariant.
THEOREM MenuInvariant == MenuSpec => []MenuInv
<1>1. MenuInit => MenuInv
  BY MenuAssumption DEF MenuInit, MenuInv, MenuTypeOK, CheckoutAgrees, ServedAgrees,
         Payments, Kitchen, NoMenuJob
<1>2. MenuInv /\ [MenuNext]_menuVars => MenuInv'
  <2> SUFFICES ASSUME MenuInv, [MenuNext]_menuVars
               PROVE  MenuInv'
    OBVIOUS
  <2>1. ASSUME NEW o \in Orders, ChargeCard(o) PROVE MenuInv'
    BY <2>1, ChargeCardKeeps
  <2>2. ASSUME NEW o \in Orders, SaveCardOrder(o) PROVE MenuInv'
    BY <2>2, SaveCardOrderKeeps
  <2>3. ASSUME NEW o \in Orders, SaveMomoOrder(o) PROVE MenuInv'
    BY <2>3, SaveMomoOrderKeeps
  <2>4. ASSUME NEW o \in Orders, RequestPayment(o) PROVE MenuInv'
    BY <2>4, RequestPaymentKeeps
  <2>5. ASSUME NEW o \in Orders, SaveReference(o) PROVE MenuInv'
    BY <2>5, SaveReferenceKeeps
  <2>6. ASSUME NEW o \in Orders, FailCheckout(o) PROVE MenuInv'
    BY <2>6, FailCheckoutKeeps
  <2>7. ASSUME NEW o \in Orders, CheckoutDies(o) PROVE MenuInv'
    BY <2>7, CheckoutDiesKeeps
  <2>8. ASSUME NEW o \in Orders, PayerAnswers(o) PROVE MenuInv'
    BY <2>8, PayerAnswersKeeps
  <2>9. ASSUME NEW d \in MenuDesks, NEW o \in Orders, LoadPending(d, o)
        PROVE  MenuInv'
    BY <2>9, LoadPendingKeeps
  <2>10. ASSUME NEW d \in MenuDesks, NEW o \in Orders, LoadForScanner(d, o)
         PROVE  MenuInv'
    BY <2>10, LoadForScannerKeeps
  <2>11. ASSUME NEW d \in MenuDesks, NEW o \in Orders, NEW to \in Kitchen,
                LoadForKitchen(d, o, to)
         PROVE  MenuInv'
    BY <2>11, LoadForKitchenKeeps
  <2>12. ASSUME NEW d \in MenuDesks, AskProvider(d) PROVE MenuInv'
    BY <2>12, AskProviderKeeps
  <2>13. ASSUME NEW d \in MenuDesks, ClaimPaid(d) PROVE MenuInv'
    BY <2>13, ClaimPaidKeeps
  <2>14. ASSUME NEW d \in MenuDesks, SaveDeclined(d) PROVE MenuInv'
    BY <2>14, SaveDeclinedKeeps
  <2>15. ASSUME NEW d \in MenuDesks, SaveKitchen(d) PROVE MenuInv'
    BY <2>15, SaveKitchenKeeps
  <2>16. ASSUME NEW d \in MenuDesks, ClaimCollect(d) PROVE MenuInv'
    BY <2>16, ClaimCollectKeeps
  <2>17. ASSUME NEW d \in MenuDesks, MenuRequestFails(d) PROVE MenuInv'
    BY <2>17, MenuRequestFailsKeeps
  <2>18. CASE UNCHANGED menuVars
    BY <2>18 DEF menuVars, MenuInv, MenuTypeOK
  <2> QED
    BY <2>1, <2>2, <2>3, <2>4, <2>5, <2>6, <2>7, <2>8, <2>9,
       <2>10, <2>11, <2>12, <2>13, <2>14, <2>15, <2>16, <2>17, <2>18 DEF MenuNext
<1> QED
  BY <1>1, <1>2, PTL DEF MenuSpec

\* However polls, callbacks, kitchen screens and scanners overlap, an order is handed
\* out once, and once more at most for every kitchen save over a state that had
\* moved on (collectOrder, updateOrderFulfillment).
THEOREM OrdersHandedOutOnce == MenuSpec => []HandedOutOnce
<1>1. MenuInv => HandedOutOnce
  BY DEF MenuInv, HandedOutOnce, ServedAgrees
<1> QED
  BY <1>1, MenuInvariant, PTL

\* Whatever overlaps, nothing is handed out but for exactly its price, and no
\* finalizer fails an order that was paid for (finalizeMomoOrder).
THEOREM OrdersPaidInFull == MenuSpec => []PaidInFull
<1>1. MenuInv => PaidInFull
  BY DEF MenuInv, PaidInFull, ServedAgrees
<1> QED
  BY <1>1, MenuInvariant, PTL

-----------------------------------------------------------------------------
(* The till.                                                               *)

SellerJobs ==
    [op : {"sell", "batch"}, at : SellerStages,
     sale : BoxSales, tickets : SUBSET BoxTickets, seen : Int]
TxnJobs ==
    [op : {"refund", "checkin"}, at : {"save", "commit"}, t : BoxTickets,
     sold : Int, refunded : Nat]
BoxTicketRow ==
    [sale : BoxSales \cup {NoBoxSale},
     status : {"none", "sold", "checked_in", "refunded"}]
BoxJobs == {AtRest} \cup SellerJobs \cup TxnJobs

\* What a transaction read is still there: a commit that changes it aborts it.
TxnFresh(j) ==
    /\ ticket[j.t].status = "sold"
    /\ j.op = "refund" =>
          /\ ticket[j.t].sale \in BoxSales
          /\ j.sold = tierSold
          /\ j.refunded = boxSale[ticket[j.t].sale].refunded

\* The tickets of a sale are new until it commits; those of a batch are nobody's
\* until they are linked to its sale.
SellerRows(j) ==
    /\ j.op = "sell" => /\ j.at \in {"charge", "read", "save", "commit"}
                        /\ \A t \in j.tickets : ticket[t].status = "none"
    /\ j.op = "batch" => j.at \in {"mint", "row", "link", "read", "save"}
    /\ j.op = "batch" /\ j.at \in {"mint", "row", "link"} =>
          \A t \in j.tickets :
             ticket[t].sale = NoBoxSale /\ ticket[t].status # "refunded"
    /\ j.at = "mint" => Unminted(j) # {}
    /\ j.at \in {"row", "link"} => Unminted(j) = {}

\* Tickets the counter may not know: of dead batches, of sales made beside another,
\* and of the sales in flight.  Those it does know of, less the refunds.
Doubtful == lost \cup crowd
    \cup UNION { counterJob[k].tickets : k \in { x \in BoxDesks : IsSeller(counterJob[x]) } }
Sure == { t \in BoxTickets : ticket[t].status # "none" } \ Doubtful
GivenBack == { t \in BoxTickets : ticket[t].status = "refunded" }
Net == Cardinality(Sure) - Cardinality(GivenBack)

\* What a seller in flight will add to the tickets the counter knows of.
Brings(j) == j.tickets \ (lost \cup crowd)

\* A seller that is alone has places for what it adds, and what it is about to save,
\* or saved, counts what was there.
SellerFits(j) ==
    /\ j.at = "save" => Net <= j.seen
    /\ j.at = "commit" => Net + Cardinality(Brings(j)) <= tierSold
    /\ Net + Cardinality(Brings(j)) <= TierQuantity

RefundedOf(s) ==
    { t \in BoxTickets : ticket[t] = [sale |-> s, status |-> "refunded"] }

BoxInv ==
    /\ BoxTypeOK
    /\ \A k \in BoxDesks : counterJob[k].op \in {"refund", "checkin"} =>
          TxnFresh(counterJob[k])
    /\ \A k \in BoxDesks : IsSeller(counterJob[k]) =>
          SellerRows(counterJob[k]) /\ SellerFits(counterJob[k])
    /\ \A k, x \in BoxDesks : k # x /\ IsSeller(counterJob[k]) /\ IsSeller(counterJob[x]) =>
          /\ counterJob[k].tickets \cap counterJob[x].tickets = {}
          /\ counterJob[k].tickets \subseteq crowd
    /\ Net <= tierSold /\ Net <= TierQuantity
    /\ \A t \in BoxTickets : ticket[t].status = "none" => ticket[t].sale = NoBoxSale
    /\ \A t \in lost : ticket[t].status # "none"
    /\ \A t \in entered : ticket[t].status = "checked_in"
    /\ \A s \in BoxSales : boxSale[s].refunded = Cardinality(RefundedOf(s))

LEMMA BoxTypes ==
    ASSUME BoxInv
    PROVE  /\ ticket \in [BoxTickets -> BoxTicketRow]
           /\ boxSale \in [BoxSales -> [quantity : Nat, refunded : Nat]]
           /\ tierSold \in Int /\ lost \subseteq BoxTickets
           /\ entered \subseteq BoxTickets /\ crowd \subseteq BoxTickets
           /\ counterJob \in [BoxDesks -> BoxJobs]
           /\ TierQuantity \in Nat /\ NoBoxSale \notin BoxSales
           /\ IsFiniteSet(BoxTickets)
BY BoxAssumption
   DEF BoxInv, BoxTypeOK, BoxTicketRow, BoxJobs, SellerJobs, TxnJobs

LEMMA BoxTypesHold ==
    ASSUME ticket' \in [BoxTickets -> BoxTicketRow],
           boxSale' \in [BoxSales -> [quantity : Nat, refunded : Nat]],
           tierSold' \in Int, lost' \subseteq BoxTickets, crowd' \subseteq BoxTickets,
           entered' \subseteq BoxTickets, counterJob' \in [BoxDesks -> BoxJobs]
    PROVE  BoxTypeOK'
BY DEF BoxTypeOK, BoxTicketRow, BoxJobs, SellerJobs, TxnJobs

\* Sets of tickets can be counted.
LEMMA TicketSets ==
    ASSUME NEW S \in SUBSET BoxTickets
    PROVE  IsFiniteSet(S) /\ Cardinality(S) \in Nat
BY BoxAssumption, FS_Subset, FS_CardinalityType

LEMMA TicketSetsAdd ==
    ASSUME NEW S \in SUBSET BoxTickets, NEW T \in SUBSET BoxTickets
    PROVE  /\ Cardinality(S \cup T) <= Cardinality(S) + Cardinality(T)
           /\ S \cap T = {} => Cardinality(S \cup T) = Cardinality(S) + Cardinality(T)
           /\ S \subseteq T => Cardinality(S) <= Cardinality(T)
<1>1. Cardinality(S \cup T)
         = Cardinality(S) + Cardinality(T) - Cardinality(S \cap T)
  BY TicketSets, FS_Union
<1>2. Cardinality(S) \in Nat /\ Cardinality(T) \in Nat /\ Cardinality(S \cap T) \in Nat
  BY TicketSets
<1>3. S \cap T = {} => Cardinality(S \cap T) = 0
  BY FS_EmptySet
<1>4. S \subseteq T => Cardinality(S) <= Cardinality(T)
  BY TicketSets, FS_Subset
<1> QED
  BY <1>1, <1>2, <1>3, <1>4

\* The tally is a number, before and after.
LEMMA NetTyped ==
    /\ Net \in Int /\ Cardinality(Sure) \in Nat /\ Cardinality(GivenBack) \in Nat
    /\ Net' \in Int /\ Cardinality(Sure') \in Nat /\ Cardinality(GivenBack') \in Nat
<1>1. /\ Sure \in SUBSET BoxTickets /\ GivenBack \in SUBSET BoxTickets
      /\ Sure' \in SUBSET BoxTickets /\ GivenBack' \in SUBSET BoxTickets
  BY DEF Sure, GivenBack
<1>2. /\ Cardinality(Sure) \in Nat /\ Cardinality(GivenBack) \in Nat
      /\ Cardinality(Sure') \in Nat /\ Cardinality(GivenBack') \in Nat
  BY <1>1, TicketSets
<1> QED
  BY <1>2 DEF Net

LEMMA SellerJobTyped ==
    ASSUME BoxInv, NEW k \in BoxDesks, IsSeller(counterJob[k])
    PROVE  /\ counterJob[k] \in SellerJobs
           /\ counterJob[k].tickets \in SUBSET BoxTickets
           /\ counterJob[k].op \in {"sell", "batch"}
           /\ counterJob[k].at \in SellerStages
           /\ counterJob[k].sale \in BoxSales /\ counterJob[k].seen \in Int
           /\ Cardinality(counterJob[k].tickets) \in Nat
           /\ SellerRows(counterJob[k]) /\ SellerFits(counterJob[k])
           /\ Brings(counterJob[k]) \in SUBSET BoxTickets
           /\ Cardinality(Brings(counterJob[k])) \in Nat
           /\ Cardinality(Brings(counterJob[k])) <= Cardinality(counterJob[k].tickets)
<1>1. counterJob[k] \in BoxJobs
  BY BoxTypes
<1>2. counterJob[k] \in SellerJobs
  BY <1>1 DEF BoxJobs, TxnJobs, AtRest, IsSeller
<1>3. counterJob[k].tickets \in SUBSET BoxTickets
      /\ Brings(counterJob[k]) \subseteq counterJob[k].tickets
  BY <1>2 DEF SellerJobs, Brings
<1>4. /\ Cardinality(counterJob[k].tickets) \in Nat
      /\ Cardinality(Brings(counterJob[k])) \in Nat
      /\ Cardinality(Brings(counterJob[k])) <= Cardinality(counterJob[k].tickets)
  BY <1>3, TicketSets, TicketSetsAdd
<1> QED
  BY <1>2, <1>3, <1>4 DEF SellerJobs, BoxInv

LEMMA TxnJobTyped ==
    ASSUME BoxInv, NEW k \in BoxDesks, counterJob[k].op \in {"refund", "checkin"}
    PROVE  /\ counterJob[k] \in TxnJobs /\ counterJob[k].t \in BoxTickets
           /\ counterJob[k].sold \in Int /\ counterJob[k].refunded \in Nat
           /\ TxnFresh(counterJob[k])
<1>1. counterJob[k] \in BoxJobs
  BY BoxTypes
<1>2. counterJob[k] \in TxnJobs
  BY <1>1 DEF BoxJobs, SellerJobs, AtRest
<1> QED
  BY <1>2 DEF TxnJobs, BoxInv

\* A seller's job at another stage.
LEMMA SellerGoes ==
    ASSUME NEW j \in SellerJobs, NEW at \in SellerStages
    PROVE  /\ [j EXCEPT !.at = at] \in SellerJobs
           /\ [j EXCEPT !.at = at].at = at
           /\ [j EXCEPT !.at = at].op = j.op
           /\ [j EXCEPT !.at = at].sale = j.sale
           /\ [j EXCEPT !.at = at].tickets = j.tickets
           /\ [j EXCEPT !.at = at].seen = j.seen
BY DEF SellerJobs

\* What makes a ticket doubtful.
LEMMA DoubtfulIs ==
    ASSUME NEW t
    PROVE  /\ t \in Doubtful <=>
                 \/ t \in lost \/ t \in crowd
                 \/ \E k \in BoxDesks : IsSeller(counterJob[k]) /\ t \in counterJob[k].tickets
           /\ t \in Doubtful' <=>
                 \/ t \in lost' \/ t \in crowd'
                 \/ \E k \in BoxDesks : IsSeller(counterJob'[k]) /\ t \in counterJob'[k].tickets
BY DEF Doubtful, IsSeller

\* A seller in flight whose tickets stand as they stood keeps what it knows of them.
LEMMA RowsStay ==
    ASSUME NEW j \in SellerJobs, SellerRows(j),
           \A t \in j.tickets :
              /\ ticket'[t].status = "none" <=> ticket[t].status = "none"
              /\ ticket'[t].sale = ticket[t].sale
              /\ ticket[t].sale = NoBoxSale /\ ticket[t].status # "refunded" =>
                    ticket'[t].status # "refunded"
    PROVE  SellerRows(j)'
<1>1. Unminted(j)' = Unminted(j)
  BY DEF Unminted
<1> QED
  BY <1>1 DEF SellerRows

\* The handler at desk k goes on to job i.  The other sellers keep their jobs and
\* their tickets; transactions are as fresh as they were, or aborted; and the tally
\* stays within the counter, the places and what the others have still to write.
LEMMA BoxMoves ==
    ASSUME BoxInv, BoxTypeOK', NEW k \in BoxDesks, NEW i \in BoxJobs,
           counterJob'[k] = i,
           \A x \in BoxDesks \ {k} :
              \/ counterJob'[x] = AtRest /\ ~IsSeller(counterJob[x])
              \/ counterJob'[x] = counterJob[x],
           \A x \in BoxDesks \ {k}, m \in BoxJobs :
              counterJob[x] = m /\ counterJob'[x] = m /\ m.op \in {"refund", "checkin"} =>
                 TxnFresh(m)',
           \A x \in BoxDesks \ {k} : IsSeller(counterJob[x]) =>
              \A t \in counterJob[x].tickets :
                 /\ ticket'[t].status = "none" <=> ticket[t].status = "none"
                 /\ ticket'[t].sale = ticket[t].sale
                 /\ ticket[t].sale = NoBoxSale /\ ticket[t].status # "refunded" =>
                       ticket'[t].status # "refunded",
           lost \subseteq lost', crowd \subseteq crowd',
           Net' <= tierSold', Net' <= TierQuantity,
           \A x \in BoxDesks \ {k} : IsSeller(counterJob[x]) =>
              /\ Net' <= Net
              /\ ~IsSeller(counterJob[k]) => Net' + tierSold <= Net + tierSold',
           i.op \in {"refund", "checkin"} => TxnFresh(i)',
           IsSeller(i) =>
              /\ SellerRows(i)' /\ SellerFits(i)'
              /\ \A x \in BoxDesks \ {k} : IsSeller(counterJob[x]) =>
                    /\ i.tickets \cap counterJob[x].tickets = {}
                    /\ i.tickets \subseteq crowd'
                    /\ counterJob[x].tickets \subseteq crowd',
           \A t \in BoxTickets : ticket'[t].status = "none" => ticket'[t].sale = NoBoxSale,
           \A t \in lost' : ticket'[t].status # "none",
           \A t \in entered' : ticket'[t].status = "checked_in",
           \A s \in BoxSales : boxSale'[s].refunded = Cardinality(RefundedOf(s)')
    PROVE  BoxInv'
<1>1. /\ tierSold \in Int /\ tierSold' \in Int /\ TierQuantity \in Nat
      /\ Net \in Int /\ Net' \in Int
  BY BoxTypes, BoxAssumption, NetTyped DEF BoxTypeOK
<1>2. ~IsSeller(AtRest) /\ AtRest.op \notin {"refund", "checkin"}
  BY DEF IsSeller, AtRest
<1>3. \A x \in BoxDesks \ {k} : IsSeller(counterJob'[x]) =>
         counterJob'[x] = counterJob[x] /\ IsSeller(counterJob[x])
  BY <1>2
<1>4. \A x \in BoxDesks, m \in BoxJobs :
         counterJob'[x] = m /\ m.op \in {"refund", "checkin"} => TxnFresh(m)'
  BY <1>2
<1>5. \A x \in BoxDesks : (counterJob[x].op)' \in {"refund", "checkin"} =>
         TxnFresh(counterJob[x])'
  <2>1. \A x \in BoxDesks : counterJob'[x] \in BoxJobs
    BY DEF BoxTypeOK, BoxJobs, SellerJobs, TxnJobs
  <2> QED
    BY <1>4, <2>1 DEF TxnFresh
<1>6. ASSUME NEW x \in BoxDesks \ {k}, NEW m \in BoxJobs, counterJob[x] = m, IsSeller(m)
      PROVE  SellerRows(m)' /\ SellerFits(m)'
  <2>1. /\ m \in SellerJobs /\ SellerRows(m) /\ SellerFits(m)
        /\ m.tickets \in SUBSET BoxTickets /\ m.seen \in Int
    BY <1>6, SellerJobTyped
  <2>2. SellerRows(m)'
    BY <1>6, <2>1, RowsStay
  <2>3. /\ Brings(m) \in SUBSET BoxTickets /\ Brings(m)' \in SUBSET BoxTickets
        /\ Brings(m)' \subseteq Brings(m)
    BY <2>1 DEF Brings
  <2>4. /\ Cardinality(Brings(m)) \in Nat /\ Cardinality(Brings(m)') \in Nat
        /\ Cardinality(Brings(m)') <= Cardinality(Brings(m))
    BY <2>3, TicketSets, TicketSetsAdd
  <2>5. Net' <= Net
    BY <1>6
  <2>6. m.at = "commit" => Net' + Cardinality(Brings(m)') <= tierSold'
    <3>1. CASE IsSeller(counterJob[k])
      <4>1. m.tickets \subseteq crowd
        BY <1>6, <3>1 DEF BoxInv
      <4>2. Brings(m)' = {}
        BY <4>1 DEF Brings
      <4>3. Cardinality(Brings(m)') = 0
        BY <4>2, FS_EmptySet
      <4> QED
        BY <1>1, <4>3
    <3>2. CASE ~IsSeller(counterJob[k])
      <4>1. Net' + tierSold <= Net + tierSold'
        BY <1>6, <3>2
      <4>2. m.at = "commit" => Net + Cardinality(Brings(m)) <= tierSold
        BY <2>1 DEF SellerFits
      <4> SUFFICES ASSUME m.at = "commit"
                   PROVE  Net' + Cardinality(Brings(m)') <= tierSold'
        OBVIOUS
      <4>3. Net + Cardinality(Brings(m)) <= tierSold
        BY <4>2
      <4>4. PICK c \in Int, d \in Int, e \in Int, f \in Int, n \in Int, o \in Int :
               /\ c = Cardinality(Brings(m)) /\ d = Cardinality(Brings(m)')
               /\ e = tierSold /\ f = tierSold' /\ n = Net /\ o = Net'
        BY <1>1, <2>4
      <4>5. d <= c /\ o + e <= n + f /\ n + c <= e
        BY <2>4, <4>1, <4>3, <4>4
      <4>6. o + d <= f
        BY ONLY <4>5
      <4> QED
        BY <4>4, <4>6
    <3> QED
      BY <3>1, <3>2
  <2>7. m.at = "save" => Net' <= m.seen
    BY <1>1, <2>1, <2>5 DEF SellerFits
  <2>8. Net' + Cardinality(Brings(m)') <= TierQuantity
    BY <1>1, <2>1, <2>4, <2>5 DEF SellerFits
  <2> QED
    BY <2>2, <2>6, <2>7, <2>8 DEF SellerFits
<1>7. \A x \in BoxDesks, m \in BoxJobs :
         counterJob'[x] = m /\ IsSeller(m) => SellerRows(m)' /\ SellerFits(m)'
  BY <1>3, <1>6
<1>8. \A x \in BoxDesks : IsSeller(counterJob[x])' =>
         SellerRows(counterJob[x])' /\ SellerFits(counterJob[x])'
  <2>1. \A x \in BoxDesks : counterJob'[x] \in BoxJobs
    BY DEF BoxTypeOK, BoxJobs, SellerJobs, TxnJobs
  <2> QED
    BY <1>7, <2>1 DEF SellerRows, SellerFits, IsSeller, Brings, Unminted
<1>9. ASSUME NEW x \in BoxDesks, NEW y \in BoxDesks, x # y,
             IsSeller(counterJob'[x]), IsSeller(counterJob'[y])
      PROVE  /\ counterJob'[x].tickets \cap counterJob'[y].tickets = {}
             /\ counterJob'[x].tickets \subseteq crowd'
  <2>1. CASE x = k
    BY <1>3, <1>9, <2>1
  <2>2. CASE y = k
    BY <1>3, <1>9, <2>2
  <2>3. CASE x # k /\ y # k
    BY <1>3, <1>9, <2>3 DEF BoxInv
  <2> QED
    BY <2>1, <2>2, <2>3
<1>10. \A x, y \in BoxDesks : x # y /\ IsSeller(counterJob[x])' /\ IsSeller(counterJob[y])' =>
          /\ counterJob'[x].tickets \cap counterJob'[y].tickets = {}
          /\ counterJob'[x].tickets \subseteq crowd'
  BY <1>9 DEF IsSeller
<1> QED
  BY <1>5, <1>8, <1>10 DEF BoxInv

\* The tally stands where the same tickets are sure and given back.
LEMMA NetStays ==
    ASSUME Sure' = Sure, GivenBack' = GivenBack
    PROVE  Net' = Net
BY DEF Net

\* A write aborts transactions only, and those that go on have not read it.
LEMMA AbortedDesks ==
    ASSUME BoxInv, NEW k \in BoxDesks, NEW i \in BoxJobs, NEW docs,
           counterJob' = [AbortReaders(docs) EXCEPT ![k] = i]
    PROVE  /\ counterJob' \in [BoxDesks -> BoxJobs] /\ counterJob'[k] = i
           /\ \A x \in BoxDesks \ {k} :
                 \/ counterJob'[x] = AtRest /\ ~IsSeller(counterJob[x])
                 \/ /\ counterJob'[x] = counterJob[x]
                    /\ DocsOf(counterJob[x]) \cap docs = {}
<1>1. \A x \in BoxDesks : AbortReaders(docs)[x] =
         IF DocsOf(counterJob[x]) \cap docs # {} THEN AtRest ELSE counterJob[x]
  BY DEF AbortReaders
<1>2. counterJob \in [BoxDesks -> BoxJobs] /\ AtRest \in BoxJobs
  BY BoxTypes DEF BoxJobs
<1>3. AbortReaders(docs) \in [BoxDesks -> BoxJobs]
  BY <1>2 DEF AbortReaders
<1>4. \A x \in BoxDesks : IsSeller(counterJob[x]) => DocsOf(counterJob[x]) = {}
  BY DEF IsSeller, DocsOf
<1> QED
  BY <1>1, <1>2, <1>3, <1>4

\* What the tally is made of.
LEMMA TallyIs ==
    ASSUME NEW t \in BoxTickets
    PROVE  /\ t \in Sure <=> ticket[t].status # "none" /\ t \notin Doubtful
           /\ t \in Sure' <=> ticket'[t].status # "none" /\ t \notin Doubtful'
           /\ t \in GivenBack <=> ticket[t].status = "refunded"
           /\ t \in GivenBack' <=> ticket'[t].status = "refunded"
BY DEF Sure, GivenBack

\* The tally grows at most by the tickets that become sure.
LEMMA NetGrows ==
    ASSUME NEW A \in SUBSET BoxTickets, GivenBack' = GivenBack,
           \A t \in BoxTickets : t \in Sure' => t \in Sure \/ t \in A
    PROVE  Net' <= Net + Cardinality(A) /\ (A = {} => Net' <= Net)
<1>1. Sure \in SUBSET BoxTickets /\ Sure' \in SUBSET BoxTickets
  BY DEF Sure
<1>2. Sure' \subseteq Sure \cup A
  BY <1>1
<1>3. Cardinality(Sure') <= Cardinality(Sure \cup A)
  BY <1>1, <1>2, TicketSetsAdd
<1>4. Cardinality(Sure \cup A) <= Cardinality(Sure) + Cardinality(A)
  BY <1>1, TicketSetsAdd
<1>5. /\ Cardinality(A) \in Nat /\ Cardinality(Sure \cup A) \in Nat
      /\ A = {} => Cardinality(A) = 0
  BY <1>1, TicketSets, FS_EmptySet
<1>6. Cardinality(Sure') <= Cardinality(Sure) + Cardinality(A)
  BY <1>3, <1>4, <1>5, NetTyped
<1> QED
  BY <1>5, <1>6, NetTyped DEF Net

\* One handler goes on, and nothing else is written.
LEMMA BoxDeskMoves ==
    ASSUME BoxInv, NEW k \in BoxDesks, NEW i \in BoxJobs, Does(k, i),
           UNCHANGED <<ticket, boxSale, tierSold, lost, entered>>,
           crowd \subseteq crowd', crowd' \subseteq BoxTickets,
           Net' <= Net,
           i.op \in {"refund", "checkin"} => TxnFresh(i)',
           IsSeller(i) =>
              /\ SellerRows(i)' /\ SellerFits(i)'
              /\ \A x \in BoxDesks \ {k} : IsSeller(counterJob[x]) =>
                    /\ i.tickets \cap counterJob[x].tickets = {}
                    /\ i.tickets \subseteq crowd'
                    /\ counterJob[x].tickets \subseteq crowd'
    PROVE  BoxInv'
<1>1. /\ counterJob' \in [BoxDesks -> BoxJobs] /\ counterJob'[k] = i
      /\ \A x \in BoxDesks \ {k} : counterJob'[x] = counterJob[x]
  BY BoxTypes DEF Does
<1>2. BoxTypeOK'
  BY <1>1, BoxTypes, BoxTypesHold
<1>3. ASSUME NEW x \in BoxDesks \ {k}, NEW m \in BoxJobs, counterJob[x] = m,
             m.op \in {"refund", "checkin"}
      PROVE  TxnFresh(m)'
  <2>1. TxnFresh(m)
    BY <1>3 DEF BoxInv
  <2> QED
    BY <2>1 DEF TxnFresh
<1>4. /\ Net' <= tierSold' /\ Net' <= TierQuantity /\ Net' + tierSold <= Net + tierSold'
  <2>1. /\ Net \in Int /\ Net' \in Int /\ tierSold \in Int /\ TierQuantity \in Nat
        /\ Net <= tierSold /\ Net <= TierQuantity
    BY NetTyped, BoxTypes DEF BoxInv
  <2>2. tierSold' = tierSold /\ Net' <= Net
    OBVIOUS
  <2>3. PICK b \in Int : b = Net'
    BY <2>1
  <2>4. PICK d \in Int : d = tierSold'
    BY <2>1, <2>2
  <2>5. d = tierSold /\ b <= Net
    BY <2>2, <2>3, <2>4
  <2>6. b <= TierQuantity
    BY <2>1, <2>5
  <2>7. b <= d
    BY <2>1, <2>5
  <2>8. b + tierSold <= Net + d
    BY <2>1, <2>5
  <2> QED
    BY <2>3, <2>4, <2>6, <2>7, <2>8
<1>5. \A s \in BoxSales : boxSale'[s].refunded = Cardinality(RefundedOf(s)')
  BY DEF BoxInv, RefundedOf
<1>6. /\ \A t \in BoxTickets : ticket'[t].status = "none" => ticket'[t].sale = NoBoxSale
      /\ \A t \in lost' : ticket'[t].status # "none"
      /\ \A t \in entered' : ticket'[t].status = "checked_in"
  BY DEF BoxInv
<1>7. \A x \in BoxDesks \ {k}, m \in BoxJobs :
         counterJob[x] = m /\ counterJob'[x] = m /\ m.op \in {"refund", "checkin"} =>
            TxnFresh(m)'
  BY <1>3
<1> QED
  BY <1>1, <1>2, <1>4, <1>5, <1>6, <1>7, BoxMoves

\* A seller that goes on with its tickets leaves the tally.
LEMMA SellerKeepsNet ==
    ASSUME BoxInv, NEW k \in BoxDesks, NEW i \in BoxJobs, Does(k, i),
           IsSeller(counterJob[k]), IsSeller(i), i.tickets = counterJob[k].tickets,
           UNCHANGED <<ticket, lost, crowd>>
    PROVE  Net' = Net /\ Net' <= Net /\ Doubtful' = Doubtful
<1>1. /\ counterJob'[k] = i
      /\ \A x \in BoxDesks \ {k} : counterJob'[x] = counterJob[x]
  BY BoxTypes DEF Does
<1>2. ASSUME NEW t PROVE t \in Doubtful' <=> t \in Doubtful
  BY <1>1, DoubtfulIs
<1>3. Doubtful' = Doubtful
  BY <1>2 DEF Doubtful
<1>4. Sure' = Sure /\ GivenBack' = GivenBack
  BY <1>3 DEF Sure, GivenBack
<1> QED
  BY <1>3, <1>4, NetStays, NetTyped

\* A seller or a transaction of which nothing is left to count.
LEMMA LeavesNet ==
    ASSUME BoxInv, NEW k \in BoxDesks, NEW i \in BoxJobs, Does(k, i), ~IsSeller(i),
           IsSeller(counterJob[k]) =>
              \A t \in counterJob[k].tickets : ticket[t].status # "none" => t \in lost',
           lost \subseteq lost', UNCHANGED <<ticket, crowd>>
    PROVE  Net' <= Net
<1>1. /\ counterJob'[k] = i
      /\ \A x \in BoxDesks \ {k} : counterJob'[x] = counterJob[x]
  BY BoxTypes DEF Does
<1>2. ASSUME NEW t \in BoxTickets, t \in Sure' PROVE t \in Sure
  <2>1. ticket[t].status # "none" /\ t \notin Doubtful'
    BY <1>2, TallyIs
  <2>2. t \notin lost' /\ t \notin crowd
        /\ \A x \in BoxDesks : IsSeller(counterJob'[x]) => t \notin counterJob'[x].tickets
    BY <2>1, DoubtfulIs
  <2>3. \A x \in BoxDesks : IsSeller(counterJob[x]) => t \notin counterJob[x].tickets
    BY <1>1, <2>1, <2>2
  <2>4. t \notin Doubtful
    BY <2>2, <2>3, DoubtfulIs
  <2> QED
    BY <2>1, <2>4, TallyIs
<1>3. GivenBack' = GivenBack
  BY DEF GivenBack
<1>4. {} \in SUBSET BoxTickets
  OBVIOUS
<1> QED
  BY <1>2, <1>3, <1>4, NetGrows

\* A seller claims places that are there, and tells whom it sells beside.
LEMMA StartSaleKeeps ==
    ASSUME BoxInv, NEW k \in BoxDesks, NEW op \in {"sell", "batch"},
           NEW s \in BoxSales, NEW ts \in (SUBSET BoxTickets) \ {{}}, StartSale(k, op, s, ts)
    PROVE  BoxInv'
<1>1. PICK i : i = [op |-> op, at |-> IF op = "sell" THEN "charge" ELSE "mint",
                    sale |-> s, tickets |-> ts, seen |-> 0]
  OBVIOUS
<1>2. /\ i \in SellerJobs /\ i \in BoxJobs /\ i.tickets = ts /\ i.op = op
      /\ i.at = (IF op = "sell" THEN "charge" ELSE "mint")
  BY <1>1 DEF SellerJobs, BoxJobs, SellerStages
<1>3. /\ counterJob[k] = AtRest /\ Does(k, i)
      /\ tierSold + Cardinality(ts) <= TierQuantity
      /\ UNCHANGED <<ticket, boxSale, tierSold, lost, entered>>
  BY <1>1 DEF StartSale
<1>4. ~IsSeller(counterJob[k]) /\ IsSeller(i) /\ i.op \notin {"refund", "checkin"}
  BY <1>2, <1>3 DEF IsSeller, AtRest
<1>5. /\ \A t \in ts : ticket[t].status = "none"
      /\ \A x \in BoxDesks : IsSeller(counterJob[x]) => ts \cap counterJob[x].tickets = {}
  <2>1. \A t \in ts : ticket[t].status = "none" /\ t \notin Reserved
    BY DEF StartSale, NewIds
  <2> QED
    BY <2>1 DEF Reserved
<1>6. /\ crowd \subseteq crowd' /\ crowd' \subseteq BoxTickets
      /\ \A x \in BoxDesks : IsSeller(counterJob[x]) =>
            ts \subseteq crowd' /\ counterJob[x].tickets \subseteq crowd'
  <2> DEFINE others == { x \in BoxDesks : IsSeller(counterJob[x]) }
  <2>1. crowd' = IF others = {} THEN crowd
                 ELSE crowd \cup ts \cup UNION { counterJob[x].tickets : x \in others }
    BY DEF StartSale, Crowd
  <2>2. \A x \in others : counterJob[x].tickets \in SUBSET BoxTickets
    BY SellerJobTyped
  <2>3. crowd \subseteq BoxTickets
    BY BoxTypes
  <2> QED
    BY <2>1, <2>2, <2>3
<1>7. Net' <= Net
  <2>1. /\ counterJob'[k] = i
        /\ \A x \in BoxDesks \ {k} : counterJob'[x] = counterJob[x]
    BY <1>3, BoxTypes DEF Does
  <2>2. ASSUME NEW t \in BoxTickets, t \in Doubtful PROVE t \in Doubtful'
    BY <1>3, <1>4, <1>6, <2>1, <2>2, DoubtfulIs
  <2>3. \A t \in BoxTickets : t \in Sure' => t \in Sure
    BY <1>3, <2>2, TallyIs
  <2>4. GivenBack' = GivenBack /\ {} \in SUBSET BoxTickets
    BY <1>3 DEF GivenBack
  <2> QED
    BY <2>3, <2>4, NetGrows
<1>8. SellerRows(i)'
  <2>1. Unminted(i)' = ts
    BY <1>2, <1>3, <1>5 DEF Unminted
  <2>2. \A t \in ts : ticket[t].sale = NoBoxSale
    BY <1>5 DEF BoxInv
  <2> QED
    BY <1>2, <1>3, <1>5, <2>1, <2>2 DEF SellerRows
<1>9. SellerFits(i)'
  <2>1. /\ Net \in Int /\ Net' \in Int /\ tierSold \in Int /\ TierQuantity \in Nat
        /\ Net <= tierSold
    BY NetTyped, BoxTypes DEF BoxInv
  <2>2. Brings(i)' \in SUBSET BoxTickets /\ Brings(i)' \subseteq ts
    BY <1>2 DEF Brings
  <2>3. Cardinality(Brings(i)') <= Cardinality(ts)
        /\ Cardinality(Brings(i)') \in Nat /\ Cardinality(ts) \in Nat
    BY <2>2, TicketSets, TicketSetsAdd
  <2>4. Net' + Cardinality(Brings(i)') <= TierQuantity
    BY <1>3, <1>7, <2>1, <2>3
  <2> QED
    BY <1>2, <2>4 DEF SellerFits
<1> QED
  BY <1>2, <1>3, <1>4, <1>5, <1>6, <1>7, <1>8, <1>9, BoxDeskMoves

\* Sellers in flight hold different tickets, and know of each other.
LEMMA SellersApart ==
    ASSUME BoxInv, NEW k \in BoxDesks, IsSeller(counterJob[k]),
           NEW x \in BoxDesks \ {k}, IsSeller(counterJob[x])
    PROVE  /\ counterJob[k].tickets \cap counterJob[x].tickets = {}
           /\ counterJob[k].tickets \subseteq crowd
           /\ counterJob[x].tickets \subseteq crowd
BY DEF BoxInv

\* A seller that is not alone adds nothing the counter should know of.
LEMMA AddsNothing ==
    ASSUME BoxInv, NEW k \in BoxDesks, IsSeller(counterJob[k]),
           NEW x \in BoxDesks \ {k}, IsSeller(counterJob[x])
    PROVE  Brings(counterJob[k]) = {}
BY SellersApart DEF Brings

\* A seller goes on with its tickets, and nothing else is written.
LEMMA SellerGoesOn ==
    ASSUME BoxInv, NEW k \in BoxDesks, NEW i \in SellerJobs, Does(k, i),
           IsSeller(counterJob[k]), IsSeller(i), i.tickets = counterJob[k].tickets,
           UNCHANGED <<ticket, boxSale, tierSold, lost, crowd, entered>>,
           SellerRows(i), i.at = "save" => Net <= i.seen, i.at # "commit"
    PROVE  BoxInv'
<1>1. Net' = Net /\ Net' <= Net
  BY SellerKeepsNet DEF BoxJobs
<1>2. SellerRows(i)'
  BY DEF SellerRows, Unminted
<1>3. Brings(i)' = Brings(counterJob[k])
  BY DEF Brings
<1>4. SellerFits(counterJob[k])
  BY SellerJobTyped
<1>5. SellerFits(i)'
  BY <1>1, <1>3, <1>4 DEF SellerFits
<1>6. \A x \in BoxDesks \ {k} : IsSeller(counterJob[x]) =>
         /\ i.tickets \cap counterJob[x].tickets = {}
         /\ i.tickets \subseteq crowd'
         /\ counterJob[x].tickets \subseteq crowd'
  BY SellersApart
<1>7. /\ crowd \subseteq crowd' /\ crowd' \subseteq BoxTickets
      /\ i \in BoxJobs /\ i.op \notin {"refund", "checkin"}
  BY BoxTypes DEF BoxJobs, IsSeller
<1> QED
  BY <1>1, <1>2, <1>5, <1>6, <1>7, BoxDeskMoves

\* A handler leaves, and nothing is written.
LEMMA DeskRests ==
    ASSUME BoxInv, NEW k \in BoxDesks, Does(k, AtRest),
           IsSeller(counterJob[k]) =>
              \A t \in counterJob[k].tickets : ticket[t].status = "none",
           UNCHANGED <<ticket, boxSale, tierSold, lost, crowd, entered>>
    PROVE  BoxInv'
<1>1. ~IsSeller(AtRest) /\ AtRest \in BoxJobs /\ AtRest.op \notin {"refund", "checkin"}
  BY DEF IsSeller, AtRest, BoxJobs
<1>2. Net' <= Net
  BY <1>1, LeavesNet
<1>3. crowd \subseteq crowd' /\ crowd' \subseteq BoxTickets
  BY BoxTypes
<1> QED
  BY <1>1, <1>2, <1>3, BoxDeskMoves

\* A buyer pays or does not.
LEMMA ChargeBuyerKeeps ==
    ASSUME BoxInv, NEW k \in BoxDesks, ChargeBuyer(k)
    PROVE  BoxInv'
<1>1. IsSeller(counterJob[k]) /\ counterJob[k].at = "charge"
  BY DEF ChargeBuyer, SellerAt
<1>2. PICK j \in SellerJobs : j = counterJob[k]
  BY <1>1, SellerJobTyped
<1>3. PICK i : i = [j EXCEPT !.at = "read"]
  OBVIOUS
<1>4. i \in SellerJobs /\ i.at = "read" /\ i.op = j.op /\ i.tickets = j.tickets
  BY <1>3, SellerGoes DEF SellerStages
<1>5. SellerRows(j) /\ j.op = "sell"
  BY <1>1, <1>2, SellerJobTyped DEF SellerRows
<1>6. \A t \in j.tickets : ticket[t].status = "none"
  BY <1>5 DEF SellerRows
<1>7. SellerRows(i) /\ IsSeller(i)
  BY <1>4, <1>5, <1>6 DEF SellerRows, IsSeller
<1>8. CASE Does(k, i)
  BY <1>1, <1>2, <1>4, <1>7, <1>8, SellerGoesOn DEF ChargeBuyer
<1>9. CASE Does(k, AtRest)
  BY <1>2, <1>6, <1>9, DeskRests DEF ChargeBuyer
<1> QED
  BY <1>2, <1>3, <1>8, <1>9 DEF ChargeBuyer, GoTo

\* A handler takes note of the counter.
LEMMA ReadTierKeeps ==
    ASSUME BoxInv, NEW k \in BoxDesks, ReadTier(k)
    PROVE  BoxInv'
<1>1. IsSeller(counterJob[k]) /\ counterJob[k].at = "read"
  BY DEF ReadTier, SellerAt
<1>2. PICK j \in SellerJobs : j = counterJob[k]
  BY <1>1, SellerJobTyped
<1>3. PICK i : i = [j EXCEPT !.at = "save", !.seen = tierSold]
  OBVIOUS
<1>4. tierSold \in Int /\ Net <= tierSold
  BY BoxTypes DEF BoxInv
<1>5. /\ i \in SellerJobs /\ i.at = "save" /\ i.op = j.op
      /\ i.tickets = j.tickets /\ i.seen = tierSold
  BY <1>3, <1>4 DEF SellerJobs, SellerStages
<1>6. SellerRows(j) /\ j.at = "read" /\ IsSeller(j)
  BY <1>1, <1>2, SellerJobTyped
<1>7. SellerRows(i) /\ IsSeller(i)
  BY <1>5, <1>6 DEF SellerRows, IsSeller
<1> QED
  BY <1>1, <1>2, <1>3, <1>4, <1>5, <1>7, SellerGoesOn DEF ReadTier

\* The sale of a batch gets its row.
LEMMA SaveRowKeeps ==
    ASSUME BoxInv, NEW k \in BoxDesks, SaveRow(k)
    PROVE  BoxInv'
<1>1. IsSeller(counterJob[k]) /\ counterJob[k].at = "row"
  BY DEF SaveRow, SellerAt
<1>2. PICK j \in SellerJobs : j = counterJob[k]
  BY <1>1, SellerJobTyped
<1>3. PICK i : i = [j EXCEPT !.at = "link"]
  OBVIOUS
<1>4. i \in SellerJobs /\ i.at = "link" /\ i.op = j.op /\ i.tickets = j.tickets
  BY <1>3, SellerGoes DEF SellerStages
<1>5. /\ SellerRows(j) /\ j.at = "row" /\ IsSeller(j) /\ j.sale \in BoxSales
      /\ Cardinality(j.tickets) \in Nat /\ j.tickets \subseteq BoxTickets
  BY <1>1, <1>2, SellerJobTyped
<1>6. /\ Does(k, i) /\ UNCHANGED <<ticket, tierSold, lost, crowd, entered>>
      /\ boxSale' = [boxSale EXCEPT ![j.sale].quantity = Cardinality(j.tickets)]
  BY <1>2, <1>3 DEF SaveRow, GoTo
<1>7. /\ boxSale' \in [BoxSales -> [quantity : Nat, refunded : Nat]]
      /\ \A s \in BoxSales : boxSale'[s].refunded = boxSale[s].refunded
  BY <1>5, <1>6, BoxTypes
<1>8. /\ counterJob' \in [BoxDesks -> BoxJobs] /\ counterJob'[k] = i
      /\ \A x \in BoxDesks \ {k} : counterJob'[x] = counterJob[x]
      /\ i \in BoxJobs
  BY <1>4, <1>6, BoxTypes DEF Does, BoxJobs
<1>9. IsSeller(i) /\ i.op \notin {"refund", "checkin"}
  BY <1>4, <1>5 DEF IsSeller
<1>10. BoxTypeOK'
  BY <1>6, <1>7, <1>8, BoxTypes, BoxTypesHold
<1>11. Net' = Net /\ Net' <= Net
  BY <1>2, <1>4, <1>5, <1>6, <1>8, <1>9, SellerKeepsNet
<1>12. SellerRows(i)'
  BY <1>4, <1>5, <1>6 DEF SellerRows, Unminted, IsSeller
<1>13. Brings(i)' = Brings(j) /\ SellerFits(j)
  BY <1>1, <1>2, <1>4, <1>6, SellerJobTyped DEF Brings
<1>14. SellerFits(i)'
  BY <1>4, <1>11, <1>13 DEF SellerFits
<1>15. /\ \A x \in BoxDesks, m \in BoxJobs :
             counterJob[x] = m /\ m.op \in {"refund", "checkin"} => TxnFresh(m)
       /\ \A m \in BoxJobs : TxnFresh(m) => TxnFresh(m)'
  BY <1>6, <1>7 DEF BoxInv, TxnFresh
<1>16. \A s \in BoxSales : boxSale'[s].refunded = Cardinality(RefundedOf(s)')
  BY <1>6, <1>7 DEF BoxInv, RefundedOf
<1>17. Net' <= tierSold' /\ Net' <= TierQuantity /\ Net' + tierSold <= Net + tierSold'
  BY <1>6, <1>11, NetTyped, BoxTypes DEF BoxInv
<1>18. /\ \A t \in BoxTickets : ticket'[t].status = "none" => ticket'[t].sale = NoBoxSale
       /\ \A t \in lost' : ticket'[t].status # "none"
       /\ \A t \in entered' : ticket'[t].status = "checked_in"
  BY <1>6 DEF BoxInv
<1>19. \A x \in BoxDesks \ {k} : IsSeller(counterJob[x]) =>
         /\ i.tickets \cap counterJob[x].tickets = {}
         /\ i.tickets \subseteq crowd'
         /\ counterJob[x].tickets \subseteq crowd'
  BY <1>1, <1>2, <1>4, <1>6, SellersApart
<1>20. lost \subseteq lost' /\ crowd \subseteq crowd' /\ ticket' = ticket
  BY <1>6
<1> QED
  BY <1>8, <1>9, <1>10, <1>11, <1>12, <1>14, <1>15, <1>16, <1>17, <1>18, <1>19, <1>20,
     BoxMoves

\* A seller writes tickets of its own, and goes on: whoever works beside it sees
\* its tickets as they were, and so does the tally.
LEMMA SellerWrites ==
    ASSUME BoxInv, NEW k \in BoxDesks, NEW i \in SellerJobs, IsSeller(counterJob[k]),
           i.tickets = counterJob[k].tickets, IsSeller(i), i.at \notin {"save", "commit"},
           ticket' \in [BoxTickets -> BoxTicketRow],
           \A t \in BoxTickets \ i.tickets : ticket'[t] = ticket[t],
           \A t \in i.tickets :
              \/ /\ ticket[t].status # "refunded" /\ ticket'[t].status # "refunded"
                 /\ ticket'[t].status # "none"
              \/ ticket'[t] = ticket[t],
           UNCHANGED <<boxSale, tierSold, lost, crowd, entered>>,
           \A t \in entered : ticket'[t].status = "checked_in",
           counterJob' \in [BoxDesks -> BoxJobs], counterJob'[k] = i,
           \A x \in BoxDesks \ {k} :
              \/ counterJob'[x] = AtRest /\ ~IsSeller(counterJob[x])
              \/ counterJob'[x] = counterJob[x],
           \A x \in BoxDesks \ {k}, m \in TxnJobs :
              counterJob[x] = m /\ counterJob'[x] = m =>
                 /\ ticket'[m.t].status = ticket[m.t].status
                 /\ ticket'[m.t].sale = ticket[m.t].sale,
           SellerRows(i)'
    PROVE  BoxInv'
<1>1. i \in BoxJobs /\ i.op \notin {"refund", "checkin"} /\ i.tickets \subseteq BoxTickets
  BY DEF BoxJobs, IsSeller, SellerJobs
<1>2. BoxTypeOK'
  BY BoxTypes, BoxTypesHold
<1>3. ASSUME NEW t \in BoxTickets PROVE t \in Doubtful' <=> t \in Doubtful
  BY DoubtfulIs DEF IsSeller, AtRest
<1>4. ASSUME NEW t \in BoxTickets, t \in Sure' PROVE t \in Sure
  <2>1. ticket'[t].status # "none" /\ t \notin Doubtful
    BY <1>3, <1>4, TallyIs
  <2>2. t \notin i.tickets
    BY <2>1, DoubtfulIs
  <2> QED
    BY <2>1, <2>2, TallyIs
<1>5. GivenBack' = GivenBack
  <2>1. ASSUME NEW t \in BoxTickets PROVE t \in GivenBack' <=> t \in GivenBack
    BY TallyIs
  <2> QED
    BY <2>1 DEF GivenBack
<1>6. Net' <= Net
  BY <1>4, <1>5, NetGrows
<1>7. /\ Net \in Int /\ Net' \in Int /\ tierSold \in Int /\ TierQuantity \in Nat
      /\ Net <= tierSold /\ Net <= TierQuantity /\ tierSold' = tierSold
  BY NetTyped, BoxTypes DEF BoxInv
<1>8. Net' <= tierSold
  BY <1>6, <1>7
<1>9. Net' <= TierQuantity
  BY <1>6, <1>7
<1>10. SellerFits(i)'
  <2>1. Brings(i)' = Brings(counterJob[k])
    BY DEF Brings
  <2>2. Cardinality(Brings(counterJob[k])) \in Nat
        /\ Net + Cardinality(Brings(counterJob[k])) <= TierQuantity
    BY SellerJobTyped DEF SellerFits
  <2>3. Net' + Cardinality(Brings(counterJob[k])) <= TierQuantity
    BY <1>6, <1>7, <2>2
  <2> QED
    BY <2>1, <2>3 DEF SellerFits
<1>11. ASSUME NEW x \in BoxDesks \ {k}, NEW m \in BoxJobs, counterJob[x] = m,
              counterJob'[x] = m, m.op \in {"refund", "checkin"}
       PROVE  TxnFresh(m)'
  <2>1. m \in TxnJobs /\ TxnFresh(m)
    BY <1>11, TxnJobTyped
  <2>2. ticket'[m.t].status = ticket[m.t].status /\ ticket'[m.t].sale = ticket[m.t].sale
    BY <1>11, <2>1
  <2> QED
    BY <2>1, <2>2 DEF TxnFresh
<1>12. ASSUME NEW x \in BoxDesks \ {k}, IsSeller(counterJob[x]),
              NEW t \in counterJob[x].tickets
       PROVE  ticket'[t] = ticket[t]
  BY <1>12, SellersApart, SellerJobTyped
<1>13. ASSUME NEW s \in BoxSales
       PROVE  boxSale'[s].refunded = Cardinality(RefundedOf(s)')
  <2>1. \A t \in BoxTickets : ticket'[t].status = "refunded" \/ ticket[t].status = "refunded" =>
           ticket'[t] = ticket[t]
    OBVIOUS
  <2>2. RefundedOf(s)' = RefundedOf(s)
    BY <2>1, BoxTypes DEF RefundedOf, BoxTicketRow
  <2> QED
    BY <2>2 DEF BoxInv
<1>14. \A t \in BoxTickets : ticket'[t].status = "none" => ticket'[t].sale = NoBoxSale
  BY DEF BoxInv
<1>15. \A t \in lost' : ticket'[t].status # "none"
  BY BoxTypes DEF BoxInv
<1>16. \A x \in BoxDesks \ {k} : IsSeller(counterJob[x]) =>
          /\ i.tickets \cap counterJob[x].tickets = {}
          /\ i.tickets \subseteq crowd'
          /\ counterJob[x].tickets \subseteq crowd'
  BY SellersApart
<1>17. /\ lost \subseteq lost' /\ crowd \subseteq crowd' /\ tierSold' = tierSold
       /\ \A t \in entered' : ticket'[t].status = "checked_in"
  OBVIOUS
<1>18. /\ BoxInv /\ counterJob'[k] = i
       /\ \A x \in BoxDesks \ {k} :
             \/ counterJob'[x] = AtRest /\ ~IsSeller(counterJob[x])
             \/ counterJob'[x] = counterJob[x]
  OBVIOUS
<1>19. \A x \in BoxDesks \ {k}, m \in BoxJobs :
          counterJob[x] = m /\ counterJob'[x] = m /\ m.op \in {"refund", "checkin"} =>
             TxnFresh(m)'
  BY <1>11
<1>20. \A x \in BoxDesks \ {k} : IsSeller(counterJob[x]) =>
          \A t \in counterJob[x].tickets :
             /\ ticket'[t].status = "none" <=> ticket[t].status = "none"
             /\ ticket'[t].sale = ticket[t].sale
             /\ ticket[t].sale = NoBoxSale /\ ticket[t].status # "refunded" =>
                   ticket'[t].status # "refunded"
  BY <1>12
<1>21. Net' <= tierSold' /\ IsSeller(counterJob[k]) /\ IsSeller(i) /\ SellerRows(i)'
  BY <1>8, <1>17
<1> QED
  BY ONLY <1>1, <1>2, <1>6, <1>9, <1>10, <1>13, <1>14, <1>15,
     <1>16, <1>17, <1>18, <1>19, <1>20, <1>21, BoxMoves

\* A batch writes its next ticket.
LEMMA MintOneKeeps ==
    ASSUME BoxInv, NEW k \in BoxDesks, MintOne(k)
    PROVE  BoxInv'
<1>1. IsSeller(counterJob[k]) /\ counterJob[k].at = "mint"
  BY DEF MintOne, SellerAt
<1>2. PICK j \in SellerJobs : j = counterJob[k]
  BY <1>1, SellerJobTyped
<1>3. /\ SellerRows(j) /\ j.at = "mint" /\ IsSeller(j) /\ j.tickets \subseteq BoxTickets
      /\ j.op = "batch" /\ Unminted(j) # {}
  BY <1>1, <1>2, SellerJobTyped DEF SellerRows
<1>4. PICK t \in Unminted(j) : t = CHOOSE x \in Unminted(j) : TRUE
  BY <1>3
<1>5. t \in j.tickets /\ t \in BoxTickets /\ ticket[t].status = "none"
      /\ ticket[t].sale = NoBoxSale
  BY <1>3, <1>4 DEF Unminted, BoxInv
<1>6. PICK i : i = IF Unminted(j) = {t} THEN [j EXCEPT !.at = "row"] ELSE j
  OBVIOUS
<1>7. /\ i \in SellerJobs /\ i.op = j.op /\ i.tickets = j.tickets
      /\ i.at = IF Unminted(j) = {t} THEN "row" ELSE "mint"
  <2>1. CASE Unminted(j) = {t}
    <3>1. i = [j EXCEPT !.at = "row"]
      BY <1>6, <2>1
    <3>2. i \in SellerJobs /\ i.op = j.op /\ i.tickets = j.tickets /\ i.at = "row"
      BY <3>1 DEF SellerJobs, SellerStages
    <3> QED
      BY <2>1, <3>2
  <2>2. CASE Unminted(j) # {t}
    BY <1>3, <1>6, <2>2
  <2> QED
    BY <2>1, <2>2
<1>8. /\ ticket' = [ticket EXCEPT ![t].status = "sold"]
      /\ IF Unminted(j) = {t} THEN GoTo(k, "row") ELSE UNCHANGED counterJob
      /\ UNCHANGED <<boxSale, tierSold, lost, crowd, entered>>
  BY <1>2, <1>4 DEF MintOne
<1>9. /\ counterJob' \in [BoxDesks -> BoxJobs] /\ counterJob'[k] = i
      /\ \A x \in BoxDesks \ {k} : counterJob'[x] = counterJob[x]
  <2>1. CASE Unminted(j) = {t}
    <3>1. i = [j EXCEPT !.at = "row"] /\ GoTo(k, "row")
      BY <1>6, <1>8, <2>1
    <3>2. Does(k, i)
      BY <1>2, <3>1 DEF GoTo
    <3> QED
      BY <1>7, <3>2, BoxTypes DEF Does, BoxJobs
  <2>2. CASE Unminted(j) # {t}
    <3>1. i = j /\ counterJob' = counterJob
      BY <1>6, <1>8, <2>2
    <3> QED
      BY <1>2, <3>1, BoxTypes
  <2> QED
    BY <2>1, <2>2
<1>10. /\ ticket' \in [BoxTickets -> BoxTicketRow]
       /\ ticket'[t].status = "sold" /\ ticket'[t].sale = NoBoxSale
       /\ \A x \in BoxTickets \ {t} : ticket'[x] = ticket[x]
  BY <1>5, <1>8, BoxTypes DEF BoxTicketRow
<1>11. IsSeller(i) /\ i.at \notin {"save", "commit"}
  BY <1>3, <1>7 DEF IsSeller
<1>12. Unminted(i)' = Unminted(j) \ {t}
  BY <1>3, <1>5, <1>7, <1>10 DEF Unminted
<1>13. SellerRows(i)'
  <2>1. \A x \in j.tickets : ticket'[x].sale = NoBoxSale /\ ticket'[x].status # "refunded"
    BY <1>3, <1>5, <1>10 DEF SellerRows
  <2>2. i.at = "mint" => Unminted(i)' # {}
    BY <1>4, <1>7, <1>12
  <2>3. i.at = "row" => Unminted(i)' = {}
    BY <1>7, <1>12
  <2> QED
    BY <1>3, <1>7, <2>1, <2>2, <2>3 DEF SellerRows
<1>14. ASSUME NEW x \in BoxDesks \ {k}, NEW m \in TxnJobs, counterJob[x] = m
       PROVE  ticket'[m.t].status = ticket[m.t].status /\ ticket'[m.t].sale = ticket[m.t].sale
  <2>1. m.op \in {"refund", "checkin"}
    BY DEF TxnJobs
  <2>2. ticket[m.t].status = "sold" /\ m.t \in BoxTickets
    BY <1>14, <2>1, TxnJobTyped DEF TxnFresh
  <2> QED
    BY <1>5, <1>10, <2>2
<1>15. \A x \in i.tickets :
          \/ /\ ticket[x].status # "refunded" /\ ticket'[x].status # "refunded"
             /\ ticket'[x].status # "none"
          \/ ticket'[x] = ticket[x]
  BY <1>3, <1>5, <1>7, <1>10
<1>16. \A x \in entered : ticket'[x].status = "checked_in"
  BY <1>5, <1>10, BoxTypes DEF BoxInv
<1>17. \A x \in BoxTickets \ i.tickets : ticket'[x] = ticket[x]
  BY <1>5, <1>7, <1>10
<1> QED
  BY <1>1, <1>2, <1>7, <1>8, <1>9, <1>10, <1>11, <1>13, <1>14, <1>15, <1>16, <1>17,
     SellerWrites

\* A batch links its tickets to their sale.
LEMMA LinkSaleKeeps ==
    ASSUME BoxInv, NEW k \in BoxDesks, LinkSale(k)
    PROVE  BoxInv'
<1>1. IsSeller(counterJob[k]) /\ counterJob[k].at = "link"
  BY DEF LinkSale, SellerAt
<1>2. PICK j \in SellerJobs : j = counterJob[k]
  BY <1>1, SellerJobTyped
<1>3. PICK i : i = [j EXCEPT !.at = "read"]
  OBVIOUS
<1>4. i \in SellerJobs /\ i.at = "read" /\ i.op = j.op /\ i.tickets = j.tickets
  BY <1>3, SellerGoes DEF SellerStages
<1>5. /\ SellerRows(j) /\ j.at = "link" /\ IsSeller(j) /\ j.tickets \subseteq BoxTickets
      /\ j.op = "batch" /\ j.sale \in BoxSales /\ Unminted(j) = {}
  BY <1>1, <1>2, SellerJobTyped DEF SellerRows
<1>6. \A t \in j.tickets : /\ ticket[t].status \notin {"refunded", "none"}
                           /\ ticket[t].sale = NoBoxSale /\ t \in BoxTickets
  BY <1>5 DEF SellerRows, Unminted
<1>7. PICK docs : docs = j.tickets
  OBVIOUS
<1>8. /\ ticket' = [t \in BoxTickets |->
            IF t \in j.tickets THEN [ticket[t] EXCEPT !.sale = j.sale] ELSE ticket[t]]
      /\ counterJob' = [AbortReaders(docs) EXCEPT ![k] = i]
      /\ UNCHANGED <<boxSale, tierSold, lost, crowd, entered>>
  BY <1>2, <1>3, <1>7 DEF LinkSale
<1>9. /\ counterJob' \in [BoxDesks -> BoxJobs] /\ counterJob'[k] = i
      /\ \A x \in BoxDesks \ {k} :
            \/ counterJob'[x] = AtRest /\ ~IsSeller(counterJob[x])
            \/ /\ counterJob'[x] = counterJob[x]
               /\ DocsOf(counterJob[x]) \cap docs = {}
  <2>1. i \in BoxJobs
    BY <1>4 DEF BoxJobs
  <2> QED
    BY <1>8, <2>1, AbortedDesks
<1>10. ASSUME NEW t \in BoxTickets
       PROVE  /\ ticket'[t] \in BoxTicketRow
              /\ t \notin j.tickets => ticket'[t] = ticket[t]
              /\ ticket'[t].status = ticket[t].status
  BY <1>5, <1>8, BoxTypes DEF BoxTicketRow
<1>11. ticket' \in [BoxTickets -> BoxTicketRow]
  BY <1>8, <1>10
<1>12. IsSeller(i) /\ i.at \notin {"save", "commit"} /\ SellerRows(i)'
  BY <1>4, <1>5 DEF IsSeller, SellerRows
<1>13. ASSUME NEW x \in BoxDesks \ {k}, NEW m \in TxnJobs, counterJob[x] = m,
              counterJob'[x] = m
       PROVE  ticket'[m.t].status = ticket[m.t].status /\ ticket'[m.t].sale = ticket[m.t].sale
  <2>1. m.op \in {"refund", "checkin"} /\ m # AtRest /\ m.t \in BoxTickets
    BY DEF TxnJobs, AtRest
  <2>2. DocsOf(m) \cap docs = {}
    BY <1>9, <1>13, <2>1
  <2>3. m.t \notin j.tickets
    BY <1>7, <2>1, <2>2 DEF DocsOf
  <2> QED
    BY <1>10, <2>1, <2>3
<1>14. \A t \in i.tickets :
          ticket[t].status # "refunded" /\ ticket'[t].status # "refunded"
          /\ ticket'[t].status # "none"
  BY <1>4, <1>6, <1>10
<1>15. \A t \in entered : ticket'[t].status = "checked_in"
  BY <1>10, BoxTypes DEF BoxInv
<1>16. \A x \in BoxTickets \ i.tickets : ticket'[x] = ticket[x]
  BY <1>4, <1>10
<1> QED
  BY <1>1, <1>2, <1>4, <1>8, <1>9, <1>11, <1>12, <1>13, <1>14, <1>15, <1>16, SellerWrites

\* A handler that dies leaves its batch's tickets to history.
LEMMA SellerDiesKeeps ==
    ASSUME BoxInv, NEW k \in BoxDesks, SellerDies(k)
    PROVE  BoxInv'
<1>1. IsSeller(counterJob[k])
  BY DEF SellerDies
<1>2. PICK j \in SellerJobs : j = counterJob[k]
  BY <1>1, SellerJobTyped
<1>3. /\ SellerRows(j) /\ j.tickets \subseteq BoxTickets /\ j.op \in {"sell", "batch"}
      /\ IsSeller(j)
  BY <1>1, <1>2, SellerJobTyped
<1>4. /\ lost' = IF j.op = "batch" THEN lost \cup (j.tickets \ Unminted(j)) ELSE lost
      /\ Does(k, AtRest) /\ UNCHANGED <<ticket, boxSale, tierSold, crowd, entered>>
  BY <1>2 DEF SellerDies
<1>5. CASE j.op = "sell"
  <2>1. lost' = lost
    BY <1>4, <1>5
  <2>2. \A t \in j.tickets : ticket[t].status = "none"
    BY <1>3, <1>5 DEF SellerRows
  <2> QED
    BY <1>2, <1>4, <2>1, <2>2, DeskRests
<1>6. CASE j.op = "batch"
  <2>1. lost' = lost \cup (j.tickets \ Unminted(j))
    BY <1>4, <1>6
  <2>2. /\ lost \subseteq lost' /\ lost' \subseteq BoxTickets
        /\ \A t \in j.tickets : ticket[t].status # "none" => t \in lost'
        /\ \A t \in lost' : ticket'[t].status # "none"
    BY <1>3, <1>4, <2>1, BoxTypes DEF Unminted, BoxInv
  <2>3. ~IsSeller(AtRest) /\ AtRest \in BoxJobs /\ AtRest.op \notin {"refund", "checkin"}
    BY DEF IsSeller, AtRest, BoxJobs
  <2>4. Net' <= Net
    BY <1>2, <1>4, <2>2, <2>3, LeavesNet
  <2>5. /\ counterJob' \in [BoxDesks -> BoxJobs] /\ counterJob'[k] = AtRest
        /\ \A x \in BoxDesks \ {k} : counterJob'[x] = counterJob[x]
    BY <1>4, <2>3, BoxTypes DEF Does
  <2>6. BoxTypeOK'
    BY <1>4, <2>2, <2>5, BoxTypes, BoxTypesHold
  <2>7. /\ Net \in Int /\ Net' \in Int /\ tierSold \in Int /\ TierQuantity \in Nat
        /\ Net <= tierSold /\ Net <= TierQuantity
    BY NetTyped, BoxTypes DEF BoxInv
  <2>8. Net' <= tierSold' /\ Net' <= TierQuantity
    <3>1. Net' <= tierSold
      BY <2>4, <2>7
    <3>2. Net' <= TierQuantity
      BY <2>4, <2>7
    <3> QED
      BY <1>4, <3>1, <3>2
  <2>9. \A x \in BoxDesks \ {k}, m \in BoxJobs :
           counterJob[x] = m /\ m.op \in {"refund", "checkin"} => TxnFresh(m)'
    BY <1>4 DEF BoxInv, TxnFresh
  <2>10. \A s \in BoxSales : boxSale'[s].refunded = Cardinality(RefundedOf(s)')
    BY <1>4 DEF BoxInv, RefundedOf
  <2>11. /\ \A t \in BoxTickets : ticket'[t].status = "none" => ticket'[t].sale = NoBoxSale
         /\ \A t \in entered' : ticket'[t].status = "checked_in"
    BY <1>4 DEF BoxInv
  <2>12. ticket' = ticket /\ crowd \subseteq crowd'
    BY <1>4
  <2> QED
    BY <1>1, <2>2, <2>3, <2>4, <2>5, <2>6, <2>8, <2>9, <2>10, <2>11, <2>12, BoxMoves
<1> QED
  BY <1>3, <1>5, <1>6

\* What a batch has counted, or a sale commits, was places the counter knows of.
LEMMA AddsAreSure ==
    ASSUME BoxInv, NEW k \in BoxDesks, NEW j \in SellerJobs, j = counterJob[k],
           IsSeller(j), ~IsSeller(counterJob'[k]),
           \A x \in BoxDesks \ {k} :
              \/ counterJob'[x] = AtRest /\ ~IsSeller(counterJob[x])
              \/ counterJob'[x] = counterJob[x],
           \A t \in BoxTickets \ j.tickets : ticket'[t] = ticket[t],
           GivenBack' = GivenBack, UNCHANGED <<lost, crowd>>
    PROVE  /\ Net' <= Net + Cardinality(Brings(j))
           /\ \A x \in BoxDesks \ {k} : IsSeller(counterJob[x]) => Net' <= Net
<1>1. j.tickets \subseteq BoxTickets /\ Brings(j) \in SUBSET BoxTickets
  BY SellerJobTyped
<1>2. ASSUME NEW t \in BoxTickets, t \in Sure', t \notin Sure PROVE t \in Brings(j)
  <2>1. ticket'[t].status # "none" /\ t \notin Doubtful'
    BY <1>2, TallyIs
  <2>2. t \notin lost /\ t \notin crowd
        /\ \A x \in BoxDesks : IsSeller(counterJob'[x]) => t \notin counterJob'[x].tickets
    BY <2>1, DoubtfulIs
  <2>3. \A x \in BoxDesks \ {k} : IsSeller(counterJob[x]) => t \notin counterJob[x].tickets
    BY <2>2
  <2>4. t \in j.tickets
    <3> SUFFICES ASSUME t \notin j.tickets PROVE FALSE
      OBVIOUS
    <3>1. t \notin Doubtful
      BY <2>2, <2>3, DoubtfulIs
    <3>2. ticket[t].status # "none"
      BY <2>1
    <3> QED
      BY <1>2, <3>1, <3>2, TallyIs
  <2> QED
    BY <2>2, <2>4 DEF Brings
<1>3. \A t \in BoxTickets : t \in Sure' => t \in Sure \/ t \in Brings(j)
  BY <1>2
<1>4. Net' <= Net + Cardinality(Brings(j)) /\ (Brings(j) = {} => Net' <= Net)
  BY ONLY <1>1, <1>3, GivenBack' = GivenBack, NetGrows
<1>5. \A x \in BoxDesks \ {k} : IsSeller(counterJob[x]) => Brings(j) = {}
  BY AddsNothing
<1> QED
  BY <1>4, <1>5

\* The count of a sale comes before its tickets, that of a batch after; it is at
\* least what the seller noted, and what it adds.
LEMMA SaveTierKeeps ==
    ASSUME BoxInv, NEW k \in BoxDesks, SaveTier(k)
    PROVE  BoxInv'
<1>1. IsSeller(counterJob[k]) /\ counterJob[k].at = "save"
  BY DEF SaveTier, SellerAt
<1>2. PICK j \in SellerJobs : j = counterJob[k]
  BY <1>1, SellerJobTyped
<1>3. PICK i : i = IF j.op = "sell" THEN [j EXCEPT !.at = "commit"] ELSE AtRest
  OBVIOUS
<1>4. /\ tierSold' = j.seen + Cardinality(j.tickets)
      /\ counterJob' = [AbortReaders({EventDoc}) EXCEPT ![k] = i]
      /\ UNCHANGED <<ticket, boxSale, lost, crowd, entered>>
  BY <1>2, <1>3 DEF SaveTier
<1>5. /\ SellerRows(j) /\ SellerFits(j) /\ j.at = "save" /\ IsSeller(j)
      /\ j.tickets \subseteq BoxTickets /\ j.seen \in Int
      /\ j.op \in {"sell", "batch"}
      /\ Brings(j) \in SUBSET BoxTickets
      /\ Cardinality(j.tickets) \in Nat /\ Cardinality(Brings(j)) \in Nat
      /\ Cardinality(Brings(j)) <= Cardinality(j.tickets)
  BY <1>1, <1>2, SellerJobTyped
<1>6. /\ j.op = "sell" => /\ i \in SellerJobs /\ i.at = "commit" /\ i.op = "sell"
                          /\ i.tickets = j.tickets
      /\ j.op = "batch" => i = AtRest
  <2>1. CASE j.op = "sell"
    <3>1. i = [j EXCEPT !.at = "commit"]
      BY <1>3, <2>1
    <3> QED
      BY <2>1, <3>1 DEF SellerJobs, SellerStages
  <2>2. CASE j.op = "batch"
    BY <1>3, <2>2
  <2> QED
    BY <1>5, <2>1, <2>2
<1>7. i \in BoxJobs /\ i.op \notin {"refund", "checkin"}
      /\ (IsSeller(i) <=> j.op = "sell")
  BY <1>5, <1>6 DEF BoxJobs, AtRest, IsSeller
<1>8. /\ counterJob' \in [BoxDesks -> BoxJobs] /\ counterJob'[k] = i
      /\ \A x \in BoxDesks \ {k} :
            \/ counterJob'[x] = AtRest /\ ~IsSeller(counterJob[x])
            \/ /\ counterJob'[x] = counterJob[x]
               /\ DocsOf(counterJob[x]) \cap {EventDoc} = {}
  BY <1>4, <1>7, AbortedDesks
<1>9. /\ Net \in Int /\ Net' \in Int /\ tierSold \in Int /\ TierQuantity \in Nat
      /\ Net <= tierSold /\ Net <= TierQuantity /\ tierSold' \in Int
  BY <1>4, <1>5, NetTyped, BoxTypes DEF BoxInv
<1>10. BoxTypeOK'
  BY <1>4, <1>8, <1>9, BoxTypes, BoxTypesHold
<1>11. GivenBack' = GivenBack
  BY <1>4 DEF GivenBack
<1>12. /\ Net' <= Net + Cardinality(Brings(j))
       /\ \A x \in BoxDesks \ {k} : IsSeller(counterJob[x]) => Net' <= Net
       /\ IsSeller(i) => Net' <= Net
  <2>1. CASE j.op = "sell"
    <3>1. IsSeller(i) /\ i.tickets = j.tickets
      BY <1>6, <1>7, <2>1
    <3>2. ASSUME NEW t \in BoxTickets, t \in Doubtful PROVE t \in Doubtful'
      <4>1. t \in lost' \/ t \in crowd'
            \/ \E x \in BoxDesks : IsSeller(counterJob'[x]) /\ t \in counterJob'[x].tickets
        BY <1>2, <1>4, <1>8, <3>1, <3>2, DoubtfulIs
      <4> QED
        BY <4>1, DoubtfulIs
    <3>3. \A t \in BoxTickets : t \in Sure' => t \in Sure
      BY <1>4, <3>2, TallyIs
    <3>4. Net' <= Net
      BY <1>11, <3>3, NetGrows
    <3> QED
      BY <1>5, <1>9, <3>4
  <2>2. CASE j.op = "batch"
    <3>1. ~IsSeller(counterJob'[k]) /\ ~IsSeller(i)
      BY <1>7, <1>8, <2>2
    <3>2. \A t \in BoxTickets \ j.tickets : ticket'[t] = ticket[t]
      BY <1>4
    <3>3. UNCHANGED <<lost, crowd>>
      BY <1>4
    <3>4. \A x \in BoxDesks \ {k} :
             \/ counterJob'[x] = AtRest /\ ~IsSeller(counterJob[x])
             \/ counterJob'[x] = counterJob[x]
      BY <1>8
    <3>5. /\ Net' <= Net + Cardinality(Brings(j))
          /\ \A x \in BoxDesks \ {k} : IsSeller(counterJob[x]) => Net' <= Net
      BY ONLY BoxInv, <1>2, <1>5, <1>11, <3>1, <3>2, <3>3, <3>4, AddsAreSure
    <3> QED
      BY <3>1, <3>5
  <2> QED
    BY <1>5, <2>1, <2>2
<1>13. Net <= j.seen /\ Net + Cardinality(Brings(j)) <= TierQuantity
  BY <1>5 DEF SellerFits
<1>14. PICK d \in Int : d = tierSold' /\ d = j.seen + Cardinality(j.tickets)
  BY <1>4, <1>9
<1>15. Net + Cardinality(Brings(j)) <= d
  BY <1>5, <1>9, <1>13, <1>14
<1>16. Net' <= d
  BY <1>5, <1>9, <1>12, <1>15
<1>17. Net' <= TierQuantity
  BY <1>5, <1>9, <1>12, <1>13
<1>18. IsSeller(i) => SellerFits(i)'
  <2> SUFFICES ASSUME IsSeller(i) PROVE SellerFits(i)'
    OBVIOUS
  <2>1. i.at = "commit" /\ i.tickets = j.tickets
    BY <1>5, <1>6, <1>7
  <2>2. Brings(i)' = Brings(j)
    BY <1>4, <2>1 DEF Brings
  <2>3. Net' + Cardinality(Brings(j)) <= d
    BY <1>5, <1>9, <1>12, <1>15
  <2>4. Net' + Cardinality(Brings(j)) <= TierQuantity
    BY <1>5, <1>9, <1>12, <1>13
  <2> QED
    BY <1>14, <2>1, <2>2, <2>3, <2>4 DEF SellerFits
<1>19. IsSeller(i) => SellerRows(i)'
  <2> SUFFICES ASSUME IsSeller(i) PROVE SellerRows(i)'
    OBVIOUS
  <2>1. i.at = "commit" /\ i.tickets = j.tickets /\ i.op = "sell" /\ j.op = "sell"
    BY <1>5, <1>6, <1>7
  <2> QED
    BY <1>4, <1>5, <2>1 DEF SellerRows
<1>20. ASSUME NEW x \in BoxDesks \ {k}, NEW m \in BoxJobs, counterJob[x] = m,
              counterJob'[x] = m, m.op \in {"refund", "checkin"}
       PROVE  TxnFresh(m)'
  <2>1. TxnFresh(m)
    BY <1>20, TxnJobTyped
  <2>2. DocsOf(m) \cap {EventDoc} = {}
    BY <1>8, <1>20 DEF AtRest
  <2>3. m.op = "checkin"
    BY <1>20, <2>2 DEF DocsOf
  <2> QED
    BY <1>4, <2>1, <2>3 DEF TxnFresh
<1>21. \A s \in BoxSales : boxSale'[s].refunded = Cardinality(RefundedOf(s)')
  BY <1>4 DEF BoxInv, RefundedOf
<1>22. /\ \A t \in BoxTickets : ticket'[t].status = "none" => ticket'[t].sale = NoBoxSale
       /\ \A t \in lost' : ticket'[t].status # "none"
       /\ \A t \in entered' : ticket'[t].status = "checked_in"
  BY <1>4 DEF BoxInv
<1>23. IsSeller(i) =>
          \A x \in BoxDesks \ {k} : IsSeller(counterJob[x]) =>
             /\ i.tickets \cap counterJob[x].tickets = {}
             /\ i.tickets \subseteq crowd'
             /\ counterJob[x].tickets \subseteq crowd'
  BY <1>1, <1>2, <1>4, <1>5, <1>6, <1>7, SellersApart
<1>24. /\ lost \subseteq lost' /\ crowd \subseteq crowd' /\ ticket' = ticket
       /\ BoxInv /\ Net' <= tierSold'
  BY <1>4, <1>14, <1>16
<1>25. \A x \in BoxDesks \ {k} : IsSeller(counterJob[x]) =>
              /\ Net' <= Net
              /\ ~IsSeller(counterJob[k]) => Net' + tierSold <= Net + tierSold'
  BY <1>1, <1>12
<1>26. \A x \in BoxDesks \ {k} :
              \/ counterJob'[x] = AtRest /\ ~IsSeller(counterJob[x])
              \/ counterJob'[x] = counterJob[x]
  BY <1>8
<1>27. \A x \in BoxDesks \ {k}, m \in BoxJobs :
          counterJob[x] = m /\ counterJob'[x] = m /\ m.op \in {"refund", "checkin"} =>
             TxnFresh(m)'
  BY <1>20
<1> QED
  BY ONLY <1>7, <1>8, <1>10, <1>17, <1>18, <1>19, <1>21, <1>22, <1>23, <1>24, <1>25,
     <1>26, <1>27, BoxMoves

\* A sale commits its tickets and its row, that were counted before.
LEMMA CommitSaleKeeps ==
    ASSUME BoxInv, NEW k \in BoxDesks, CommitSale(k)
    PROVE  BoxInv'
<1>1. IsSeller(counterJob[k]) /\ counterJob[k].at = "commit"
  BY DEF CommitSale, SellerAt
<1>2. PICK j \in SellerJobs : j = counterJob[k]
  BY <1>1, SellerJobTyped
<1>3. /\ ticket' = [t \in BoxTickets |-> IF t \in j.tickets
                      THEN [sale |-> j.sale, status |-> "sold"] ELSE ticket[t]]
      /\ boxSale' = [boxSale EXCEPT ![j.sale].quantity = Cardinality(j.tickets)]
      /\ Does(k, AtRest) /\ UNCHANGED <<tierSold, lost, crowd, entered>>
  BY <1>2 DEF CommitSale
<1>4. /\ SellerRows(j) /\ SellerFits(j) /\ j.at = "commit" /\ IsSeller(j)
      /\ j.tickets \subseteq BoxTickets /\ j.sale \in BoxSales
      /\ Brings(j) \in SUBSET BoxTickets
      /\ Cardinality(j.tickets) \in Nat /\ Cardinality(Brings(j)) \in Nat
  BY <1>1, <1>2, SellerJobTyped
<1>5. \A t \in j.tickets : ticket[t].status = "none"
  <2>1. j.op = "sell"
    BY <1>4, <1>1, <1>2, SellerJobTyped DEF SellerRows
  <2> QED
    BY <1>4, <2>1 DEF SellerRows
<1>6. /\ ticket' \in [BoxTickets -> BoxTicketRow]
      /\ \A t \in BoxTickets \ j.tickets : ticket'[t] = ticket[t]
      /\ \A t \in j.tickets : ticket'[t].status = "sold"
  BY <1>3, <1>4, BoxTypes DEF BoxTicketRow
<1>7. /\ boxSale' \in [BoxSales -> [quantity : Nat, refunded : Nat]]
      /\ \A s \in BoxSales : boxSale'[s].refunded = boxSale[s].refunded
  BY <1>3, <1>4, BoxTypes
<1>8. AtRest \in BoxJobs /\ ~IsSeller(AtRest) /\ AtRest.op \notin {"refund", "checkin"}
  BY DEF BoxJobs, AtRest, IsSeller
<1>9. /\ counterJob' \in [BoxDesks -> BoxJobs] /\ counterJob'[k] = AtRest
      /\ \A x \in BoxDesks \ {k} : counterJob'[x] = counterJob[x]
  BY <1>3, <1>8, BoxTypes DEF Does
<1>10. BoxTypeOK'
  BY <1>3, <1>6, <1>7, <1>9, BoxTypes, BoxTypesHold
<1>11. GivenBack' = GivenBack
  <2>1. ASSUME NEW t \in BoxTickets PROVE t \in GivenBack' <=> t \in GivenBack
    BY <1>5, <1>6, TallyIs
  <2> QED
    BY <2>1 DEF GivenBack
<1>12. /\ Net' <= Net + Cardinality(Brings(j))
       /\ \A x \in BoxDesks \ {k} : IsSeller(counterJob[x]) => Net' <= Net
  <2>1. UNCHANGED <<lost, crowd>>
    BY <1>3
  <2>2. ~IsSeller(counterJob'[k])
    BY <1>8, <1>9
  <2>3. \A x \in BoxDesks \ {k} :
           \/ counterJob'[x] = AtRest /\ ~IsSeller(counterJob[x])
           \/ counterJob'[x] = counterJob[x]
    BY <1>9
  <2> QED
    BY ONLY BoxInv, <1>2, <1>4, <1>6, <1>11, <2>1, <2>2, <2>3, AddsAreSure
<1>13. /\ Net \in Int /\ Net' \in Int /\ tierSold \in Int /\ TierQuantity \in Nat
  BY NetTyped, BoxTypes
<1>14. Net + Cardinality(Brings(j)) <= tierSold
       /\ Net + Cardinality(Brings(j)) <= TierQuantity
  BY <1>4 DEF SellerFits
<1>15. Net' <= TierQuantity
  BY <1>4, <1>12, <1>13, <1>14
<1>16. Net' <= tierSold
  BY <1>4, <1>12, <1>13, <1>14
<1>17. \A x \in BoxDesks \ {k}, m \in BoxJobs :
          counterJob[x] = m /\ m.op \in {"refund", "checkin"} => TxnFresh(m)'
  <2> SUFFICES ASSUME NEW x \in BoxDesks \ {k}, NEW m \in BoxJobs, counterJob[x] = m,
                      m.op \in {"refund", "checkin"}
               PROVE  TxnFresh(m)'
    OBVIOUS
  <2>1. TxnFresh(m) /\ m.t \in BoxTickets
    BY TxnJobTyped
  <2>2. ticket[m.t].status = "sold"
    BY <2>1 DEF TxnFresh
  <2>3. ticket'[m.t] = ticket[m.t]
    BY <1>5, <1>6, <2>1, <2>2
  <2> QED
    BY <1>3, <1>7, <2>1, <2>3 DEF TxnFresh
<1>18. ASSUME NEW x \in BoxDesks \ {k}, IsSeller(counterJob[x]),
              NEW t \in counterJob[x].tickets
       PROVE  ticket'[t] = ticket[t]
  BY <1>1, <1>2, <1>6, <1>18, SellersApart, SellerJobTyped
<1>19. ASSUME NEW s \in BoxSales
       PROVE  boxSale'[s].refunded = Cardinality(RefundedOf(s)')
  <2>1. \A t \in BoxTickets : ticket'[t].status = "refunded" \/ ticket[t].status = "refunded" =>
           ticket'[t] = ticket[t]
    BY <1>5, <1>6
  <2>2. RefundedOf(s)' = RefundedOf(s)
    BY <1>6, <2>1, BoxTypes DEF RefundedOf, BoxTicketRow
  <2> QED
    BY <1>7, <2>2 DEF BoxInv
<1>20. /\ \A t \in BoxTickets : ticket'[t].status = "none" => ticket'[t].sale = NoBoxSale
       /\ \A t \in lost' : ticket'[t].status # "none"
       /\ \A t \in entered' : ticket'[t].status = "checked_in"
  BY <1>3, <1>5, <1>6, BoxTypes DEF BoxInv
<1>21. \A x \in BoxDesks \ {k} : IsSeller(counterJob[x]) =>
          \A t \in counterJob[x].tickets :
             /\ ticket'[t].status = "none" <=> ticket[t].status = "none"
             /\ ticket'[t].sale = ticket[t].sale
             /\ ticket[t].sale = NoBoxSale /\ ticket[t].status # "refunded" =>
                   ticket'[t].status # "refunded"
  BY <1>18
<1>22. /\ lost \subseteq lost' /\ crowd \subseteq crowd' /\ BoxInv
       /\ Net' <= tierSold' /\ IsSeller(counterJob[k])
  BY <1>1, <1>3, <1>16
<1>23. /\ \A x \in BoxDesks \ {k} : IsSeller(counterJob[x]) =>
              /\ Net' <= Net
              /\ ~IsSeller(counterJob[k]) => Net' + tierSold <= Net + tierSold'
       /\ \A x \in BoxDesks \ {k} :
              \/ counterJob'[x] = AtRest /\ ~IsSeller(counterJob[x])
              \/ counterJob'[x] = counterJob[x]
       /\ \A x \in BoxDesks \ {k}, m \in BoxJobs :
              counterJob[x] = m /\ counterJob'[x] = m /\ m.op \in {"refund", "checkin"} =>
                 TxnFresh(m)'
  BY <1>1, <1>9, <1>12, <1>17
<1> QED
  BY ONLY <1>8, <1>9, <1>10, <1>15, <1>19, <1>20, <1>21, <1>22, <1>23, BoxMoves

\* A transaction begins on a sold ticket.
LEMMA BeginTicketTxnKeeps ==
    ASSUME BoxInv, NEW k \in BoxDesks, NEW op \in {"refund", "checkin"},
           NEW t \in BoxTickets, BeginTicketTxn(k, op, t)
    PROVE  BoxInv'
<1>1. PICK n : n = IF HasSale(t) THEN boxSale[ticket[t].sale].refunded ELSE 0
  OBVIOUS
<1>2. PICK i : i = [op |-> op, at |-> "save", t |-> t, sold |-> tierSold, refunded |-> n]
  OBVIOUS
<1>3. /\ counterJob[k] = AtRest /\ ticket[t].status = "sold" /\ Does(k, i)
      /\ op = "refund" => HasSale(t)
      /\ UNCHANGED <<ticket, boxSale, tierSold, lost, crowd, entered>>
  BY <1>1, <1>2 DEF BeginTicketTxn
<1>4. /\ HasSale(t) => ticket[t].sale \in BoxSales /\ n = boxSale[ticket[t].sale].refunded
      /\ n \in Nat
  BY <1>1, BoxTypes DEF HasSale, BoxTicketRow
<1>5. i \in TxnJobs /\ i.op = op /\ i.t = t /\ i.sold = tierSold /\ i.refunded = n
  BY <1>2, <1>4, BoxTypes DEF TxnJobs
<1>6. TxnFresh(i) /\ ~IsSeller(i) /\ ~IsSeller(counterJob[k]) /\ i \in BoxJobs
  BY <1>3, <1>4, <1>5 DEF TxnFresh, IsSeller, AtRest, BoxJobs
<1>7. TxnFresh(i)'
  BY <1>3, <1>6 DEF TxnFresh
<1>8. Net' <= Net
  BY <1>3, <1>6, LeavesNet
<1>9. crowd \subseteq crowd' /\ crowd' \subseteq BoxTickets
  BY <1>3, BoxTypes
<1> QED
  BY <1>3, <1>6, <1>7, <1>8, <1>9, BoxDeskMoves

\* It takes hold of what it writes, or aborts.
LEMMA HoldDocsKeeps ==
    ASSUME BoxInv, NEW k \in BoxDesks, HoldDocs(k)
    PROVE  BoxInv'
<1>1. /\ counterJob[k].op \in {"refund", "checkin"}
      /\ GoTo(k, "commit") \/ Does(k, AtRest)
      /\ UNCHANGED <<ticket, boxSale, tierSold, lost, crowd, entered>>
  BY DEF HoldDocs
<1>2. PICK j \in TxnJobs : j = counterJob[k]
  BY <1>1, TxnJobTyped
<1>3. PICK i : i = [j EXCEPT !.at = "commit"]
  OBVIOUS
<1>4. i \in TxnJobs /\ i.op = j.op /\ i.t = j.t /\ i.sold = j.sold
      /\ i.refunded = j.refunded
  BY <1>3 DEF TxnJobs
<1>5. TxnFresh(j) /\ j.op \in {"refund", "checkin"}
  BY <1>1, <1>2, TxnJobTyped
<1>6. TxnFresh(i) /\ ~IsSeller(i) /\ ~IsSeller(counterJob[k]) /\ i \in BoxJobs
  BY <1>1, <1>4, <1>5 DEF TxnFresh, IsSeller, BoxJobs
<1>7. CASE Does(k, i)
  <2>1. TxnFresh(i)'
    BY <1>1, <1>6 DEF TxnFresh
  <2>2. Net' <= Net
    BY <1>1, <1>6, <1>7, LeavesNet
  <2>3. crowd \subseteq crowd' /\ crowd' \subseteq BoxTickets
    BY <1>1, BoxTypes
  <2> QED
    BY <1>1, <1>6, <1>7, <2>1, <2>2, <2>3, BoxDeskMoves
<1>8. CASE Does(k, AtRest)
  BY <1>1, <1>6, <1>8, DeskRests
<1> QED
  BY <1>1, <1>2, <1>3, <1>7, <1>8 DEF GoTo

\* A transaction that fails writes nothing.
LEMMA TicketTxnFailsKeeps ==
    ASSUME BoxInv, NEW k \in BoxDesks, TicketTxnFails(k)
    PROVE  BoxInv'
<1>1. /\ counterJob[k].op \in {"refund", "checkin"} /\ Does(k, AtRest)
      /\ UNCHANGED <<ticket, boxSale, tierSold, lost, crowd, entered>>
  BY DEF TicketTxnFails
<1>2. ~IsSeller(counterJob[k])
  BY <1>1 DEF IsSeller
<1> QED
  BY <1>1, <1>2, DeskRests

\* A transaction commits on its ticket, which was sold: nobody's tickets become new
\* or doubtful, and the transactions that go on have not read it.
LEMMA TxnCommits ==
    ASSUME BoxInv, NEW k \in BoxDesks, NEW j \in TxnJobs, j = counterJob[k],
           j.op \in {"refund", "checkin"}, j.t \in BoxTickets,
           ticket[j.t].status = "sold", NEW docs, j.t \in docs,
           counterJob' = [AbortReaders(docs) EXCEPT ![k] = AtRest],
           ticket' \in [BoxTickets -> BoxTicketRow],
           ticket'[j.t].status \in {"refunded", "checked_in"},
           ticket'[j.t].sale = ticket[j.t].sale,
           ticket'[j.t].status = "refunded" => ticket[j.t].sale # NoBoxSale,
           \A t \in BoxTickets \ {j.t} : ticket'[t] = ticket[t],
           boxSale' \in [BoxSales -> [quantity : Nat, refunded : Nat]],
           \A s \in BoxSales : boxSale'[s].refunded = Cardinality(RefundedOf(s)'),
           \A m \in TxnJobs : DocsOf(m) \cap docs = {} /\ m.op = "refund" =>
              UNCHANGED <<boxSale, tierSold>>,
           tierSold' \in Int, Net' <= Net, Net' <= tierSold',
           Net' + tierSold <= Net + tierSold',
           UNCHANGED <<lost, crowd>>, entered' \subseteq BoxTickets,
           \A t \in entered' : ticket'[t].status = "checked_in"
    PROVE  BoxInv'
<1>1. AtRest \in BoxJobs /\ ~IsSeller(AtRest) /\ AtRest.op \notin {"refund", "checkin"}
  BY DEF BoxJobs, AtRest, IsSeller
<1>2. /\ counterJob' \in [BoxDesks -> BoxJobs] /\ counterJob'[k] = AtRest
      /\ \A x \in BoxDesks \ {k} :
            \/ counterJob'[x] = AtRest /\ ~IsSeller(counterJob[x])
            \/ /\ counterJob'[x] = counterJob[x]
               /\ DocsOf(counterJob[x]) \cap docs = {}
  BY ONLY <1>1, BoxInv, counterJob' = [AbortReaders(docs) EXCEPT ![k] = AtRest],
          AbortedDesks
<1>3. BoxTypeOK'
  BY <1>2, BoxTypes, BoxTypesHold
<1>4. Net' <= TierQuantity
  BY NetTyped, BoxTypes DEF BoxInv
<1>5. ASSUME NEW x \in BoxDesks \ {k}, NEW m \in BoxJobs, counterJob[x] = m,
             counterJob'[x] = m, m.op \in {"refund", "checkin"}
      PROVE  TxnFresh(m)'
  <2>1. m \in TxnJobs /\ TxnFresh(m) /\ m.t \in BoxTickets
    BY <1>5, TxnJobTyped
  <2>2. DocsOf(m) \cap docs = {} /\ m.t \in DocsOf(m)
    BY <1>1, <1>2, <1>5 DEF DocsOf
  <2>3. ticket'[m.t] = ticket[m.t]
    BY <2>1, <2>2
  <2>4. m.op = "refund" => UNCHANGED <<boxSale, tierSold>>
    BY <2>1, <2>2
  <2> QED
    BY <2>1, <2>3, <2>4 DEF TxnFresh
<1>6. ASSUME NEW x \in BoxDesks \ {k}, IsSeller(counterJob[x]),
             NEW t \in counterJob[x].tickets
      PROVE  /\ ticket'[t].status = "none" <=> ticket[t].status = "none"
             /\ ticket'[t].sale = ticket[t].sale
             /\ ticket[t].sale = NoBoxSale /\ ticket[t].status # "refunded" =>
                   ticket'[t].status # "refunded"
  <2>1. t \in BoxTickets
    BY <1>6, SellerJobTyped
  <2> QED
    BY <2>1
<1>7. /\ \A t \in BoxTickets : ticket'[t].status = "none" => ticket'[t].sale = NoBoxSale
      /\ \A t \in lost' : ticket'[t].status # "none"
  BY BoxTypes DEF BoxInv
<1>8. /\ BoxInv /\ Net' <= tierSold' /\ lost \subseteq lost' /\ crowd \subseteq crowd'
      /\ \A s \in BoxSales : boxSale'[s].refunded = Cardinality(RefundedOf(s)')
      /\ \A t \in entered' : ticket'[t].status = "checked_in"
  OBVIOUS
<1>9. /\ \A x \in BoxDesks \ {k} : IsSeller(counterJob[x]) =>
              /\ Net' <= Net
              /\ ~IsSeller(counterJob[k]) => Net' + tierSold <= Net + tierSold'
      /\ \A x \in BoxDesks \ {k} :
              \/ counterJob'[x] = AtRest /\ ~IsSeller(counterJob[x])
              \/ counterJob'[x] = counterJob[x]
      /\ \A x \in BoxDesks \ {k}, m \in BoxJobs :
              counterJob[x] = m /\ counterJob'[x] = m /\ m.op \in {"refund", "checkin"} =>
                 TxnFresh(m)'
  BY <1>2, <1>5
<1>10. \A x \in BoxDesks \ {k} : IsSeller(counterJob[x]) =>
          \A t \in counterJob[x].tickets :
             /\ ticket'[t].status = "none" <=> ticket[t].status = "none"
             /\ ticket'[t].sale = ticket[t].sale
             /\ ticket[t].sale = NoBoxSale /\ ticket[t].status # "refunded" =>
                   ticket'[t].status # "refunded"
  BY <1>6
<1> QED
  BY ONLY <1>1, <1>2, <1>3, <1>4, <1>7, <1>8, <1>9, <1>10, BoxMoves

\* Who works at the till makes the same tickets doubtful after a transaction.
LEMMA SameDoubts ==
    ASSUME BoxInv, NEW k \in BoxDesks, counterJob[k].op \in {"refund", "checkin"}, NEW docs,
           counterJob' = [AbortReaders(docs) EXCEPT ![k] = AtRest],
           UNCHANGED <<lost, crowd>>, NEW t
    PROVE  t \in Doubtful' <=> t \in Doubtful
<1>1. AtRest \in BoxJobs /\ ~IsSeller(AtRest) /\ ~IsSeller(counterJob[k])
  BY DEF BoxJobs, AtRest, IsSeller
<1>2. /\ counterJob'[k] = AtRest
      /\ \A x \in BoxDesks \ {k} :
            \/ counterJob'[x] = AtRest /\ ~IsSeller(counterJob[x])
            \/ counterJob'[x] = counterJob[x]
  BY ONLY <1>1, BoxInv, counterJob' = [AbortReaders(docs) EXCEPT ![k] = AtRest],
          AbortedDesks
<1> QED
  BY <1>1, <1>2, DoubtfulIs

\* A refund takes a sold ticket, its sale's count and the tier's down together.
LEMMA CommitRefundKeeps ==
    ASSUME BoxInv, NEW k \in BoxDesks, CommitRefund(k)
    PROVE  BoxInv'
<1>1. counterJob[k].op = "refund"
  BY DEF CommitRefund, InTicketTxn
<1>2. PICK j \in TxnJobs : j = counterJob[k]
  BY <1>1, TxnJobTyped
<1>3. /\ j.op = "refund" /\ j.t \in BoxTickets
      /\ ticket[j.t].status = "sold" /\ j.sold = tierSold /\ j.sold \in Int
      /\ ticket[j.t].sale \in BoxSales
      /\ j.refunded = boxSale[ticket[j.t].sale].refunded
  BY <1>1, <1>2, TxnJobTyped DEF TxnFresh
<1>4. PICK s \in BoxSales : s = ticket[j.t].sale
  BY <1>3
<1>5. PICK docs : docs = DocsOf(j)
  OBVIOUS
<1>6. /\ ticket' = [ticket EXCEPT ![j.t].status = "refunded"]
      /\ boxSale' = [boxSale EXCEPT ![s].refunded = j.refunded + 1]
      /\ tierSold' = tierSold - 1
      /\ counterJob' = [AbortReaders(docs) EXCEPT ![k] = AtRest]
      /\ UNCHANGED <<lost, crowd, entered>>
  BY <1>2, <1>3, <1>4, <1>5 DEF CommitRefund
<1>7. /\ ticket' \in [BoxTickets -> BoxTicketRow]
      /\ ticket'[j.t].status = "refunded" /\ ticket'[j.t].sale = s
      /\ \A t \in BoxTickets \ {j.t} : ticket'[t] = ticket[t]
  BY <1>3, <1>4, <1>6, BoxTypes DEF BoxTicketRow
<1>8. /\ boxSale' \in [BoxSales -> [quantity : Nat, refunded : Nat]]
      /\ boxSale'[s].refunded = boxSale[s].refunded + 1
      /\ \A x \in BoxSales \ {s} : boxSale'[x].refunded = boxSale[x].refunded
  BY <1>3, <1>4, <1>6, BoxTypes
<1>9. /\ Net \in Int /\ Net' \in Int /\ tierSold \in Int /\ tierSold' \in Int
      /\ Net <= tierSold
  BY <1>6, NetTyped, BoxTypes DEF BoxInv
<1>10. Net' = Net - 1
  <2>1. ASSUME NEW t \in BoxTickets PROVE t \in Sure' <=> t \in Sure
    <3>1. t \in Doubtful' <=> t \in Doubtful
      <4>1. BoxInv /\ counterJob[k].op \in {"refund", "checkin"}
        BY <1>1
      <4> QED
        BY ONLY <1>6, <4>1, SameDoubts
    <3>2. ticket'[t].status = "none" <=> ticket[t].status = "none"
      BY <1>3, <1>7
    <3> QED
      BY <3>1, <3>2, TallyIs
  <2>2. Sure' = Sure
    BY <2>1 DEF Sure
  <2>3. ASSUME NEW t \in BoxTickets
        PROVE  t \in GivenBack' <=> t \in GivenBack \/ t = j.t
    BY <1>7, TallyIs
  <2>4. GivenBack' = GivenBack \cup {j.t} /\ j.t \notin GivenBack
    BY <1>3, <2>3 DEF GivenBack
  <2>5. IsFiniteSet(GivenBack) /\ Cardinality(GivenBack) \in Nat
    BY TicketSets DEF GivenBack
  <2>6. Cardinality(GivenBack') = Cardinality(GivenBack) + 1
    BY <2>4, <2>5, FS_AddElement
  <2>7. Cardinality(Sure) \in Nat /\ Cardinality(Sure') = Cardinality(Sure)
    BY <2>2, NetTyped
  <2> QED
    BY <2>5, <2>6, <2>7 DEF Net
<1>11. Net' <= Net /\ Net' <= tierSold' /\ Net' + tierSold <= Net + tierSold'
  BY <1>6, <1>9, <1>10
<1>12. ASSUME NEW x \in BoxSales
       PROVE  boxSale'[x].refunded = Cardinality(RefundedOf(x)')
  <2>1. boxSale[x].refunded = Cardinality(RefundedOf(x))
        /\ IsFiniteSet(RefundedOf(x))
    BY TicketSets DEF BoxInv, RefundedOf
  <2>2. CASE x = s
    <3>1. RefundedOf(x)' = RefundedOf(x) \cup {j.t} /\ j.t \notin RefundedOf(x)
      BY <1>3, <1>7, <2>2, BoxTypes DEF RefundedOf, BoxTicketRow
    <3> QED
      BY ZenonT(30), <1>8, <2>1, <2>2, <3>1, FS_AddElement
  <2>3. CASE x # s
    <3>1. RefundedOf(x)' = RefundedOf(x)
      BY <1>3, <1>7, <2>3, BoxTypes DEF RefundedOf, BoxTicketRow
    <3> QED
      BY <1>8, <2>1, <2>3, <3>1
  <2> QED
    BY <2>2, <2>3
<1>13. /\ j.t \in docs
       /\ \A m \in TxnJobs : DocsOf(m) \cap docs = {} /\ m.op = "refund" =>
             UNCHANGED <<boxSale, tierSold>>
  <2>1. docs = {j.t, ticket[j.t].sale, EventDoc}
    BY <1>3, <1>5 DEF DocsOf
  <2>2. \A m \in TxnJobs : m.op = "refund" => EventDoc \in DocsOf(m)
    BY DEF DocsOf
  <2> QED
    BY <2>1, <2>2
<1>14. /\ entered' \subseteq BoxTickets
       /\ \A t \in entered' : ticket'[t].status = "checked_in"
  BY <1>3, <1>6, <1>7, BoxTypes DEF BoxInv
<1>15. /\ BoxInv /\ j = counterJob[k] /\ j.op \in {"refund", "checkin"}
       /\ ticket'[j.t].status \in {"refunded", "checked_in"}
       /\ ticket'[j.t].sale = ticket[j.t].sale
       /\ ticket'[j.t].status = "refunded" => ticket[j.t].sale # NoBoxSale
       /\ UNCHANGED <<lost, crowd>>
       /\ counterJob' = [AbortReaders(docs) EXCEPT ![k] = AtRest]
       /\ \A x \in BoxSales : boxSale'[x].refunded = Cardinality(RefundedOf(x)')
  BY <1>2, <1>3, <1>4, <1>6, <1>7, <1>12, BoxTypes
<1> QED
  BY ONLY <1>3, <1>7, <1>8, <1>9, <1>11, <1>13, <1>14, <1>15, TxnCommits

\* An admission takes no refund with it, and the counter stays.
LEMMA CommitCheckInKeeps ==
    ASSUME BoxInv, NEW k \in BoxDesks, CommitCheckIn(k)
    PROVE  BoxInv'
<1>1. counterJob[k].op = "checkin"
  BY DEF CommitCheckIn, InTicketTxn
<1>2. PICK j \in TxnJobs : j = counterJob[k]
  BY <1>1, TxnJobTyped
<1>3. /\ j.op = "checkin" /\ j.t \in BoxTickets /\ ticket[j.t].status = "sold"
  BY <1>1, <1>2, TxnJobTyped DEF TxnFresh
<1>4. PICK docs : docs = {j.t}
  OBVIOUS
<1>5. /\ ticket' = [ticket EXCEPT ![j.t].status = "checked_in"]
      /\ entered' = entered \cup {j.t}
      /\ counterJob' = [AbortReaders(docs) EXCEPT ![k] = AtRest]
      /\ UNCHANGED <<boxSale, tierSold, lost, crowd>>
  BY <1>2, <1>4 DEF CommitCheckIn
<1>6. /\ ticket' \in [BoxTickets -> BoxTicketRow]
      /\ ticket'[j.t].status = "checked_in" /\ ticket'[j.t].sale = ticket[j.t].sale
      /\ \A t \in BoxTickets \ {j.t} : ticket'[t] = ticket[t]
  BY <1>3, <1>5, BoxTypes DEF BoxTicketRow
<1>7. /\ Net \in Int /\ Net' \in Int /\ tierSold \in Int /\ Net <= tierSold
  BY NetTyped, BoxTypes DEF BoxInv
<1>8. Net' = Net
  <2>1. ASSUME NEW t \in BoxTickets
        PROVE  (t \in Sure' <=> t \in Sure) /\ (t \in GivenBack' <=> t \in GivenBack)
    <3>1. t \in Doubtful' <=> t \in Doubtful
      <4>1. counterJob[k].op \in {"refund", "checkin"} /\ UNCHANGED <<lost, crowd>>
        BY <1>1, <1>5
      <4> QED
        BY ONLY BoxInv, <1>5, <4>1, SameDoubts
    <3> QED
      BY <1>3, <1>6, <3>1, TallyIs
  <2>2. Sure' = Sure /\ GivenBack' = GivenBack
    BY <2>1 DEF Sure, GivenBack
  <2> QED
    BY <2>2, NetStays
<1>9. tierSold' = tierSold /\ boxSale' = boxSale
  BY <1>5
<1>10. Net' <= Net /\ Net' <= tierSold' /\ Net' + tierSold <= Net + tierSold'
       /\ tierSold' \in Int
  BY <1>7, <1>8, <1>9
<1>11. \A s \in BoxSales : boxSale'[s].refunded = Cardinality(RefundedOf(s)')
  <2>1. \A s \in BoxSales : RefundedOf(s)' = RefundedOf(s)
    BY <1>3, <1>6, BoxTypes DEF RefundedOf, BoxTicketRow
  <2> QED
    BY <1>9, <2>1 DEF BoxInv
<1>12. /\ BoxInv /\ j = counterJob[k] /\ j.op \in {"refund", "checkin"} /\ j.t \in docs
       /\ ticket'[j.t].status \in {"refunded", "checked_in"}
       /\ ticket'[j.t].status = "refunded" => ticket[j.t].sale # NoBoxSale
       /\ UNCHANGED <<lost, crowd>>
       /\ boxSale' \in [BoxSales -> [quantity : Nat, refunded : Nat]]
       /\ UNCHANGED <<boxSale, tierSold>>
  BY <1>2, <1>3, <1>4, <1>5, <1>6, BoxTypes
<1>13. /\ entered' \subseteq BoxTickets
       /\ \A t \in entered' : ticket'[t].status = "checked_in"
  BY <1>3, <1>5, <1>6, BoxTypes DEF BoxInv
<1> QED
  BY ONLY <1>3, <1>5, <1>6, <1>10, <1>11, <1>12, <1>13, TxnCommits

\* Every step at the till keeps the tally within the counter and the places.
THEOREM BoxInvariant == BoxSpec => []BoxInv
<1>1. BoxInit => BoxInv
  <2> SUFFICES ASSUME BoxInit PROVE BoxInv
    OBVIOUS
  <2>1. BoxTypeOK
    BY BoxAssumption DEF BoxInit, BoxTypeOK, NoSaleRow
  <2>2. Sure = {} /\ GivenBack = {} /\ \A s \in BoxSales : RefundedOf(s) = {}
    BY DEF BoxInit, Sure, GivenBack, RefundedOf
  <2>3. Cardinality({}) = 0
    BY FS_EmptySet
  <2>4. \A k \in BoxDesks :
           ~IsSeller(counterJob[k]) /\ counterJob[k].op \notin {"refund", "checkin"}
    BY DEF BoxInit, IsSeller, AtRest
  <2>5. Net = 0
    BY <2>2, <2>3 DEF Net
  <2>6. \A s \in BoxSales : boxSale[s].refunded = Cardinality(RefundedOf(s))
    BY <2>2, <2>3 DEF BoxInit, NoSaleRow
  <2>7. /\ Net <= tierSold /\ Net <= TierQuantity /\ lost = {} /\ entered = {}
        /\ \A t \in BoxTickets : ticket[t].sale = NoBoxSale
    BY <2>5, BoxAssumption DEF BoxInit
  <2> QED
    BY <2>1, <2>4, <2>6, <2>7 DEF BoxInv
<1>2. BoxInv /\ [BoxNext]_boxVars => BoxInv'
  <2> SUFFICES ASSUME BoxInv, [BoxNext]_boxVars PROVE BoxInv'
    OBVIOUS
  <2>1. CASE UNCHANGED boxVars
    <3>1. UNCHANGED <<ticket, boxSale, tierSold, lost, crowd, counterJob, entered>>
      BY <2>1 DEF boxVars
    <3>2. Net' = Net
      BY <3>1 DEF Net, Sure, Doubtful, GivenBack, IsSeller
    <3>3. BoxTypeOK'
      BY <3>1 DEF BoxInv, BoxTypeOK
    <3>4. \A s \in BoxSales : (boxSale[s].refunded)' = Cardinality(RefundedOf(s))'
      BY <3>1 DEF BoxInv, RefundedOf
    <3>5. \A k \in BoxDesks : (counterJob[k].op)' \in {"refund", "checkin"} =>
             TxnFresh(counterJob[k])'
      BY <3>1 DEF BoxInv, TxnFresh
    <3>6. \A k \in BoxDesks : IsSeller(counterJob[k])' =>
             SellerRows(counterJob[k])' /\ SellerFits(counterJob[k])'
      <4> SUFFICES ASSUME NEW k \in BoxDesks, IsSeller(counterJob[k])
                   PROVE  SellerRows(counterJob[k])' /\ SellerFits(counterJob[k])'
        BY <3>1 DEF IsSeller
      <4>1. SellerRows(counterJob[k]) /\ SellerFits(counterJob[k])
        BY SellerJobTyped
      <4>2. SellerRows(counterJob[k])'
        BY <3>1, <4>1 DEF SellerRows, Unminted
      <4>3. Brings(counterJob[k])' = Brings(counterJob[k])
        BY <3>1 DEF Brings
      <4>4. SellerFits(counterJob[k])'
        BY <3>1, <3>2, <4>1, <4>3 DEF SellerFits
      <4> QED
        BY <4>2, <4>4
    <3>7. \A k, x \in BoxDesks :
             k # x /\ IsSeller(counterJob[k])' /\ IsSeller(counterJob[x])' =>
                /\ counterJob'[k].tickets \cap counterJob'[x].tickets = {}
                /\ counterJob'[k].tickets \subseteq crowd'
      BY <3>1 DEF BoxInv, IsSeller
    <3>8. /\ Net' <= tierSold' /\ Net' <= TierQuantity
          /\ \A t \in BoxTickets : ticket'[t].status = "none" =>
                ticket'[t].sale = NoBoxSale
          /\ \A t \in lost' : ticket'[t].status # "none"
          /\ \A t \in entered' : ticket'[t].status = "checked_in"
      BY <3>1, <3>2 DEF BoxInv
    <3> QED
      BY <3>3, <3>4, <3>5, <3>6, <3>7, <3>8 DEF BoxInv
  <2>2. ASSUME NEW k \in BoxDesks, NEW op \in {"sell", "batch"},
               NEW s \in BoxSales, NEW ts \in (SUBSET BoxTickets) \ {{}},
               StartSale(k, op, s, ts)
        PROVE  BoxInv'
    BY <2>2, StartSaleKeeps
  <2>3. ASSUME NEW k \in BoxDesks,
               \/ ChargeBuyer(k) \/ MintOne(k) \/ SaveRow(k) \/ LinkSale(k)
               \/ ReadTier(k) \/ SaveTier(k) \/ CommitSale(k) \/ SellerDies(k)
        PROVE  BoxInv'
    BY <2>3, ChargeBuyerKeeps, MintOneKeeps, SaveRowKeeps, LinkSaleKeeps, ReadTierKeeps,
       SaveTierKeeps, CommitSaleKeeps, SellerDiesKeeps
  <2>4. ASSUME NEW k \in BoxDesks, NEW op \in {"refund", "checkin"},
               NEW t \in BoxTickets, BeginTicketTxn(k, op, t)
        PROVE  BoxInv'
    BY <2>4, BeginTicketTxnKeeps
  <2>5. ASSUME NEW k \in BoxDesks,
               \/ HoldDocs(k) \/ CommitRefund(k) \/ CommitCheckIn(k)
               \/ TicketTxnFails(k)
        PROVE  BoxInv'
    BY <2>5, HoldDocsKeeps, CommitRefundKeeps, CommitCheckInKeeps,
       TicketTxnFailsKeeps
  <2>6. CASE BoxNext
    BY <2>2, <2>3, <2>4, <2>5, <2>6 DEF BoxNext
  <2> QED
    BY <2>1, <2>6
<1> QED
  BY <1>1, <1>2, PTL DEF BoxSpec

\* What is live and sure is what the counter knows of; a seller that is alone has
\* places for the rest, and one that is not sells to the crowd.
LEMMA LivePlaces ==
    ASSUME BoxInv
    PROVE  Cardinality(Live) <= TierQuantity + Cardinality(lost \cup crowd)
<1> DEFINE past == lost \cup crowd
           minted == Live \cup GivenBack
<1>1. /\ Live \in SUBSET BoxTickets /\ GivenBack \in SUBSET BoxTickets
      /\ past \in SUBSET BoxTickets /\ Sure \in SUBSET BoxTickets
      /\ minted \in SUBSET BoxTickets
  BY BoxTypes DEF Live, GivenBack, Sure
<1>2. /\ Cardinality(Live) \in Nat /\ Cardinality(GivenBack) \in Nat
      /\ Cardinality(past) \in Nat /\ Cardinality(Sure) \in Nat
      /\ Cardinality(minted) \in Nat /\ TierQuantity \in Nat
  BY <1>1, TicketSets, BoxTypes
<1>3. Cardinality(minted) = Cardinality(Live) + Cardinality(GivenBack)
  <2>1. Live \cap GivenBack = {}
    BY DEF Live, GivenBack
  <2> QED
    BY <1>1, <2>1, TicketSetsAdd
<1>4. Cardinality(Sure) <= Cardinality(GivenBack) + TierQuantity
      /\ Net = Cardinality(Sure) - Cardinality(GivenBack)
  BY <1>2 DEF BoxInv, Net
<1>5. ASSUME NEW A \in SUBSET BoxTickets, minted \subseteq Sure \cup (past \cup A),
             Net + Cardinality(A) <= TierQuantity
      PROVE  Cardinality(Live) <= TierQuantity + Cardinality(past)
  <2>1. past \cup A \in SUBSET BoxTickets /\ Sure \cup (past \cup A) \in SUBSET BoxTickets
    BY <1>1
  <2>2. Cardinality(minted) <= Cardinality(Sure \cup (past \cup A))
    BY <1>1, <1>5, <2>1, TicketSetsAdd
  <2>3. Cardinality(Sure \cup (past \cup A)) <= Cardinality(Sure) + Cardinality(past \cup A)
    BY <1>1, <2>1, TicketSetsAdd
  <2>4. Cardinality(past \cup A) <= Cardinality(past) + Cardinality(A)
    BY <1>1, TicketSetsAdd
  <2>5. /\ Cardinality(past \cup A) \in Nat /\ Cardinality(A) \in Nat
        /\ Cardinality(Sure \cup (past \cup A)) \in Nat
    BY <2>1, TicketSets
  <2> HIDE DEF past, minted
  <2> QED
    BY <1>2, <1>3, <1>4, <1>5, <2>2, <2>3, <2>4, <2>5
<1>6. ASSUME NEW t \in minted, t \notin Sure, t \notin past
      PROVE  \E k \in BoxDesks : IsSeller(counterJob[k]) /\ t \in counterJob[k].tickets
  <2>1. t \in BoxTickets /\ ticket[t].status # "none"
    BY <1>1 DEF Live, GivenBack
  <2>2. t \in Doubtful
    BY <1>6, <2>1, TallyIs
  <2> QED
    BY <1>6, <2>2, DoubtfulIs
<1>7. ASSUME \A k \in BoxDesks : ~IsSeller(counterJob[k])
      PROVE  Cardinality(Live) <= TierQuantity + Cardinality(past)
  <2>1. PICK A \in SUBSET BoxTickets : A = {}
    OBVIOUS
  <2>2. minted \subseteq Sure \cup (past \cup A)
    BY <1>6, <1>7
  <2>3. Cardinality(A) = 0
    BY <2>1, FS_EmptySet
  <2>4. Net + Cardinality(A) <= TierQuantity
    BY <1>2, <1>4, <2>3
  <2> HIDE DEF past, minted
  <2> QED
    BY <1>5, <2>2, <2>4
<1>8. ASSUME NEW k \in BoxDesks, IsSeller(counterJob[k])
      PROVE  Cardinality(Live) <= TierQuantity + Cardinality(past)
  <2>1. PICK A : A = Brings(counterJob[k])
    OBVIOUS
  <2>2. A \in SUBSET BoxTickets /\ Net + Cardinality(A) <= TierQuantity
    BY <1>8, <2>1, SellerJobTyped DEF SellerFits
  <2>3. ASSUME NEW t \in minted, t \notin Sure, t \notin past PROVE t \in A
    <3>1. PICK x \in BoxDesks : IsSeller(counterJob[x]) /\ t \in counterJob[x].tickets
      BY <1>6, <2>3
    <3>2. CASE x = k
      BY <2>1, <2>3, <3>1, <3>2 DEF Brings
    <3>3. CASE x # k
      BY <1>8, <2>3, <3>1, <3>3, SellersApart
    <3> QED
      BY <3>2, <3>3
  <2>4. minted \subseteq Sure \cup (past \cup A)
    BY <2>3
  <2> HIDE DEF past, minted
  <2> QED
    BY <1>5, <2>2, <2>4
<1> QED
  BY <1>7, <1>8

\* Admission and money agree, and a tier's live tickets pass its places by no more
\* than those of dead batches and of sales made beside another, however many sales,
\* refunds and scans overlap (sellTickets, issueWristbandBatch, refundTicket,
\* checkInTicket).
THEOREM CounterAlwaysAddsUp == BoxSpec => []CounterAddsUp
<1>1. ASSUME BoxInv PROVE CounterAddsUp
  <2>1. Cardinality(Live) <= TierQuantity + Cardinality(lost \cup crowd)
    BY <1>1, LivePlaces
  <2> QED
    BY <1>1, <2>1 DEF BoxInv, CounterAddsUp, RefundedOf
<1> QED
  BY <1>1, BoxInvariant, PTL

-----------------------------------------------------------------------------
(* Bands.                                                                  *)

Back == {"regate", "reclaim", "reaudit", "reundo", "report"}
Claimed == {"audit", "reaudit", "undo", "reundo"}

\* The tag that a job is binding: the old one again once a reissue goes back.
WantedBy(j) == IF j.at \in Back \ {"report"} THEN j.old ELSE j.tag

\* Only a reissue that found a tag goes back, and only a retirement flips a row.
JobShaped(j) ==
    /\ j.w = NoWallet => j.at = "flip"
    /\ j.at = "flip" => j.op = "retire"
    /\ j.at \in Back => j.op = "reissue" /\ j.old # NoTag
    /\ j.op # "unbind" => j.tag # NoTag
    /\ j.op = "unbind" => j.at = "stamp"
    /\ j.op = "handout" => j.at \in {"claim", "audit"}

OpenRows(tag) == IF tag = NoTag THEN <<>> ELSE <<tag>>

\* Job j released or claimed wallet w and still has its second write to make.
OwedBy(j, w) == j # NoJob /\ j.at \in {"stamp"} \cup Claimed /\ j.w = w

\* What such a job finds: a wallet without a tag and one open row to stamp, or its
\* own tag and no row yet.
JobAgrees(j, tag, rows) ==
    IF j.at = "stamp" THEN tag = NoTag /\ Len(rows) = 1
                      ELSE tag = WantedBy(j) /\ rows = <<>>

\* Wallets for which no write failed for good and whose writes were not crossed.
Clean == made \ (gaps \cup crossed)

\* Nobody but the job at desk k owes w a write.
OnlyOwedBy(k, w) == \A x \in TagDesks \ {k} : ~OwedBy(desk[x], w)

BandInv ==
    /\ BandTypeOK
    /\ \A k \in TagDesks : desk[k] # NoJob =>
          /\ JobShaped(desk[k])
          /\ desk[k].w # NoWallet /\ ~(desk[k].op = "handout" /\ desk[k].at = "claim") =>
                desk[k].w \in made
    /\ \A k \in TagDesks, w \in Clean : OwedBy(desk[k], w) =>
          JobAgrees(desk[k], worn[w], trail[w]) /\ OnlyOwedBy(k, w)
    /\ \A w \in BandWallets \ made : worn[w] = NoTag /\ trail[w] = <<>>
    /\ TrailMatchesBand

\* A reissue at desk k that ends, without a report, with a wallet whose writes were
\* not crossed and did not fail ends with a tag.
ReissueEndsWell(k) ==
    (/\ desk[k] # NoJob /\ desk'[k] = NoJob
     /\ desk[k].op = "reissue" /\ desk[k].old # NoTag
     /\ desk[k].w \notin gaps' \cup crossed'
     /\ desk[k].at \notin {"release", "report"})
    => worn'[desk[k].w] \in {desk[k].old, desk[k].tag}

\* What every step keeps.
BandKeeps == BandInv' /\ \A x \in TagDesks : ReissueEndsWell(x)

\* Desk k goes on to job j, and the others stay with theirs.
DeskBecomes(k, j) ==
    /\ desk' \in [TagDesks -> TagJobs]
    /\ desk'[k] = j
    /\ \A x \in TagDesks \ {k} : desk'[x] = desk[x]

LEMMA OwedIs ==
    ASSUME NEW w
    PROVE  /\ Owed(w) <=> \E k \in TagDesks : OwedBy(desk[k], w)
           /\ Owed(w)' <=> \E k \in TagDesks : OwedBy(desk'[k], w)
BY DEF Owed, OwedBy, At, Claimed

LEMMA JobFields ==
    ASSUME NEW j \in TagJobs, j # NoJob
    PROVE  /\ j.op \in Ops /\ j.at \in Stages
           /\ j.w \in BandWallets \cup {NoWallet}
           /\ j.tag \in Tags \cup {NoTag} /\ j.old \in Tags \cup {NoTag}
BY DEF TagJobs

LEMMA TakeBecomes ==
    ASSUME desk \in [TagDesks -> TagJobs], NEW k \in TagDesks,
           NEW j \in TagJobs, Take(k, j), jobs \in 0..MaxJobs
    PROVE  DeskBecomes(k, j) /\ desk[k] = NoJob /\ jobs' \in 0..MaxJobs
<1>1. DeskBecomes(k, j) /\ desk[k] = NoJob
  BY DEF Take, DeskBecomes
<1>2. jobs' \in 0..MaxJobs
  BY BandAssumption DEF Take
<1> QED
  BY <1>1, <1>2

LEMMA FinishBecomes ==
    ASSUME desk \in [TagDesks -> TagJobs], NEW k \in TagDesks, Finish(k)
    PROVE  DeskBecomes(k, NoJob)
BY DEF Finish, DeskBecomes, TagJobs

\* The job of desk k at another stage.
SameJobAt(i, j, at) ==
    /\ i \in TagJobs /\ i # NoJob
    /\ i.at = at /\ i.op = j.op /\ i.w = j.w /\ i.tag = j.tag /\ i.old = j.old

LEMMA ProceedBecomes ==
    ASSUME desk \in [TagDesks -> TagJobs], NEW k \in TagDesks, desk[k] # NoJob,
           NEW at \in Stages, Proceed(k, at)
    PROVE  DeskBecomes(k, desk'[k]) /\ SameJobAt(desk'[k], desk[k], at)
<1>1. desk[k] \in [op : Ops, at : Stages, w : BandWallets \cup {NoWallet},
                   tag : Tags \cup {NoTag}, old : Tags \cup {NoTag}]
  BY DEF TagJobs
<1> DEFINE i == [desk[k] EXCEPT !.at = at]
<1>2. desk' = [desk EXCEPT ![k] = i]
  BY DEF Proceed
<1>3. /\ i \in [op : Ops, at : Stages, w : BandWallets \cup {NoWallet},
                tag : Tags \cup {NoTag}, old : Tags \cup {NoTag}]
      /\ i.at = at /\ i.op = desk[k].op /\ i.w = desk[k].w
      /\ i.tag = desk[k].tag /\ i.old = desk[k].old
  BY <1>1
<1> HIDE DEF i
<1>4. i # NoJob
  BY <1>3 DEF Ops, NoJob
<1>5. i \in TagJobs
  BY <1>3 DEF TagJobs
<1>6. desk'[k] = i
  BY <1>2
<1>7. DeskBecomes(k, i)
  BY <1>2, <1>5 DEF DeskBecomes
<1> QED
  BY <1>3, <1>4, <1>5, <1>6, <1>7 DEF SameJobAt

\* Nothing of the wallets moves, and desk k owes nothing before or after.
LEMMA BandDeskReads ==
    ASSUME BandInv, BandTypeOK', NEW k \in TagDesks,
           DeskBecomes(k, desk'[k]),
           UNCHANGED <<made, worn, trail, gaps, crossed>>,
           \A w \in made : ~OwedBy(desk[k], w) /\ ~OwedBy(desk'[k], w),
           desk'[k] # NoJob =>
              /\ JobShaped(desk'[k])
              /\ desk'[k].w # NoWallet
                 /\ ~(desk'[k].op = "handout" /\ desk'[k].at = "claim") =>
                    desk'[k].w \in made,
           ReissueEndsWell(k)
    PROVE  BandKeeps
<1>1. \A x \in TagDesks \ {k} : desk'[x] = desk[x]
  BY DEF DeskBecomes
<1>2. ASSUME NEW x \in TagDesks, desk'[x] # NoJob
      PROVE  /\ JobShaped(desk'[x])
             /\ desk'[x].w # NoWallet
                /\ ~(desk'[x].op = "handout" /\ desk'[x].at = "claim") =>
                   desk'[x].w \in made'
  BY <1>1, <1>2 DEF BandInv
<1>3. Clean' = Clean /\ \A w \in Clean : w \in made
  BY DEF Clean
<1>4. ASSUME NEW x \in TagDesks, NEW w \in Clean, OwedBy(desk'[x], w)
      PROVE  JobAgrees(desk'[x], worn'[w], trail'[w]) /\ OnlyOwedBy(x, w)'
  <2>1. x # k /\ desk'[x] = desk[x]
    BY <1>1, <1>3, <1>4
  <2>2. JobAgrees(desk[x], worn[w], trail[w]) /\ OnlyOwedBy(x, w)
    BY <1>4, <2>1 DEF BandInv
  <2> QED
    BY <1>1, <1>3, <2>1, <2>2 DEF OnlyOwedBy
<1>5. ASSUME NEW w \in Clean, ~Owed(w)'
      PROVE  trail'[w] = IF worn'[w] = NoTag THEN <<>> ELSE <<worn'[w]>>
  <2>1. ~Owed(w)
    BY <1>1, <1>3, <1>5, OwedIs
  <2> QED
    BY <2>1 DEF BandInv, TrailMatchesBand, Clean
<1>6. TrailMatchesBand'
  BY <1>3, <1>5 DEF TrailMatchesBand, Clean
<1>7. BandInv'
  BY <1>2, <1>3, <1>4, <1>6 DEF BandInv
<1>8. \A x \in TagDesks : ReissueEndsWell(x)
  BY <1>1 DEF ReissueEndsWell
<1> QED
  BY <1>7, <1>8 DEF BandKeeps

\* Wallet w moves, and no other: no desk but k owes it a write, unless it is not
\* clean any more, and the job at k leaves it as it promises.
LEMMA BandDeskWrites ==
    ASSUME BandInv, BandTypeOK', NEW k \in TagDesks, NEW w \in BandWallets,
           DeskBecomes(k, desk'[k]),
           \A v \in BandWallets \ {w} :
              /\ worn'[v] = worn[v] /\ trail'[v] = trail[v]
              /\ v \in made' <=> v \in made
              /\ v \in gaps' <=> v \in gaps
              /\ v \in crossed' <=> v \in crossed,
           made \subseteq made', w \in made',
           desk[k] # NoJob => desk[k].w = w,
           desk'[k] # NoJob =>
              desk'[k].w \in {w, NoWallet} /\ JobShaped(desk'[k]),
           w \in Clean' =>
              /\ OnlyOwedBy(k, w)
              /\ OwedBy(desk'[k], w) => JobAgrees(desk'[k], worn'[w], trail'[w])
              /\ ~OwedBy(desk'[k], w) => trail'[w] = OpenRows(worn'[w]),
           ReissueEndsWell(k)
    PROVE  BandKeeps
<1>1. \A x \in TagDesks \ {k} : desk'[x] = desk[x]
  BY DEF DeskBecomes
<1>2. ASSUME NEW x \in TagDesks, desk'[x] # NoJob
      PROVE  /\ JobShaped(desk'[x])
             /\ desk'[x].w # NoWallet
                /\ ~(desk'[x].op = "handout" /\ desk'[x].at = "claim") =>
                   desk'[x].w \in made'
  <2>1. CASE x = k
    BY <1>2, <2>1
  <2>2. CASE x # k
    BY <1>1, <1>2, <2>2 DEF BandInv
  <2> QED
    BY <2>1, <2>2
<1>3. \A v \in Clean' : v \in BandWallets /\ (v # w => v \in Clean)
  BY DEF Clean, BandTypeOK
<1>4. \A v \in BandWallets \ {w} : ~OwedBy(desk[k], v) /\ ~OwedBy(desk'[k], v)
  BY BandAssumption DEF OwedBy
<1>5. ASSUME NEW x \in TagDesks, NEW v \in Clean', OwedBy(desk'[x], v)
      PROVE  JobAgrees(desk'[x], worn'[v], trail'[v]) /\ OnlyOwedBy(x, v)'
  <2>1. CASE v = w
    <3>1. x = k
      BY <1>1, <1>5, <2>1 DEF OnlyOwedBy
    <3> QED
      BY <1>1, <1>5, <2>1, <3>1 DEF OnlyOwedBy
  <2>2. CASE v # w
    <3>1. x # k /\ desk'[x] = desk[x] /\ v \in Clean /\ v \in BandWallets \ {w}
      BY <1>1, <1>3, <1>4, <1>5, <2>2
    <3>2. JobAgrees(desk[x], worn[v], trail[v]) /\ OnlyOwedBy(x, v)
      BY <1>5, <3>1 DEF BandInv
    <3>3. JobAgrees(desk'[x], worn'[v], trail'[v])
      BY <3>1, <3>2
    <3> QED
      BY <1>1, <1>4, <3>1, <3>2, <3>3 DEF OnlyOwedBy
  <2> QED
    BY <2>1, <2>2
<1>6. ASSUME NEW v \in Clean', ~Owed(v)'
      PROVE  trail'[v] = IF worn'[v] = NoTag THEN <<>> ELSE <<worn'[v]>>
  <2>1. CASE v = w
    BY <1>6, <2>1, OwedIs DEF OpenRows
  <2>2. CASE v # w
    <3>1. v \in Clean /\ v \in BandWallets \ {w}
      BY <1>3, <2>2
    <3>2. ~Owed(v)
      BY <1>1, <1>4, <1>6, <3>1, OwedIs
    <3> QED
      BY <3>1, <3>2 DEF BandInv, TrailMatchesBand, Clean
  <2> QED
    BY <2>1, <2>2
<1>7. TrailMatchesBand'
  BY <1>6 DEF TrailMatchesBand, Clean
<1>8. \A v \in BandWallets \ made' : worn'[v] = NoTag /\ trail'[v] = <<>>
  BY DEF BandInv
<1>9. BandInv'
  BY <1>2, <1>5, <1>7, <1>8 DEF BandInv
<1>10. \A x \in TagDesks : ReissueEndsWell(x)
  BY <1>1 DEF ReissueEndsWell
<1> QED
  BY <1>9, <1>10 DEF BandKeeps

LEMMA BandTypes ==
    ASSUME BandInv
    PROVE  /\ made \subseteq BandWallets /\ frozen \subseteq made
           /\ gaps \subseteq made /\ crossed \subseteq made
           /\ failures \in 0..MaxFailures /\ jobs \in 0..MaxJobs
           /\ worn \in [BandWallets -> Tags \cup {NoTag}]
           /\ register \in [Tags -> {"absent", "active", "retired"}]
           /\ trail \in [BandWallets -> Seq(Tags)]
           /\ desk \in [TagDesks -> TagJobs]
           /\ NoTag \notin Tags /\ NoWallet \notin BandWallets
           /\ \A w \in BandWallets \ made : worn[w] = NoTag /\ trail[w] = <<>>
BY BandAssumption DEF BandInv, BandTypeOK

LEMMA JobFacts ==
    ASSUME BandInv, NEW k \in TagDesks, desk[k] # NoJob
    PROVE  /\ desk[k].op \in Ops /\ desk[k].at \in Stages
           /\ desk[k].w \in BandWallets \cup {NoWallet}
           /\ desk[k].tag \in Tags \cup {NoTag}
           /\ desk[k].old \in Tags \cup {NoTag}
           /\ JobShaped(desk[k])
           /\ desk[k].w # NoWallet /\ ~(desk[k].op = "handout" /\ desk[k].at = "claim") =>
                 desk[k].w \in made
<1>1. desk[k] \in TagJobs
  BY BandTypes
<1> QED
  BY <1>1, JobFields DEF BandInv

\* A clean wallet to which nobody owes a write.
LEMMA SettledWallet ==
    ASSUME BandInv, NEW w \in Clean, ~Owed(w)
    PROVE  /\ trail[w] = OpenRows(worn[w])
           /\ \A x \in TagDesks : ~OwedBy(desk[x], w)
BY OwedIs DEF BandInv, TrailMatchesBand, OpenRows, Clean

LEMMA WearIs ==
    ASSUME BandInv, NEW w \in BandWallets, NEW t \in Tags \cup {NoTag}, Wear(w, t)
    PROVE  /\ worn' \in [BandWallets -> Tags \cup {NoTag}] /\ worn'[w] = t
           /\ \A v \in BandWallets \ {w} : worn'[v] = worn[v]
BY BandTypes DEF Wear

\* Taking or giving a tag in the middle of another desk's writes is remembered.
LEMMA CrossIs ==
    ASSUME BandInv, NEW w \in made, Cross(w), UNCHANGED <<made, gaps>>
    PROVE  /\ crossed' \subseteq made /\ crossed \subseteq crossed'
           /\ \A v \in BandWallets \ {w} : v \in crossed' <=> v \in crossed
           /\ w \in Clean' => w \in Clean /\ ~Owed(w)
BY BandTypes DEF Cross, Clean

LEMMA JobOfIs ==
    ASSUME NEW op \in Ops, NEW w \in BandWallets \cup {NoWallet}, NEW at \in Stages,
           NEW t \in Tags \cup {NoTag}, NEW old \in Tags \cup {NoTag}
    PROVE  /\ JobOf(op, w, at, t, old) \in TagJobs /\ JobOf(op, w, at, t, old) # NoJob
           /\ JobOf(op, w, at, t, old).op = op /\ JobOf(op, w, at, t, old).w = w
           /\ JobOf(op, w, at, t, old).at = at /\ JobOf(op, w, at, t, old).tag = t
           /\ JobOf(op, w, at, t, old).old = old
<1>1. JobOf(op, w, at, t, old).op # "none"
  BY DEF JobOf, Ops
<1>2. JobOf(op, w, at, t, old) # NoJob
  BY <1>1 DEF NoJob
<1> QED
  BY <1>2 DEF JobOf, TagJobs

\* Steps that touch neither a wallet's tag, nor its trail, nor a job.
LEMMA BandStandsStill ==
    ASSUME BandInv, BandTypeOK',
           UNCHANGED <<made, worn, trail, desk, gaps, crossed>>
    PROVE  BandKeeps
<1>1. \A w : Owed(w)' <=> Owed(w)
  BY DEF Owed, At
<1>2. TrailMatchesBand' /\ Clean' = Clean
  BY <1>1 DEF BandInv, TrailMatchesBand, Clean
<1>3. \A k \in TagDesks : \A w : OnlyOwedBy(k, w)' <=> OnlyOwedBy(k, w)
  BY DEF OnlyOwedBy
<1> QED
  BY <1>2, <1>3 DEF BandInv, BandKeeps, ReissueEndsWell

\* A wallet made for a ticket wears nothing.
LEMMA MakeTicketWalletKeeps ==
    ASSUME BandInv, NEW w \in BandWallets, MakeTicketWallet(w)
    PROVE  BandKeeps
<1>1. BandTypeOK'
  BY BandTypes DEF MakeTicketWallet, BandTypeOK
<1>2. /\ UNCHANGED <<worn, trail, desk, gaps, crossed>> /\ made' = made \cup {w}
      /\ \A x \in TagDesks : ~OwedBy(desk[x], w)
      /\ worn[w] = NoTag /\ trail[w] = <<>>
  BY BandTypes DEF MakeTicketWallet, Busy, OwedBy
<1>3. \A v : Owed(v)' <=> Owed(v)
  BY <1>2 DEF Owed, At
<1>4. Clean' \subseteq Clean \cup {w}
  BY <1>2 DEF Clean
<1>5. TrailMatchesBand'
  <2> SUFFICES ASSUME NEW v \in Clean', ~Owed(v)'
               PROVE  trail'[v] = IF worn'[v] = NoTag THEN <<>> ELSE <<worn'[v]>>
    BY DEF TrailMatchesBand, Clean
  <2>1. CASE v = w
    BY <1>2, <2>1
  <2>2. CASE v \in Clean
    BY <1>2, <1>3, <2>2 DEF BandInv, TrailMatchesBand, Clean
  <2> QED
    BY <1>4, <2>1, <2>2
<1>6. ASSUME NEW k \in TagDesks, NEW v \in Clean', OwedBy(desk'[k], v)
      PROVE  JobAgrees(desk'[k], worn'[v], trail'[v]) /\ OnlyOwedBy(k, v)'
  <2>1. v \in Clean
    BY <1>2, <1>4, <1>6
  <2> QED
    BY <1>2, <1>6, <2>1 DEF BandInv, OnlyOwedBy
<1> QED
  BY <1>1, <1>2, <1>5, <1>6 DEF BandInv, BandKeeps, ReissueEndsWell

\* Enrolling a tag touches no wallet.
LEMMA RegisterTagKeeps ==
    ASSUME BandInv, NEW t \in Tags, RegisterTag(t)
    PROVE  BandKeeps
<1>1. BandTypeOK'
  BY BandTypes DEF RegisterTag, BandTypeOK
<1> QED
  BY <1>1, BandStandsStill DEF RegisterTag

\* A frozen wallet keeps its tag and its trail.
LEMMA FreezeKeeps ==
    ASSUME BandInv, NEW w \in BandWallets, Freeze(w)
    PROVE  BandKeeps
<1>1. BandTypeOK'
  BY BandTypes DEF Freeze, BandTypeOK
<1> QED
  BY <1>1, BandStandsStill DEF Freeze

\* So does one that is thawed.
LEMMA ThawKeeps ==
    ASSUME BandInv, NEW w \in BandWallets, Thaw(w)
    PROVE  BandKeeps
<1>1. BandTypeOK'
  BY BandTypes DEF Thaw, BandTypeOK
<1> QED
  BY <1>1, BandStandsStill DEF Thaw

\* An unbinding starts with the release of the wallet.
LEMMA StartUnbindKeeps ==
    ASSUME BandInv, NEW k \in TagDesks, NEW w \in BandWallets, StartUnbind(k, w)
    PROVE  BandKeeps
<1> DEFINE j == JobOf("unbind", w, "stamp", NoTag, NoTag)
<1>1. /\ j \in TagJobs /\ j # NoJob /\ j.op = "unbind" /\ j.w = w
      /\ j.at = "stamp" /\ j.tag = NoTag
  BY JobOfIs DEF Ops, Stages
<1>2. Take(k, j) /\ Wear(w, NoTag) /\ Cross(w) /\ w \in made /\ worn[w] # NoTag
      /\ UNCHANGED <<made, frozen, register, trail, gaps, failures>>
  BY DEF StartUnbind
<1> HIDE DEF j
<1>3. DeskBecomes(k, j) /\ desk[k] = NoJob /\ desk'[k] = j /\ jobs' \in 0..MaxJobs
  BY <1>1, <1>2, TakeBecomes, BandTypes DEF DeskBecomes
<1>4. /\ worn' \in [BandWallets -> Tags \cup {NoTag}] /\ worn'[w] = NoTag
      /\ \A v \in BandWallets \ {w} : worn'[v] = worn[v]
  BY <1>2, WearIs
<1>5. /\ crossed' \subseteq made
      /\ \A v \in BandWallets \ {w} : v \in crossed' <=> v \in crossed
      /\ w \in Clean' => w \in Clean /\ ~Owed(w)
  BY <1>2, CrossIs
<1>6. BandTypeOK'
  BY <1>2, <1>3, <1>4, <1>5, BandTypes DEF BandTypeOK, DeskBecomes
<1>7. w \in Clean' =>
         /\ OnlyOwedBy(k, w)
         /\ JobAgrees(j, worn'[w], trail'[w])
  <2> SUFFICES ASSUME w \in Clean'
               PROVE  OnlyOwedBy(k, w) /\ JobAgrees(j, worn'[w], trail'[w])
    OBVIOUS
  <2>1. trail[w] = <<worn[w]>> /\ OnlyOwedBy(k, w)
    BY <1>2, <1>5, SettledWallet DEF OpenRows, OnlyOwedBy
  <2>2. Len(<<worn[w]>>) = 1
    OBVIOUS
  <2> QED
    BY <1>1, <1>2, <1>4, <2>1, <2>2 DEF JobAgrees
<1>8. JobShaped(j) /\ OwedBy(j, w)
  BY <1>1, <1>2, BandTypes DEF JobShaped, OwedBy, Back
<1>9. ReissueEndsWell(k)
  BY <1>3 DEF ReissueEndsWell
<1> QED
  BY ONLY <1>1, <1>2, <1>3, <1>4, <1>5, <1>6, <1>7, <1>8, <1>9, BandDeskWrites, BandInv,
     k \in TagDesks, w \in BandWallets

\* A job begins that has written nothing yet.
LEMMA JobBeginsKeeps ==
    ASSUME BandInv, NEW k \in TagDesks, NEW j \in TagJobs, j # NoJob, Take(k, j),
           j.at \in {"gate", "release", "claim", "flip"}, JobShaped(j),
           j.w # NoWallet /\ ~(j.op = "handout" /\ j.at = "claim") => j.w \in made,
           UNCHANGED <<made, worn, frozen, register, trail, gaps, failures, crossed>>
    PROVE  BandKeeps
<1>1. DeskBecomes(k, j) /\ desk[k] = NoJob /\ desk'[k] = j /\ jobs' \in 0..MaxJobs
  BY TakeBecomes, BandTypes DEF DeskBecomes
<1>2. BandTypeOK'
  BY <1>1, BandTypes DEF BandTypeOK, DeskBecomes
<1>3. \A w \in made : ~OwedBy(desk[k], w) /\ ~OwedBy(desk'[k], w)
  BY <1>1 DEF OwedBy, Claimed
<1>4. ReissueEndsWell(k)
  BY <1>1 DEF ReissueEndsWell
<1> QED
  BY <1>1, <1>2, <1>3, <1>4, BandDeskReads

\* A bind starts at its gate.
LEMMA StartBindKeeps ==
    ASSUME BandInv, NEW k \in TagDesks, NEW w \in BandWallets, NEW t \in Tags,
           StartBind(k, w, t)
    PROVE  BandKeeps
<1> DEFINE j == JobOf("bind", w, "gate", t, NoTag)
<1>1. /\ j \in TagJobs /\ j # NoJob /\ j.op = "bind" /\ j.w = w
      /\ j.at = "gate" /\ j.tag = t /\ j.old = NoTag
  BY JobOfIs, BandTypes DEF Ops, Stages
<1>2. /\ Take(k, j) /\ w \in made
      /\ UNCHANGED <<made, worn, frozen, register, trail, gaps, failures, crossed>>
  BY DEF StartBind
<1> HIDE DEF j
<1>3. JobShaped(j)
  BY <1>1, <1>2, BandTypes DEF JobShaped, Back
<1> QED
  BY <1>1, <1>2, <1>3, JobBeginsKeeps

\* A reissue remembers the tag it found.
LEMMA StartReissueKeeps ==
    ASSUME BandInv, NEW k \in TagDesks, NEW w \in BandWallets, NEW t \in Tags,
           StartReissue(k, w, t)
    PROVE  BandKeeps
<1> DEFINE at == IF worn[w] = NoTag THEN "gate" ELSE "release"
<1> DEFINE j == JobOf("reissue", w, at, t, worn[w])
<1>1. /\ j \in TagJobs /\ j # NoJob /\ j.op = "reissue" /\ j.w = w
      /\ j.at = at /\ j.tag = t /\ j.old = worn[w]
  <2>1. at \in Stages /\ worn[w] \in Tags \cup {NoTag}
    BY BandTypes DEF Stages
  <2> HIDE DEF at
  <2> QED
    BY <2>1, JobOfIs DEF Ops
<1>2. /\ Take(k, j) /\ w \in made
      /\ UNCHANGED <<made, worn, frozen, register, trail, gaps, failures, crossed>>
  BY DEF StartReissue
<1>3. at \in {"gate", "release"}
  OBVIOUS
<1> HIDE DEF j, at
<1>4. JobShaped(j)
  BY <1>1, <1>2, <1>3, BandTypes DEF JobShaped, Back
<1> QED
  BY <1>1, <1>2, <1>3, <1>4, JobBeginsKeeps

\* A hand-out starts at a wallet that is not made yet.
LEMMA StartHandoutKeeps ==
    ASSUME BandInv, NEW k \in TagDesks, NEW w \in BandWallets, NEW t \in Tags,
           StartHandout(k, w, t)
    PROVE  BandKeeps
<1> DEFINE j == JobOf("handout", w, "claim", t, NoTag)
<1>1. /\ j \in TagJobs /\ j # NoJob /\ j.op = "handout" /\ j.w = w
      /\ j.at = "claim" /\ j.tag = t /\ j.old = NoTag
  BY JobOfIs, BandTypes DEF Ops, Stages
<1>2. /\ Take(k, j)
      /\ UNCHANGED <<made, worn, frozen, register, trail, gaps, failures, crossed>>
  BY DEF StartHandout
<1> HIDE DEF j
<1>3. JobShaped(j)
  BY <1>1, <1>2, BandTypes DEF JobShaped, Back
<1> QED
  BY <1>1, <1>2, <1>3, JobBeginsKeeps

\* A retirement looks up the wallet that wears the tag, if one does.
LEMMA StartRetireKeeps ==
    ASSUME BandInv, NEW k \in TagDesks, NEW t \in Tags, StartRetire(k, t)
    PROVE  BandKeeps
<1>1. PICK w \in BandWallets \cup {NoWallet}, at \in {"release", "flip"} :
         /\ Take(k, JobOf("retire", w, at, t, NoTag))
         /\ at = "release" => w \in made
         /\ at = "flip" => w = NoWallet
  BY BandTypes DEF StartRetire
<1> DEFINE j == JobOf("retire", w, at, t, NoTag)
<1>2. /\ j \in TagJobs /\ j # NoJob /\ j.op = "retire" /\ j.w = w
      /\ j.at = at /\ j.tag = t
  BY JobOfIs DEF Ops, Stages
<1>3. /\ Take(k, j)
      /\ UNCHANGED <<made, worn, frozen, register, trail, gaps, failures, crossed>>
  BY <1>1 DEF StartRetire
<1> HIDE DEF j
<1>4. JobShaped(j)
  BY <1>1, <1>2, BandTypes DEF JobShaped, Back
<1> QED
  BY <1>1, <1>2, <1>3, <1>4, JobBeginsKeeps

LEMMA BindFailsBecomes ==
    ASSUME BandInv, NEW k \in TagDesks, desk[k] # NoJob, BindFails(k)
    PROVE  /\ DeskBecomes(k, desk'[k])
           /\ desk'[k] = NoJob =>
                 ~(desk[k].op = "reissue" /\ desk[k].old # NoTag)
           /\ desk'[k] # NoJob =>
                 /\ desk[k].op = "reissue" /\ desk[k].old # NoTag
                 /\ \E at \in {"report", "regate"} :
                       SameJobAt(desk'[k], desk[k], at)
<1>1. CASE desk[k].op = "reissue" /\ desk[k].old # NoTag
  <2> DEFINE at == IF Restoring(k) THEN "report" ELSE "regate"
  <2>1. at \in Stages /\ at \in {"report", "regate"} /\ Proceed(k, at)
    BY <1>1 DEF BindFails, Stages
  <2> HIDE DEF at
  <2>2. DeskBecomes(k, desk'[k]) /\ SameJobAt(desk'[k], desk[k], at)
    BY <2>1, ProceedBecomes, BandTypes
  <2> QED
    BY <1>1, <2>1, <2>2 DEF SameJobAt
<1>2. CASE ~(desk[k].op = "reissue" /\ desk[k].old # NoTag)
  <2>1. Finish(k)
    BY <1>2 DEF BindFails
  <2>2. DeskBecomes(k, NoJob)
    BY <2>1, FinishBecomes, BandTypes
  <2> QED
    BY <1>2, <2>2 DEF DeskBecomes
<1> QED
  BY <1>1, <1>2

\* The job that a failed bind leaves owes nothing.
LEMMA BindFailsOwes ==
    ASSUME BandInv, NEW k \in TagDesks, desk[k] # NoJob, desk[k].at # "flip",
           BindFails(k)
    PROVE  /\ desk'[k] # NoJob => desk'[k].w = desk[k].w /\ JobShaped(desk'[k])
           /\ \A w : ~OwedBy(desk'[k], w)
           /\ desk'[k] # NoJob => desk[k].op = "reissue"
           /\ ReissueEndsWell(k)
<1>1. /\ desk'[k] = NoJob => ~(desk[k].op = "reissue" /\ desk[k].old # NoTag)
      /\ desk'[k] # NoJob =>
            /\ desk[k].op = "reissue" /\ desk[k].old # NoTag
            /\ \E at \in {"report", "regate"} : SameJobAt(desk'[k], desk[k], at)
  BY BindFailsBecomes
<1>2. JobShaped(desk[k])
  BY JobFacts
<1>3. desk'[k] # NoJob => desk'[k].w = desk[k].w /\ JobShaped(desk'[k])
  BY <1>1, <1>2 DEF SameJobAt, JobShaped, Back
<1>4. \A w : ~OwedBy(desk'[k], w)
  BY <1>1 DEF SameJobAt, OwedBy, Claimed
<1>5. ReissueEndsWell(k)
  BY <1>1 DEF ReissueEndsWell
<1> QED
  BY <1>1, <1>3, <1>4, <1>5

\* A bind is refused before it has written anything.
LEMMA BindRefusedKeeps ==
    ASSUME BandInv, BandTypeOK', NEW k \in TagDesks, desk[k] # NoJob,
           desk[k].at \in {"gate", "regate", "claim", "reclaim"}, desk[k].w \in made,
           BindFails(k), UNCHANGED <<made, worn, trail, gaps, crossed>>
    PROVE  BandKeeps
<1>1. \A w \in made : ~OwedBy(desk[k], w)
  BY DEF OwedBy, Claimed
<1>2. DeskBecomes(k, desk'[k])
  BY BindFailsBecomes
<1>3. /\ desk'[k] # NoJob => desk'[k].w = desk[k].w /\ JobShaped(desk'[k])
      /\ \A w : ~OwedBy(desk'[k], w)
      /\ ReissueEndsWell(k)
  BY BindFailsOwes
<1> QED
  BY <1>1, <1>2, <1>3, BandDeskReads

\* A job that is not a hand-out's claim, nor a retirement of a tag nobody wears,
\* is about a wallet there is; and what it owes a clean one it owes alone.
LEMMA JobHasWallet ==
    ASSUME BandInv, NEW k \in TagDesks, desk[k] # NoJob, desk[k].at # "flip",
           ~(desk[k].op = "handout" /\ desk[k].at = "claim")
    PROVE  /\ desk[k].w \in made /\ desk[k].w \in BandWallets
           /\ desk[k].w # NoWallet /\ JobShaped(desk[k])
           /\ desk[k].at \in {"stamp"} \cup Claimed /\ desk[k].w \in Clean =>
                 /\ JobAgrees(desk[k], worn[desk[k].w], trail[desk[k].w])
                 /\ OnlyOwedBy(k, desk[k].w)
<1>1. /\ desk[k].w \in made /\ desk[k].w \in BandWallets
      /\ desk[k].w # NoWallet /\ JobShaped(desk[k])
  BY JobFacts, BandTypes DEF JobShaped
<1>2. desk[k].at \in {"stamp"} \cup Claimed => OwedBy(desk[k], desk[k].w)
  BY DEF OwedBy
<1> QED
  BY <1>1, <1>2 DEF BandInv

\* The row of a retired tag is flipped last.
LEMMA FlipRowKeeps ==
    ASSUME BandInv, NEW k \in TagDesks, FlipRow(k)
    PROVE  BandKeeps
<1>1. desk[k] # NoJob /\ desk[k].at = "flip" /\ Finish(k)
      /\ UNCHANGED <<made, worn, frozen, trail, gaps, failures, crossed, jobs>>
  BY DEF FlipRow, At
<1>2. JobShaped(desk[k]) /\ desk[k].tag \in Tags \cup {NoTag}
  BY <1>1, JobFacts
<1>3. DeskBecomes(k, NoJob) /\ desk'[k] = NoJob
  BY <1>1, FinishBecomes, BandTypes DEF DeskBecomes
<1>4. BandTypeOK'
  BY <1>1, <1>3, BandTypes DEF BandTypeOK, DeskBecomes, FlipRow
<1>5. ReissueEndsWell(k)
  BY <1>1, <1>2 DEF ReissueEndsWell, JobShaped
<1>6. \A w \in made : ~OwedBy(desk[k], w) /\ ~OwedBy(desk'[k], w)
  BY <1>1, <1>3 DEF OwedBy, Claimed
<1> QED
  BY <1>1, <1>3, <1>4, <1>5, <1>6, BandDeskReads

\* A reissue or a retirement releases whatever is there by now.
LEMMA ReleaseKeeps ==
    ASSUME BandInv, NEW k \in TagDesks, Release(k)
    PROVE  BandKeeps
<1> DEFINE w == desk[k].w
<1>1. desk[k] # NoJob /\ desk[k].at = "release"
      /\ UNCHANGED <<made, frozen, register, trail, gaps, failures, jobs>>
  BY DEF Release, At
<1>2. w \in made /\ w \in BandWallets /\ w # NoWallet /\ JobShaped(desk[k])
  BY <1>1, JobHasWallet
<1>3. CASE worn[w] # NoTag
  <2>1. Wear(w, NoTag) /\ Cross(w) /\ Proceed(k, "stamp")
    BY <1>3 DEF Release
  <2>2. /\ worn' \in [BandWallets -> Tags \cup {NoTag}] /\ worn'[w] = NoTag
        /\ \A v \in BandWallets \ {w} : worn'[v] = worn[v]
    BY <1>2, <2>1, WearIs
  <2>3. DeskBecomes(k, desk'[k]) /\ SameJobAt(desk'[k], desk[k], "stamp")
    BY <1>1, <2>1, ProceedBecomes, BandTypes DEF Stages
  <2>4. /\ crossed' \subseteq made
        /\ \A v \in BandWallets \ {w} : v \in crossed' <=> v \in crossed
        /\ w \in Clean' => w \in Clean /\ ~Owed(w)
    BY <1>1, <1>2, <2>1, CrossIs
  <2>5. BandTypeOK'
    BY <1>1, <2>2, <2>3, <2>4, BandTypes DEF BandTypeOK, DeskBecomes
  <2> HIDE DEF w
  <2>6. w \in Clean' =>
           OnlyOwedBy(k, w) /\ JobAgrees(desk'[k], worn'[w], trail'[w])
    <3> SUFFICES ASSUME w \in Clean'
                 PROVE  OnlyOwedBy(k, w) /\ JobAgrees(desk'[k], worn'[w], trail'[w])
      OBVIOUS
    <3>1. trail[w] = <<worn[w]>> /\ OnlyOwedBy(k, w)
      BY <1>3, <2>4, SettledWallet DEF OpenRows, OnlyOwedBy
    <3>2. Len(<<worn[w]>>) = 1
      OBVIOUS
    <3> QED
      BY <1>1, <2>2, <2>3, <3>1, <3>2 DEF JobAgrees, SameJobAt
  <2>7. /\ desk'[k] # NoJob /\ desk'[k].w = w /\ JobShaped(desk'[k])
        /\ OwedBy(desk'[k], w)
    BY <1>1, <1>2, <2>3 DEF SameJobAt, JobShaped, OwedBy, Back, w
  <2>8. ReissueEndsWell(k)
    BY <2>7 DEF ReissueEndsWell
  <2>9. desk[k].w = w
    BY DEF w
  <2> QED
    BY ONLY <1>1, <1>2, <2>2, <2>3, <2>4, <2>5, <2>6, <2>7, <2>8, <2>9, BandDeskWrites,
       BandInv, k \in TagDesks
<1>4. CASE worn[w] = NoTag
  <2>1. Finish(k) /\ worn' = worn /\ crossed' = crossed
    BY <1>4 DEF Release
  <2>2. DeskBecomes(k, NoJob) /\ desk'[k] = NoJob
    BY <2>1, FinishBecomes, BandTypes DEF DeskBecomes
  <2>3. BandTypeOK'
    BY <1>1, <2>1, <2>2, BandTypes DEF BandTypeOK, DeskBecomes
  <2>4. ReissueEndsWell(k)
    BY <1>1 DEF ReissueEndsWell
  <2>5. \A v \in made : ~OwedBy(desk[k], v) /\ ~OwedBy(desk'[k], v)
    BY <1>1, <2>2 DEF OwedBy, Claimed
  <2> QED
    BY <1>1, <2>1, <2>2, <2>3, <2>4, <2>5, BandDeskReads
<1> QED
  BY <1>3, <1>4

LEMMA FrontOfRows ==
    ASSUME NEW s \in Seq(Tags), s # <<>>
    PROVE  Front(s) \in Seq(Tags) /\ (Len(s) = 1 => Front(s) = <<>>)
<1>1. Len(s) \in Nat /\ Len(s) # 0
  BY EmptySeq
<1>2. Len(s) - 1 <= Len(s) /\ Len(s) - 1 \in Nat
  BY <1>1
<1>3. SubSeq(s, 1, Len(s) - 1) \in Seq(Tags)
  BY <1>1, <1>2, SubSeqProperties
<1>4. Len(s) = 1 => SubSeq(s, 1, Len(s) - 1) = <<>>
  BY <1>1, SubSeqEmpty
<1> QED
  BY <1>3, <1>4 DEF Front

\* The stamp closes the one open row.
LEMMA StampKeeps ==
    ASSUME BandInv, NEW k \in TagDesks, Stamp(k)
    PROVE  BandKeeps
<1> DEFINE w == desk[k].w
<1>1. desk[k] # NoJob /\ desk[k].at = "stamp" /\ CloseNewest(w) /\ AfterStamp(k)
      /\ UNCHANGED <<made, worn, frozen, register, gaps, failures, crossed, jobs>>
  BY DEF Stamp, At
<1>2. /\ w \in made /\ w \in BandWallets /\ w # NoWallet /\ JobShaped(desk[k])
      /\ w \in Clean =>
            worn[w] = NoTag /\ Len(trail[w]) = 1 /\ OnlyOwedBy(k, w)
  BY <1>1, JobHasWallet DEF JobAgrees
<1>3. /\ trail'[w] \in Seq(Tags)
      /\ w \in Clean => trail'[w] = <<>>
  <2>1. trail'[w] = IF trail[w] = <<>> THEN trail[w] ELSE Front(trail[w])
    BY <1>1, <1>2, BandTypes DEF CloseNewest
  <2>2. trail[w] \in Seq(Tags)
    BY <1>2, BandTypes
  <2> QED
    BY <1>2, <2>1, <2>2, FrontOfRows
<1>4. /\ trail' \in [BandWallets -> Seq(Tags)]
      /\ \A v \in BandWallets \ {w} : trail'[v] = trail[v]
  BY <1>1, <1>2, <1>3, BandTypes DEF CloseNewest
<1>5. /\ DeskBecomes(k, desk'[k])
      /\ desk'[k] # NoJob =>
            \/ SameJobAt(desk'[k], desk[k], "flip") /\ desk[k].op = "retire"
            \/ SameJobAt(desk'[k], desk[k], "gate") /\ desk[k].op = "reissue"
      /\ desk'[k] = NoJob => desk[k].op # "reissue"
  <2>1. CASE desk[k].op = "retire"
    BY <1>1, <2>1, ProceedBecomes, BandTypes DEF AfterStamp, Stages, SameJobAt
  <2>2. CASE desk[k].op = "reissue"
    BY <1>1, <2>2, ProceedBecomes, BandTypes DEF AfterStamp, Stages, SameJobAt
  <2>3. CASE desk[k].op \notin {"retire", "reissue"}
    <3>1. DeskBecomes(k, NoJob)
      BY <1>1, <2>3, FinishBecomes, BandTypes DEF AfterStamp
    <3> QED
      BY <2>3, <3>1 DEF DeskBecomes
  <2> QED
    BY <2>1, <2>2, <2>3
<1>6. BandTypeOK'
  BY <1>1, <1>4, <1>5, BandTypes DEF BandTypeOK, DeskBecomes
<1>7. /\ desk'[k] # NoJob => desk'[k].w = w /\ JobShaped(desk'[k])
      /\ ~OwedBy(desk'[k], w)
  BY <1>1, <1>2, <1>5 DEF SameJobAt, JobShaped, OwedBy, Claimed, Back
<1>8. ReissueEndsWell(k)
  BY <1>5 DEF ReissueEndsWell
<1>9. w \in Clean' => OnlyOwedBy(k, w) /\ trail'[w] = OpenRows(worn'[w])
  BY <1>1, <1>2, <1>3 DEF OpenRows, Clean
<1>10. desk[k].w = w
  OBVIOUS
<1> HIDE DEF w
<1> QED
  BY ONLY <1>1, <1>2, <1>4, <1>5, <1>6, <1>7, <1>8, <1>9, <1>10, BandDeskWrites,
     BandInv, k \in TagDesks

\* A stamp that fails is reported.
LEMMA StampFailsKeeps ==
    ASSUME BandInv, NEW k \in TagDesks, StampFails(k)
    PROVE  BandKeeps
<1> DEFINE w == desk[k].w
<1>1. desk[k] # NoJob /\ desk[k].at = "stamp" /\ Finish(k) /\ WriteFails
      /\ gaps' = gaps \cup {w}
      /\ UNCHANGED <<made, worn, frozen, register, trail, crossed, jobs>>
  BY DEF StampFails, At
<1>2. w \in made /\ w \in BandWallets /\ w # NoWallet
  BY <1>1, JobHasWallet
<1>3. DeskBecomes(k, NoJob) /\ desk'[k] = NoJob
  BY <1>1, FinishBecomes, BandTypes DEF DeskBecomes
<1>4. BandTypeOK'
  BY <1>1, <1>2, <1>3, BandTypes, BandAssumption
     DEF BandTypeOK, DeskBecomes, WriteFails
<1>5. ReissueEndsWell(k)
  BY <1>1 DEF ReissueEndsWell
<1>6. w \notin Clean'
  BY <1>1 DEF Clean
<1>7. desk[k].w = w
  OBVIOUS
<1> HIDE DEF w
<1> QED
  BY <1>1, <1>2, <1>3, <1>4, <1>5, <1>6, <1>7, BandDeskWrites

\* What an attempt binds, in the words of the module.
LEMMA WantedIs ==
    ASSUME BandInv, NEW k \in TagDesks, desk[k] # NoJob,
           desk[k].at # "stamp"
    PROVE  /\ Wanted(k) = WantedBy(desk[k]) /\ Wanted(k) \in Tags
           /\ Wanted(k) \in {desk[k].old, desk[k].tag}
           /\ Restoring(k) <=> desk[k].at \in Back \ {"report"}
BY JobFacts DEF Wanted, WantedBy, Restoring, At, Back, JobShaped

\* The register refuses the tag, or the claim is next.
LEMMA GateKeeps ==
    ASSUME BandInv, NEW k \in TagDesks, Gate(k)
    PROVE  BandKeeps
<1>1. desk[k] # NoJob /\ desk[k].at \in {"gate", "regate"}
      /\ UNCHANGED <<made, worn, frozen, register, trail, gaps, failures, crossed, jobs>>
  BY DEF Gate, At
<1>2. desk[k].w \in made /\ JobShaped(desk[k])
  BY <1>1, JobHasWallet
<1>3. CASE Registered(Wanted(k))
  <2> DEFINE at == IF Restoring(k) THEN "reclaim" ELSE "claim"
  <2>1. at \in Stages /\ Proceed(k, at) /\ at \in {"claim", "reclaim"}
        /\ (at = "reclaim" => desk[k].at = "regate")
    BY <1>1, <1>3 DEF Gate, Stages, Restoring, At
  <2> HIDE DEF at
  <2>2. DeskBecomes(k, desk'[k]) /\ SameJobAt(desk'[k], desk[k], at)
    BY <1>1, <2>1, ProceedBecomes, BandTypes
  <2>3. BandTypeOK'
    BY <1>1, <2>2, BandTypes DEF BandTypeOK, DeskBecomes
  <2>4. desk'[k] # NoJob /\ desk'[k].w \in made /\ JobShaped(desk'[k])
    BY <1>1, <1>2, <2>1, <2>2 DEF SameJobAt, JobShaped, Back
  <2>5. \A v \in made : ~OwedBy(desk[k], v) /\ ~OwedBy(desk'[k], v)
    BY <1>1, <2>1, <2>2 DEF OwedBy, Claimed, SameJobAt
  <2>6. ReissueEndsWell(k)
    BY <2>4 DEF ReissueEndsWell
  <2> QED
    BY <1>1, <2>2, <2>3, <2>4, <2>5, <2>6, BandDeskReads
<1>4. CASE ~Registered(Wanted(k))
  <2>1. BindFails(k)
    BY <1>4 DEF Gate
  <2>2. BandTypeOK'
    BY <1>1, <2>1, BindFailsBecomes, BandTypes DEF BandTypeOK, DeskBecomes
  <2> QED
    BY <1>1, <1>2, <2>1, <2>2, BindRefusedKeeps
<1> QED
  BY <1>3, <1>4

\* A claim waits for its row, or gives way.
LEMMA ClaimKeeps ==
    ASSUME BandInv, NEW k \in TagDesks, desk[k].op # "handout", Claim(k)
    PROVE  BandKeeps
<1> DEFINE w == desk[k].w
           t == Wanted(k)
<1>1. desk[k] # NoJob /\ desk[k].at \in {"claim", "reclaim"}
      /\ UNCHANGED <<made, frozen, register, trail, gaps, failures, jobs>>
  BY DEF Claim, At
<1>2. w \in made /\ w \in BandWallets /\ w # NoWallet /\ JobShaped(desk[k])
  BY <1>1, JobHasWallet
<1>3. /\ t = WantedBy(desk[k]) /\ t \in Tags
      /\ Restoring(k) <=> desk[k].at = "reclaim"
  BY <1>1, WantedIs DEF Back
<1>4. CASE w \notin frozen /\ worn[w] = NoTag /\ ~OthersWear(w, t)
  <2> DEFINE at == IF Restoring(k) THEN "reaudit" ELSE "audit"
  <2>1. /\ at \in Stages /\ Proceed(k, at) /\ Wear(w, t) /\ Cross(w)
        /\ at \in {"audit", "reaudit"}
        /\ at = "reaudit" <=> desk[k].at = "reclaim"
    BY <1>1, <1>3, <1>4 DEF Claim, Stages
  <2> HIDE DEF at
  <2>2. DeskBecomes(k, desk'[k]) /\ SameJobAt(desk'[k], desk[k], at)
    BY <1>1, <2>1, ProceedBecomes, BandTypes
  <2>3. /\ worn' \in [BandWallets -> Tags \cup {NoTag}] /\ worn'[w] = t
        /\ \A v \in BandWallets \ {w} : worn'[v] = worn[v]
    BY <1>2, <1>3, <2>1, WearIs
  <2>4. /\ crossed' \subseteq made
        /\ \A v \in BandWallets \ {w} : v \in crossed' <=> v \in crossed
        /\ w \in Clean' => w \in Clean /\ ~Owed(w)
    BY <1>1, <1>2, <2>1, CrossIs
  <2>5. BandTypeOK'
    BY <1>1, <2>2, <2>3, <2>4, BandTypes DEF BandTypeOK, DeskBecomes
  <2>6. t = WantedBy(desk'[k])
    BY <1>1, <1>3, <2>1, <2>2 DEF SameJobAt, WantedBy, Back
  <2>10. desk[k].w = w
    OBVIOUS
  <2> HIDE DEF w, t
  <2>7. w \in Clean' =>
           OnlyOwedBy(k, w) /\ JobAgrees(desk'[k], worn'[w], trail'[w])
    <3> SUFFICES ASSUME w \in Clean'
                 PROVE  OnlyOwedBy(k, w) /\ JobAgrees(desk'[k], worn'[w], trail'[w])
      OBVIOUS
    <3>1. trail[w] = <<>> /\ OnlyOwedBy(k, w)
      BY <1>4, <2>4, SettledWallet DEF OpenRows, OnlyOwedBy
    <3> QED
      BY <1>1, <2>1, <2>2, <2>3, <2>6, <3>1 DEF JobAgrees, SameJobAt
  <2>8. /\ desk'[k] # NoJob /\ desk'[k].w = w /\ JobShaped(desk'[k])
        /\ OwedBy(desk'[k], w)
    BY <1>1, <1>2, <2>1, <2>2, <2>10
       DEF SameJobAt, JobShaped, OwedBy, Claimed, Back
  <2>9. ReissueEndsWell(k)
    BY <2>8 DEF ReissueEndsWell
  <2> QED
    BY ONLY <1>1, <1>2, <2>2, <2>3, <2>4, <2>5, <2>7, <2>8, <2>9, <2>10,
       BandDeskWrites, BandInv, k \in TagDesks
<1>5. CASE ~(w \notin frozen /\ worn[w] = NoTag /\ ~OthersWear(w, t))
  <2>1. BindFails(k) /\ worn' = worn /\ crossed' = crossed
    BY <1>5 DEF Claim
  <2>2. BandTypeOK'
    BY <1>1, <2>1, BindFailsBecomes, BandTypes DEF BandTypeOK, DeskBecomes
  <2> QED
    BY <1>1, <1>2, <2>1, <2>2, BindRefusedKeeps
<1> QED
  BY <1>4, <1>5

\* Nobody owes a wallet that is not made.
LEMMA UnmadeUnowed ==
    ASSUME BandInv, NEW w \in BandWallets \ made, NEW x \in TagDesks
    PROVE  ~OwedBy(desk[x], w)
BY JobFacts, BandTypes DEF OwedBy, Claimed

\* A hand-out makes its wallet with the tag on, unless another was first.
LEMMA HandoutKeeps ==
    ASSUME BandInv, NEW k \in TagDesks, Handout(k)
    PROVE  BandKeeps
<1> DEFINE w == desk[k].w
           t == desk[k].tag
<1>1. desk[k] # NoJob /\ desk[k].at = "claim" /\ desk[k].op = "handout"
      /\ UNCHANGED <<frozen, register, trail, gaps, failures, crossed, jobs>>
  BY DEF Handout, At
<1>2. w \in BandWallets /\ w # NoWallet /\ JobShaped(desk[k]) /\ t \in Tags
  BY <1>1, JobFacts DEF JobShaped
<1>3. CASE w \notin made /\ \A v \in made : worn[v] # t
  <2>1. made' = made \cup {w} /\ Wear(w, t) /\ Proceed(k, "audit")
    BY <1>3 DEF Handout
  <2>2. DeskBecomes(k, desk'[k]) /\ SameJobAt(desk'[k], desk[k], "audit")
    BY <1>1, <2>1, ProceedBecomes, BandTypes DEF Stages
  <2>3. /\ worn' \in [BandWallets -> Tags \cup {NoTag}] /\ worn'[w] = t
        /\ \A v \in BandWallets \ {w} : worn'[v] = worn[v]
    BY <1>2, <2>1, WearIs
  <2>4. BandTypeOK'
    BY <1>1, <1>2, <2>1, <2>2, <2>3, BandTypes DEF BandTypeOK, DeskBecomes
  <2>5. trail[w] = <<>> /\ OnlyOwedBy(k, w)
    BY <1>2, <1>3, BandTypes, UnmadeUnowed DEF OnlyOwedBy
  <2>6. t = WantedBy(desk'[k])
    BY <2>2 DEF SameJobAt, WantedBy, Back
  <2>7. /\ desk'[k] # NoJob /\ desk'[k].w = w /\ JobShaped(desk'[k])
        /\ JobAgrees(desk'[k], worn'[w], trail'[w]) /\ OwedBy(desk'[k], w)
    <3> HIDE DEF t
    <3> QED
      BY <1>1, <1>2, <2>2, <2>3, <2>5, <2>6
         DEF SameJobAt, JobShaped, JobAgrees, OwedBy, Claimed, Back
  <2>8. ReissueEndsWell(k)
    BY <2>7 DEF ReissueEndsWell
  <2>9. /\ w \in made' /\ made \subseteq made' /\ desk[k].w = w
        /\ \A v \in BandWallets \ {w} : v \in made' <=> v \in made
    BY <2>1
  <2> HIDE DEF w, t
  <2> QED
    BY ONLY <1>1, <1>2, <2>2, <2>3, <2>4, <2>5, <2>7, <2>8, <2>9, BandDeskWrites,
       BandInv, k \in TagDesks
<1>4. CASE ~(w \notin made /\ \A v \in made : worn[v] # t)
  <2>1. Finish(k) /\ UNCHANGED <<made, worn>>
    BY <1>4 DEF Handout
  <2>2. DeskBecomes(k, NoJob) /\ desk'[k] = NoJob
    BY <2>1, FinishBecomes, BandTypes DEF DeskBecomes
  <2>3. BandTypeOK'
    BY <1>1, <2>1, <2>2, BandTypes DEF BandTypeOK, DeskBecomes
  <2>4. ReissueEndsWell(k)
    BY <1>1 DEF ReissueEndsWell
  <2>5. \A v \in made : ~OwedBy(desk[k], v) /\ ~OwedBy(desk'[k], v)
    BY <1>1, <2>2 DEF OwedBy, Claimed
  <2> QED
    BY <1>1, <2>1, <2>2, <2>3, <2>4, <2>5, BandDeskReads
<1> QED
  BY <1>3, <1>4

\* A report ends the job.
LEMMA ReportKeeps ==
    ASSUME BandInv, NEW k \in TagDesks, Report(k)
    PROVE  BandKeeps
<1>1. desk[k] # NoJob /\ desk[k].at = "report" /\ Finish(k)
      /\ UNCHANGED <<made, worn, frozen, register, trail, gaps, failures, crossed, jobs>>
  BY DEF Report, At
<1>2. DeskBecomes(k, NoJob) /\ desk'[k] = NoJob
  BY <1>1, FinishBecomes, BandTypes DEF DeskBecomes
<1>3. BandTypeOK'
  BY <1>1, <1>2, BandTypes DEF BandTypeOK, DeskBecomes
<1>4. ReissueEndsWell(k)
  BY <1>1 DEF ReissueEndsWell
<1>5. \A v \in made : ~OwedBy(desk[k], v) /\ ~OwedBy(desk'[k], v)
  BY <1>1, <1>2 DEF OwedBy, Claimed
<1> QED
  BY <1>1, <1>2, <1>3, <1>4, <1>5, BandDeskReads

\* The row of a claim is written: the trail is the tag on.
LEMMA AuditKeeps ==
    ASSUME BandInv, NEW k \in TagDesks, Audit(k)
    PROVE  BandKeeps
<1> DEFINE w == desk[k].w
           t == Wanted(k)
<1>1. /\ desk[k] # NoJob /\ desk[k].at \in {"audit", "reaudit"} /\ Finish(k)
      /\ trail' = [trail EXCEPT ![w] = Append(@, t)]
      /\ UNCHANGED <<made, worn, frozen, register, gaps, failures, crossed, jobs>>
  BY DEF Audit, At
<1>2. /\ w \in made /\ w \in BandWallets /\ w # NoWallet
      /\ w \in Clean =>
            worn[w] = WantedBy(desk[k]) /\ trail[w] = <<>> /\ OnlyOwedBy(k, w)
  BY <1>1, JobHasWallet DEF JobAgrees, Claimed
<1>3. t = WantedBy(desk[k]) /\ t \in Tags /\ t \in {desk[k].old, desk[k].tag}
  BY <1>1, WantedIs
<1>4. DeskBecomes(k, NoJob) /\ desk'[k] = NoJob
  BY <1>1, FinishBecomes, BandTypes DEF DeskBecomes
<1>9. desk[k].w = w
  OBVIOUS
<1> HIDE DEF w, t
<1>5. /\ trail' \in [BandWallets -> Seq(Tags)]
      /\ trail'[w] = Append(trail[w], t)
      /\ \A v \in BandWallets \ {w} : trail'[v] = trail[v]
  BY <1>1, <1>2, <1>3, BandTypes
<1>6. w \in Clean' => OnlyOwedBy(k, w) /\ trail'[w] = OpenRows(worn'[w])
  BY <1>1, <1>2, <1>3, <1>5, BandTypes DEF OpenRows, Clean
<1>7. BandTypeOK'
  BY <1>1, <1>4, <1>5, BandTypes DEF BandTypeOK, DeskBecomes
<1>8. ReissueEndsWell(k)
  BY <1>1, <1>2, <1>3, <1>9 DEF ReissueEndsWell, Clean
<1>10. ~OwedBy(desk'[k], w)
  BY <1>4 DEF OwedBy
<1> QED
  BY ONLY <1>1, <1>2, <1>4, <1>5, <1>6, <1>7, <1>8, <1>9, <1>10, BandDeskWrites,
     BandInv, k \in TagDesks

\* The row of a claim cannot be written: the claim is undone next, except that a
\* hand-out leaves a gap.
LEMMA AuditFailsKeeps ==
    ASSUME BandInv, NEW k \in TagDesks, AuditFails(k)
    PROVE  BandKeeps
<1> DEFINE w == desk[k].w
<1>1. /\ desk[k] # NoJob /\ desk[k].at \in {"audit", "reaudit"} /\ WriteFails
      /\ UNCHANGED <<made, worn, frozen, register, trail, crossed, jobs>>
  BY DEF AuditFails, At
<1>2. /\ w \in made /\ w \in BandWallets /\ w # NoWallet /\ JobShaped(desk[k])
      /\ w \in Clean =>
            worn[w] = WantedBy(desk[k]) /\ trail[w] = <<>> /\ OnlyOwedBy(k, w)
  BY <1>1, JobHasWallet DEF JobAgrees, Claimed
<1>3. failures' \in 0..MaxFailures
  BY <1>1, BandTypes, BandAssumption DEF WriteFails
<1>6. desk[k].w = w
  OBVIOUS
<1>4. CASE desk[k].op = "handout"
  <2>1. Finish(k) /\ gaps' = gaps \cup {w}
    BY <1>4 DEF AuditFails
  <2>2. DeskBecomes(k, NoJob) /\ desk'[k] = NoJob
    BY <2>1, FinishBecomes, BandTypes DEF DeskBecomes
  <2>3. BandTypeOK'
    BY <1>1, <1>2, <1>3, <2>1, <2>2, BandTypes DEF BandTypeOK, DeskBecomes
  <2>4. ReissueEndsWell(k)
    BY <1>4 DEF ReissueEndsWell
  <2>5. w \notin Clean'
    BY <2>1 DEF Clean
  <2> HIDE DEF w
  <2> QED
    BY <1>1, <1>2, <1>6, <2>1, <2>2, <2>3, <2>4, <2>5, BandDeskWrites
<1>5. CASE desk[k].op # "handout"
  <2> DEFINE at == IF Restoring(k) THEN "reundo" ELSE "undo"
  <2>1. /\ at \in Stages /\ Proceed(k, at) /\ gaps' = gaps
        /\ at \in {"undo", "reundo"}
        /\ at = "reundo" <=> desk[k].at = "reaudit"
    BY <1>1, <1>5 DEF AuditFails, Stages, Restoring, At
  <2> HIDE DEF at
  <2>2. DeskBecomes(k, desk'[k]) /\ SameJobAt(desk'[k], desk[k], at)
    BY <1>1, <2>1, ProceedBecomes, BandTypes
  <2>3. BandTypeOK'
    BY <1>1, <1>3, <2>1, <2>2, BandTypes DEF BandTypeOK, DeskBecomes
  <2>4. WantedBy(desk'[k]) = WantedBy(desk[k])
    BY <1>1, <2>1, <2>2 DEF SameJobAt, WantedBy, Back
  <2>5. /\ desk'[k] # NoJob /\ desk'[k].w = w /\ JobShaped(desk'[k])
        /\ OwedBy(desk'[k], w)
    BY <1>1, <1>2, <1>5, <2>1, <2>2
       DEF SameJobAt, JobShaped, OwedBy, Claimed, Back
  <2> HIDE DEF w
  <2>6. w \in Clean' =>
           OnlyOwedBy(k, w) /\ JobAgrees(desk'[k], worn'[w], trail'[w])
    BY <1>1, <1>2, <2>1, <2>2, <2>4 DEF Clean, JobAgrees, SameJobAt
  <2>7. ReissueEndsWell(k)
    BY <2>5 DEF ReissueEndsWell
  <2> QED
    BY ONLY <1>1, <1>2, <1>6, <2>1, <2>2, <2>3, <2>5, <2>6, <2>7, BandDeskWrites,
       BandInv, k \in TagDesks
<1> QED
  BY <1>4, <1>5

\* A claim that is undone takes off the tag it put on.
LEMMA UndoClaimKeeps ==
    ASSUME BandInv, NEW k \in TagDesks, UndoClaim(k)
    PROVE  BandKeeps
<1> DEFINE w == desk[k].w
           t == Wanted(k)
<1>1. /\ desk[k] # NoJob /\ desk[k].at \in {"undo", "reundo"} /\ BindFails(k)
      /\ worn' = [worn EXCEPT ![w] = IF @ = t THEN NoTag ELSE @]
      /\ UNCHANGED <<made, frozen, register, trail, gaps, failures, crossed, jobs>>
  BY DEF UndoClaim, At
<1>2. /\ w \in made /\ w \in BandWallets
      /\ w \in Clean =>
            worn[w] = WantedBy(desk[k]) /\ trail[w] = <<>> /\ OnlyOwedBy(k, w)
  BY <1>1, JobHasWallet DEF JobAgrees, Claimed
<1>3. t = WantedBy(desk[k])
  BY <1>1, WantedIs
<1>4. desk[k].w = w
  OBVIOUS
<1> HIDE DEF w, t
<1>5. /\ worn' \in [BandWallets -> Tags \cup {NoTag}]
      /\ worn'[w] = IF worn[w] = t THEN NoTag ELSE worn[w]
      /\ \A v \in BandWallets \ {w} : worn'[v] = worn[v]
  BY <1>1, <1>2, BandTypes
<1>6. BandTypeOK' /\ DeskBecomes(k, desk'[k])
  BY <1>1, <1>5, BindFailsBecomes, BandTypes DEF BandTypeOK, DeskBecomes
<1>7. w \in Clean' => OnlyOwedBy(k, w) /\ trail'[w] = OpenRows(worn'[w])
  BY <1>1, <1>2, <1>3, <1>5 DEF OpenRows, Clean
<1>8. /\ desk'[k] # NoJob => desk'[k].w = w /\ JobShaped(desk'[k])
      /\ ~OwedBy(desk'[k], w) /\ ReissueEndsWell(k)
  BY <1>1, <1>4, BindFailsOwes
<1> QED
  BY ONLY <1>1, <1>2, <1>4, <1>5, <1>6, <1>7, <1>8, BandDeskWrites, BandInv,
     k \in TagDesks

\* A claim that cannot be undone is reported.
LEMMA UndoFailsKeeps ==
    ASSUME BandInv, NEW k \in TagDesks, UndoFails(k)
    PROVE  BandKeeps
<1>1. /\ desk[k] # NoJob /\ desk[k].at \in {"undo", "reundo"} /\ BindFails(k)
      /\ WriteFails /\ gaps' = gaps \cup {desk[k].w}
      /\ UNCHANGED <<made, worn, frozen, register, trail, crossed, jobs>>
  BY DEF UndoFails, At
<1>2. desk[k].w \in made /\ desk[k].w \in BandWallets
  BY <1>1, JobHasWallet
<1>3. failures' \in 0..MaxFailures
  BY <1>1, BandTypes, BandAssumption DEF WriteFails
<1>4. BandTypeOK' /\ DeskBecomes(k, desk'[k])
  BY <1>1, <1>2, <1>3, BindFailsBecomes, BandTypes DEF BandTypeOK, DeskBecomes
<1>5. /\ desk'[k] # NoJob => desk'[k].w = desk[k].w /\ JobShaped(desk'[k])
      /\ ReissueEndsWell(k)
  BY <1>1, BindFailsOwes
<1>6. desk[k].w \notin Clean'
  BY <1>1 DEF Clean
<1> QED
  BY <1>1, <1>2, <1>4, <1>5, <1>6, BandDeskWrites

\* Every step of the register keeps the invariant, and no reissue strands a wallet.
LEMMA BandStepKeeps ==
    ASSUME BandInv, BandNext
    PROVE  BandKeeps
<1>1. ASSUME NEW t \in Tags, RegisterTag(t) PROVE BandKeeps
  BY <1>1, RegisterTagKeeps
<1>2. ASSUME NEW w \in BandWallets,
             MakeTicketWallet(w) \/ Freeze(w) \/ Thaw(w)
      PROVE  BandKeeps
  BY <1>2, MakeTicketWalletKeeps, FreezeKeeps, ThawKeeps
<1>3. ASSUME NEW k \in TagDesks, NEW t \in Tags, StartRetire(k, t)
      PROVE  BandKeeps
  BY <1>3, StartRetireKeeps
<1>4. ASSUME NEW k \in TagDesks, NEW w \in BandWallets, StartUnbind(k, w)
      PROVE  BandKeeps
  BY <1>4, StartUnbindKeeps
<1>5. ASSUME NEW k \in TagDesks, NEW w \in BandWallets, NEW t \in Tags,
             StartBind(k, w, t) \/ StartReissue(k, w, t) \/ StartHandout(k, w, t)
      PROVE  BandKeeps
  BY <1>5, StartBindKeeps, StartReissueKeeps, StartHandoutKeeps
<1>6. ASSUME NEW k \in TagDesks, DeskStep(k) PROVE BandKeeps
  BY <1>6, FlipRowKeeps, ReleaseKeeps, StampKeeps, StampFailsKeeps, GateKeeps,
     ClaimKeeps, HandoutKeeps, ReportKeeps, AuditKeeps, AuditFailsKeeps,
     UndoClaimKeeps, UndoFailsKeeps DEF DeskStep
<1> QED
  BY <1>1, <1>2, <1>3, <1>4, <1>5, <1>6 DEF BandNext

\* What the desks owe agrees with the wallets, however many desks work on one and
\* however writes fail, until a desk crosses another's writes.
THEOREM BandInvariant == BandSpec => []BandInv
<1>1. BandInit => BandInv
  <2> SUFFICES ASSUME BandInit PROVE BandInv
    OBVIOUS
  <2>1. BandTypeOK
    BY BandAssumption DEF BandInit, BandTypeOK, TagJobs
  <2> QED
    BY <2>1 DEF BandInit, BandInv, TrailMatchesBand, Clean
<1>2. BandInv /\ [BandNext]_bandVars => BandInv'
  <2>1. ASSUME BandInv, UNCHANGED bandVars PROVE BandInv'
    <3>1. BandTypeOK' /\ UNCHANGED <<made, worn, trail, desk, gaps, crossed>>
      BY <2>1 DEF bandVars, BandInv, BandTypeOK
    <3> QED
      BY <2>1, <3>1, BandStandsStill DEF BandKeeps
  <2> QED
    BY <2>1, BandStepKeeps DEF BandKeeps
<1> QED
  BY <1>1, <1>2, PTL DEF BandSpec

\* Which band was live on a wallet stays answerable while desks race on it: unless
\* one took or gave a tag between another's two writes, or a write failed for good,
\* its open rows are the tag it wears once nobody owes it a write (bindBand,
\* unbindBand, reissueBand, retireTag).
THEOREM TrailAlwaysMatches == BandSpec => []TrailMatchesBand
<1>1. BandInv => TrailMatchesBand
  BY DEF BandInv
<1> QED
  BY <1>1, BandInvariant, PTL

\* A reissue of a wallet whose writes were not crossed and did not fail leaves it,
\* unless it reports, with its old tag or the new one, whatever else is going on
\* (reissueBand and its restoration).
THEOREM ReissueNeverStrands == BandSpec => ReissueKeepsATag
<1>1. BandInv /\ [BandNext]_bandVars =>
         [\A k \in TagDesks : ReissueEndsWell(k)]_bandVars
  BY BandStepKeeps DEF BandKeeps
<1>2. BandSpec => [][\A k \in TagDesks : ReissueEndsWell(k)]_bandVars
  BY <1>1, BandInvariant, PTL DEF BandSpec
<1> QED
  BY <1>2 DEF ReissueKeepsATag, ReissueEndsWell

-----------------------------------------------------------------------------
(* The running bill of a venue adds up.                                       *)

TotalApplied == SumFunctionOnSet(payments, PaymentIds)
LinesOf(m) == { l \in OnBill : l[2] = m }

(* A payment in flight that finds the revision it read finds its bill.        *)
TillsCurrent ==
    \A h \in Tills : till[h] # NoTill =>
       /\ till[h].applied > 0
       /\ till[h].seen.paid + till[h].applied <= till[h].seen.subtotal
       /\ till[h].seen.rev <= bill.rev
       /\ till[h].seen.rev = bill.rev =>
             /\ till[h].seen.subtotal = bill.subtotal
             /\ till[h].items \subseteq OnBill
             /\ \A m \in BarStalls : till[h].shares[m] = Cardinality(LinesOf(m))

LinesOrdered == \A l \in Line : lines[l] = "off" <=> orders[l] = "none"

Lines ==
    /\ bill.subtotal = Cardinality(OnBill)
    /\ \A m \in BarStalls : onHand[m] + Cardinality(LinesOf(m)) = Shelf

Money ==
    /\ bill.paid = TotalApplied
    /\ bill.status = "open" /\ bill.paid > 0 => bill.paid < bill.subtotal
    /\ bill.status = "settled" =>
          /\ bill.paid = bill.subtotal
          /\ \A m \in BarStalls : takings[m] = Cardinality(LinesOf(m))
    /\ bill.status # "settled" => \A m \in BarStalls : takings[m] = 0

VenueInv == VenueTypeOK /\ TillsCurrent /\ LinesOrdered /\ Lines /\ Money

LEMMA LinesFinite ==
    /\ IsFiniteSet(Line)
    /\ \A S \in SUBSET Line : IsFiniteSet(S) /\ Cardinality(S) \in Nat
    /\ IsFiniteSet(OnBill) /\ Cardinality(OnBill) \in Nat
    /\ \A m : IsFiniteSet(LinesOf(m)) /\ Cardinality(LinesOf(m)) \in Nat
<1>1. IsFiniteSet(Line)
  BY VenueAssumption, FS_Product DEF Line
<1>2. \A S \in SUBSET Line : IsFiniteSet(S) /\ Cardinality(S) \in Nat
  BY <1>1, FS_Subset, FS_CardinalityType
<1>3. OnBill \subseteq Line /\ \A m : LinesOf(m) \subseteq Line
  BY DEF OnBill, LinesOf
<1> QED
  BY <1>1, <1>2, <1>3

(* The bill is a record of numbers. *)
LEMMA BillShape ==
    ASSUME VenueTypeOK
    PROVE  /\ bill = [status |-> bill.status, subtotal |-> bill.subtotal,
                      paid |-> bill.paid, rev |-> bill.rev]
           /\ bill.subtotal \in Int /\ bill.paid \in Nat /\ bill.rev \in Nat
           /\ bill.status \in {"open", "settled", "voided"}
BY DEF VenueTypeOK, Bill

(* A payment's record says what it read. *)
LEMMA TillShapes ==
    ASSUME VenueTypeOK, NEW h \in Tills, till[h] # NoTill
    PROVE  /\ till[h].id \in PaymentIds /\ till[h].applied \in Nat
           /\ till[h].items \in SUBSET Line /\ till[h].shares \in [BarStalls -> Nat]
           /\ till[h].seen.subtotal \in Int /\ till[h].seen.paid \in Nat
           /\ till[h].seen.rev \in Nat
BY DEF VenueTypeOK, Bill

LEMMA VenueStart == VenueInit => VenueInv
<1> SUFFICES ASSUME VenueInit PROVE VenueInv
  OBVIOUS
<1> USE DEF VenueInit
<1>1. VenueTypeOK
  <2>1. Shelf \in 0..Shelf
    BY VenueAssumption
  <2>2. bill \in Bill
    BY DEF Bill
  <2> QED
    BY <2>1, <2>2 DEF VenueTypeOK
<1>2. OnBill = {} /\ (\A m : LinesOf(m) = {}) /\ Cardinality({}) = 0
  BY FS_EmptySet DEF OnBill, LinesOf
<1>3. TillsCurrent /\ LinesOrdered
  BY DEF TillsCurrent, LinesOrdered
<1>4. Lines
  BY <1>2, VenueAssumption DEF Lines
<1>5. TotalApplied = 0
  BY VenueAssumption, SumOfZeros DEF TotalApplied
<1> QED
  BY <1>1, <1>3, <1>4, <1>5 DEF VenueInv, Money

LEMMA SendStep ==
    ASSUME VenueInv, NEW r \in Rounds, NEW stalls \in SUBSET BarStalls,
           SendOrder(r, stalls)
    PROVE  VenueInv'
<1> USE DEF VenueInv, SendOrder
<1> DEFINE sent == {r} \X stalls
<1>1. PICK S \in SUBSET Line : S = sent
  BY DEF Line
<1>2. /\ \A l \in Line : lines'[l] = IF l \in S THEN "unpaid" ELSE lines[l]
      /\ \A l \in Line : orders'[l] = IF l \in S THEN "sent" ELSE orders[l]
      /\ lines' \in [Line -> {"off", "unpaid", "paid"}]
      /\ orders' \in [Line -> {"none", "sent", "handed_out", "collected"}]
  BY <1>1 DEF VenueTypeOK
<1>3. S \cap OnBill = {}
  <2> SUFFICES ASSUME NEW l \in S PROVE l \notin OnBill
    OBVIOUS
  <2>1. PICK m \in BarStalls : l = <<r, m>>
    BY <1>1
  <2>2. orders[l] = "none"
    BY <2>1 DEF SentAlready
  <2> QED
    BY <2>2 DEF LinesOrdered, OnBill
<1>4. OnBill' = OnBill \cup S
  BY <1>2 DEF OnBill
<1>5. Cardinality(S) = Cardinality(stalls) /\ Cardinality(stalls) \in Nat
  <2>1. IsFiniteSet(stalls) /\ Cardinality(stalls) \in Nat
    BY VenueAssumption, FS_Subset, FS_CardinalityType
  <2>2. IsFiniteSet({r}) /\ Cardinality({r}) = 1
    BY FS_Singleton
  <2>3. Cardinality(S) = Cardinality({r}) * Cardinality(stalls)
    BY <1>1, <2>1, <2>2, FS_Product
  <2> QED
    BY ONLY <2>1, <2>2, <2>3
<1>6. Cardinality(OnBill') = Cardinality(OnBill) + Cardinality(stalls)
  <2>1. /\ IsFiniteSet(S) /\ IsFiniteSet(OnBill) /\ Cardinality(OnBill) \in Nat
        /\ Cardinality(S \cap OnBill) = 0 /\ OnBill \cap S = S \cap OnBill
    BY <1>3, LinesFinite, FS_EmptySet
  <2>2. Cardinality(OnBill \cup S) = Cardinality(OnBill) + Cardinality(S) - 0
    BY <2>1, FS_Union
  <2> QED
    BY <1>4, <1>5, <2>1, <2>2
<1>7. \A m \in BarStalls :
         Cardinality(LinesOf(m)') = IF m \in stalls THEN Cardinality(LinesOf(m)) + 1
                                    ELSE Cardinality(LinesOf(m))
  <2> TAKE m \in BarStalls
  <2>1. CASE m \in stalls
    <3>1. LinesOf(m)' = LinesOf(m) \cup {<<r, m>>}
      BY <1>1, <1>4, <2>1 DEF LinesOf
    <3>2. <<r, m>> \notin LinesOf(m)
      BY <1>1, <1>3, <2>1 DEF LinesOf
    <3> QED
      BY <2>1, <3>1, <3>2, LinesFinite, FS_AddElement
  <2>2. CASE m \notin stalls
    <3>1. LinesOf(m)' = LinesOf(m)
      BY <1>1, <1>4, <2>2 DEF LinesOf
    <3> QED
      BY <2>2, <3>1
  <2> QED
    BY <2>1, <2>2
<1>8. /\ bill'.subtotal = bill.subtotal + Cardinality(stalls) /\ bill'.rev = bill.rev + 1
      /\ bill'.paid = bill.paid /\ bill'.status = "open" /\ bill' \in Bill
  <2>1. PICK a \in Int : a = bill.subtotal + Cardinality(stalls)
    BY <1>5, BillShape
  <2>2. PICK n \in Nat : n = bill.rev + 1
    BY BillShape
  <2>3. bill' = [bill EXCEPT !.subtotal = a, !.rev = n] /\ bill \in Bill
    BY <2>1, <2>2 DEF VenueTypeOK
  <2>4. /\ bill'.subtotal = a /\ bill'.rev = n /\ bill'.paid = bill.paid
        /\ bill'.status = bill.status /\ bill' \in Bill
    BY ONLY <2>3, a \in Int, n \in Nat DEF Bill
  <2> QED
    BY <2>1, <2>2, <2>4
<1>9. /\ \A m \in BarStalls :
            /\ onHand[m] \in 0..Shelf
            /\ onHand'[m] = IF m \in stalls THEN onHand[m] - 1 ELSE onHand[m]
            /\ onHand'[m] \in 0..Shelf
      /\ onHand' \in [BarStalls -> 0..Shelf]
  <2>1. \A m \in BarStalls : onHand[m] \in 0..Shelf
    BY DEF VenueTypeOK
  <2>2. \A m \in BarStalls :
            /\ onHand'[m] = IF m \in stalls THEN onHand[m] - 1 ELSE onHand[m]
            /\ onHand'[m] \in 0..Shelf
    BY <2>1, VenueAssumption
  <2> QED
    BY <2>1, <2>2
<1>10. VenueTypeOK'
  BY <1>2, <1>8, <1>9 DEF VenueTypeOK
<1>11. LinesOrdered'
  BY <1>2 DEF LinesOrdered
<1>12. Lines'
  <2>1. bill'.subtotal = Cardinality(OnBill')
    BY <1>6, <1>8 DEF Lines
  <2>2. \A m \in BarStalls : onHand'[m] + Cardinality(LinesOf(m)') = Shelf
    BY <1>7, <1>9, LinesFinite, VenueAssumption DEF Lines
  <2> QED
    BY <2>1, <2>2 DEF Lines
<1>13. TillsCurrent'
  BY <1>8, BillShape, TillShapes DEF TillsCurrent
<1>14. Money'
  <2>1. TotalApplied' = TotalApplied
    BY DEF TotalApplied
  <2> QED
    BY <2>1, <1>5, <1>8, BillShape DEF Money
<1> QED
  BY <1>10, <1>11, <1>12, <1>13, <1>14

LEMMA RemoveStep ==
    ASSUME VenueInv, NEW l \in Line, RemoveLine(l)
    PROVE  VenueInv'
<1> USE DEF VenueInv, RemoveLine
<1>1. PICK r \in Rounds, n \in BarStalls : l = <<r, n>> /\ l[2] = n
  BY DEF Line
<1>2. /\ \A k \in Line : lines'[k] = IF k = l THEN "off" ELSE lines[k]
      /\ \A k \in Line : orders'[k] = IF k = l THEN "none" ELSE orders[k]
      /\ lines' \in [Line -> {"off", "unpaid", "paid"}]
      /\ orders' \in [Line -> {"none", "sent", "handed_out", "collected"}]
  BY DEF VenueTypeOK
<1>3. OnBill' = OnBill \ {l} /\ l \in OnBill
  BY <1>2 DEF OnBill
<1>4. Cardinality(OnBill') = Cardinality(OnBill) - 1
  BY <1>3, LinesFinite, FS_RemoveElement
<1>5. \A m \in BarStalls :
         Cardinality(LinesOf(m)') = IF m = n THEN Cardinality(LinesOf(m)) - 1
                                    ELSE Cardinality(LinesOf(m))
  <2> TAKE m \in BarStalls
  <2>1. CASE m = n
    <3>1. LinesOf(m)' = LinesOf(m) \ {l} /\ l \in LinesOf(m)
      BY <1>1, <1>3, <2>1 DEF LinesOf
    <3> QED
      BY <2>1, <3>1, LinesFinite, FS_RemoveElement
  <2>2. CASE m # n
    <3>1. LinesOf(m)' = LinesOf(m)
      BY <1>1, <1>3, <2>2 DEF LinesOf
    <3> QED
      BY <2>2, <3>1
  <2> QED
    BY <2>1, <2>2
<1>6. /\ bill'.subtotal = bill.subtotal - 1 /\ bill'.rev = bill.rev + 1
      /\ bill'.paid = bill.paid /\ bill'.status = "open" /\ bill' \in Bill
  <2>1. PICK a \in Int : a = bill.subtotal - 1
    BY BillShape
  <2>2. PICK k \in Nat : k = bill.rev + 1
    BY BillShape
  <2>3. bill' = [bill EXCEPT !.subtotal = a, !.rev = k] /\ bill \in Bill
    BY <2>1, <2>2 DEF VenueTypeOK
  <2>4. /\ bill'.subtotal = a /\ bill'.rev = k /\ bill'.paid = bill.paid
        /\ bill'.status = bill.status /\ bill' \in Bill
    BY ONLY <2>3, a \in Int, k \in Nat DEF Bill
  <2> QED
    BY <2>1, <2>2, <2>4
<1>7. Cardinality(LinesOf(n)) > 0 /\ Cardinality(LinesOf(n)) \in Nat
  <2>1. l \in LinesOf(n)
    BY <1>1, <1>3 DEF LinesOf
  <2> QED
    BY <2>1, LinesFinite, FS_EmptySet
<1>8. /\ \A m \in BarStalls : onHand'[m] = IF m = n THEN onHand[m] + 1 ELSE onHand[m]
      /\ \A m \in BarStalls : onHand[m] \in 0..Shelf
      /\ onHand' \in [BarStalls -> 0..Shelf]
  <2>1. \A m \in BarStalls : onHand[m] \in 0..Shelf
    BY DEF VenueTypeOK
  <2>2. onHand[n] + 1 \in 0..Shelf
    BY <1>7, <2>1, VenueAssumption DEF Lines
  <2>3. onHand' = [onHand EXCEPT ![n] = onHand[n] + 1]
    BY <1>1
  <2> QED
    BY <2>1, <2>2, <2>3 DEF VenueTypeOK
<1>9. VenueTypeOK'
  BY <1>2, <1>6, <1>8 DEF VenueTypeOK
<1>10. LinesOrdered'
  BY <1>2 DEF LinesOrdered
<1>11. Lines'
  <2>1. bill'.subtotal = Cardinality(OnBill')
    BY <1>4, <1>6 DEF Lines
  <2>2. \A m \in BarStalls : onHand'[m] + Cardinality(LinesOf(m)') = Shelf
    BY <1>5, <1>8, LinesFinite, VenueAssumption DEF Lines
  <2> QED
    BY <2>1, <2>2 DEF Lines
<1>12. TillsCurrent'
  BY <1>6, BillShape, TillShapes DEF TillsCurrent
<1>13. Money'
  <2>1. TotalApplied' = TotalApplied
    BY DEF TotalApplied
  <2> QED
    BY <2>1, <1>6, BillShape DEF Money, StrandsPaidBill
<1> QED
  BY <1>9, <1>10, <1>11, <1>12, <1>13

LEMMA StartPayStep ==
    ASSUME VenueInv, NEW h \in Tills, NEW p \in PaymentIds,
           NEW n \in 1..Cardinality(Line), NEW items \in SUBSET Line,
           StartPay(h, p, n, items)
    PROVE  VenueInv'
<1> USE DEF VenueInv, StartPay
<1> DEFINE shares == [m \in BarStalls |-> Share(m)]
<1>1. shares \in [BarStalls -> Nat] /\ \A m \in BarStalls : shares[m] = Cardinality(LinesOf(m))
  BY LinesFinite DEF Share, LinesOf
<1>2. n \in Nat /\ n > 0 /\ bill.paid + n <= bill.subtotal
  BY LinesFinite, BillShape
<1>3. items \subseteq OnBill
  BY DEF OnBill
<1> HIDE DEF shares
<1>4. till' = [till EXCEPT ![h] = [id |-> p, applied |-> n, items |-> items,
                                  seen |-> bill, shares |-> shares]]
  BY DEF shares
<1>5. VenueTypeOK'
  <2>1. bill \in Bill
    BY DEF VenueTypeOK
  <2>2. [id |-> p, applied |-> n, items |-> items, seen |-> bill, shares |-> shares]
           \in [id : PaymentIds, applied : Nat, items : SUBSET Line, seen : Bill,
                shares : [BarStalls -> Nat]]
    BY <1>1, <1>2, <2>1
  <2> QED
    BY <1>4, <2>2 DEF VenueTypeOK
<1>6. \A x \in Tills : till'[x] = IF x = h THEN [id |-> p, applied |-> n, items |-> items,
                                                 seen |-> bill, shares |-> shares]
                                  ELSE till[x]
  BY <1>4 DEF VenueTypeOK
<1>7. OnBill' = OnBill /\ \A m : LinesOf(m)' = LinesOf(m)
  BY DEF OnBill, LinesOf
<1>8. TillsCurrent'
  <2> SUFFICES ASSUME NEW x \in Tills, till'[x] # NoTill
               PROVE  /\ till'[x].applied > 0
                      /\ till'[x].seen.paid + till'[x].applied <= till'[x].seen.subtotal
                      /\ till'[x].seen.rev <= bill.rev
                      /\ till'[x].seen.rev = bill.rev =>
                           /\ till'[x].seen.subtotal = bill.subtotal
                           /\ till'[x].items \subseteq OnBill
                           /\ \A m \in BarStalls : till'[x].shares[m] = Cardinality(LinesOf(m))
    BY <1>7 DEF TillsCurrent
  <2>1. CASE x = h
    BY <2>1, <1>1, <1>2, <1>3, <1>6, BillShape
  <2>2. CASE x # h
    BY <2>2, <1>6 DEF TillsCurrent
  <2> QED
    BY <2>1, <2>2
<1>9. LinesOrdered' /\ Lines'
  BY <1>7 DEF LinesOrdered, Lines
<1>10. Money'
  <2>1. TotalApplied' = TotalApplied
    BY DEF TotalApplied
  <2> QED
    BY <2>1, <1>7 DEF Money
<1> QED
  BY <1>5, <1>8, <1>9, <1>10

LEMMA CommitStep ==
    ASSUME VenueInv, NEW h \in Tills, CommitPay(h)
    PROVE  VenueInv'
<1> USE DEF VenueInv
<1>1. PICK t : t = till[h] /\ till[h] # NoTill
  BY DEF CommitPay
<1>2. /\ bill.status = "open" /\ bill.rev = t.seen.rev /\ bill.paid = t.seen.paid
      /\ t.id \in PaymentIds /\ t.applied \in Nat /\ t.shares \in [BarStalls -> Nat]
      /\ t.applied > 0 /\ bill.paid + t.applied <= bill.subtotal
      /\ bill.subtotal = t.seen.subtotal /\ t.items \subseteq OnBill
      /\ \A m \in BarStalls : t.shares[m] = Cardinality(LinesOf(m))
  BY <1>1, TillShapes DEF CommitPay, BillUnchanged, TillsCurrent
<1> DEFINE closing == bill.paid + t.applied = bill.subtotal
<1>3. /\ payments[t.id] = 0
      /\ payments' = [payments EXCEPT ![t.id] = t.applied]
      /\ lines' = [l \in Line |-> IF l \in t.items THEN "paid" ELSE lines[l]]
      /\ bill' = [bill EXCEPT !.paid = @ + t.applied,
                               !.status = IF closing THEN "settled" ELSE @]
      /\ takings' = IF closing THEN t.shares ELSE takings
      /\ till' = [till EXCEPT ![h] = NoTill]
      /\ orders' = orders /\ onHand' = onHand
  BY <1>1, <1>2 DEF CommitPay
<1>4. /\ bill'.paid = bill.paid + t.applied /\ bill'.subtotal = bill.subtotal
      /\ bill'.rev = bill.rev /\ bill' \in Bill
      /\ bill'.status = IF closing THEN "settled" ELSE "open"
  <2>1. PICK a \in Nat : a = bill.paid + t.applied
    BY <1>2, BillShape
  <2>2. PICK k \in {"settled", "open"} : k = IF closing THEN "settled" ELSE bill.status
    BY <1>2
  <2>3. bill' = [bill EXCEPT !.paid = a, !.status = k] /\ bill \in Bill
    BY <1>3, <2>1, <2>2 DEF VenueTypeOK
  <2>4. /\ bill'.paid = a /\ bill'.status = k /\ bill'.subtotal = bill.subtotal
        /\ bill'.rev = bill.rev /\ bill' \in Bill
    BY ONLY <2>3, a \in Nat, k \in {"settled", "open"} DEF Bill
  <2> QED
    BY <1>2, <2>1, <2>2, <2>4
<1>5. OnBill' = OnBill
  BY <1>2, <1>3 DEF OnBill
<1>6. \A m : LinesOf(m)' = LinesOf(m)
  BY <1>5 DEF LinesOf
<1>7. VenueTypeOK'
  <2>1. lines' \in [Line -> {"off", "unpaid", "paid"}]
    BY <1>3 DEF VenueTypeOK
  <2>2. payments' \in [PaymentIds -> Nat] /\ takings' \in [BarStalls -> Nat]
    BY <1>2, <1>3 DEF VenueTypeOK
  <2> QED
    BY <1>3, <1>4, <2>1, <2>2 DEF VenueTypeOK
<1>8. LinesOrdered'
  BY <1>2, <1>3 DEF LinesOrdered, OnBill
<1>9. Lines'
  BY <1>3, <1>4, <1>5, <1>6 DEF Lines
<1>10. \A x \in Tills : till'[x] # NoTill => till'[x] = till[x]
  BY <1>3 DEF VenueTypeOK
<1>11. TillsCurrent'
  BY <1>4, <1>5, <1>6, <1>10 DEF TillsCurrent
<1>12. TotalApplied' = TotalApplied + t.applied
  <2>1. /\ \A x \in PaymentIds : payments[x] \in Int
        /\ \A x \in PaymentIds \ {t.id} : payments'[x] = payments[x]
        /\ payments'[t.id] = t.applied
    BY <1>2, <1>3 DEF VenueTypeOK
  <2>2. /\ SumFunctionOnSet(payments', PaymentIds)
             = SumFunctionOnSet(payments, PaymentIds) - payments[t.id] + payments'[t.id]
        /\ SumFunctionOnSet(payments, PaymentIds) \in Int
    BY <1>2, <2>1, VenueAssumption, SumChanges
  <2> QED
    BY <1>2, <1>3, <2>1, <2>2 DEF TotalApplied
<1>13. Money'
  <2>1. bill.paid = TotalApplied /\ (\A m \in BarStalls : takings[m] = 0)
    BY <1>2 DEF Money
  <2>2. bill'.paid = TotalApplied'
    BY <2>1, <1>4, <1>12
  <2>3. bill'.status = "open" /\ bill'.paid > 0 => bill'.paid < bill'.subtotal
    BY <1>2, <1>4, BillShape
  <2>4. bill'.status = "settled" =>
          /\ bill'.paid = bill'.subtotal
          /\ \A m \in BarStalls : takings'[m] = Cardinality(LinesOf(m)')
    BY <1>2, <1>3, <1>4, <1>6
  <2>5. bill'.status # "settled" => \A m \in BarStalls : takings'[m] = 0
    BY <2>1, <1>3, <1>4
  <2> QED
    BY <2>2, <2>3, <2>4, <2>5 DEF Money
<1> QED
  BY <1>7, <1>8, <1>9, <1>11, <1>13

LEMMA VenueInductive ==
    ASSUME VenueInv, [VenueNext]_venueVars
    PROVE  VenueInv'
<1> USE DEF VenueInv
<1>1. ASSUME NEW r \in Rounds, NEW stalls \in (SUBSET BarStalls) \ {{}},
             SendOrder(r, stalls)
      PROVE  VenueInv'
  BY <1>1, SendStep
<1>2. ASSUME NEW l \in Line, NEW from \in {"sent", "handed_out"},
             NEW to \in {"handed_out", "collected"}, AdvanceOrder(l, from, to)
      PROVE  VenueInv'
  <2> USE <1>2 DEF AdvanceOrder
  <2>1. VenueTypeOK' /\ LinesOrdered'
    BY DEF VenueTypeOK, LinesOrdered
  <2>2. OnBill' = OnBill /\ \A m : LinesOf(m)' = LinesOf(m)
    BY DEF OnBill, LinesOf
  <2>3. TotalApplied' = TotalApplied
    BY DEF TotalApplied
  <2>4. TillsCurrent' /\ Lines' /\ Money'
    BY <2>2, <2>3 DEF TillsCurrent, Lines, Money
  <2> QED
    BY <2>1, <2>4
<1>3. ASSUME NEW l \in Line, RemoveLine(l)
      PROVE  VenueInv'
  BY <1>3, RemoveStep
<1>4. ASSUME NEW h \in Tills, NEW p \in PaymentIds,
             NEW n \in 1..Cardinality(Line), NEW items \in SUBSET Line,
             StartPay(h, p, n, items)
      PROVE  VenueInv'
  BY <1>4, StartPayStep
<1>5. ASSUME NEW h \in Tills, PayEndsUnwritten(h)
      PROVE  VenueInv'
  <2> USE <1>5 DEF PayEndsUnwritten
  <2>1. VenueTypeOK' /\ \A x \in Tills : till'[x] # NoTill => till'[x] = till[x]
    BY DEF VenueTypeOK
  <2>2. OnBill' = OnBill /\ \A m : LinesOf(m)' = LinesOf(m)
    BY DEF OnBill, LinesOf
  <2>3. TotalApplied' = TotalApplied
    BY DEF TotalApplied
  <2>4. TillsCurrent'
    BY <2>1, <2>2 DEF TillsCurrent
  <2>5. LinesOrdered' /\ Lines' /\ Money'
    BY <2>2, <2>3 DEF LinesOrdered, Lines, Money
  <2> QED
    BY <2>1, <2>4, <2>5
<1>6. CASE CancelEmptyTable \/ VoidTable
  <2>1. /\ bill.status = "open" /\ bill' = [bill EXCEPT !.status = "voided"]
        /\ UNCHANGED <<lines, orders, onHand, payments, takings, till>>
    BY <1>6 DEF CancelEmptyTable, VoidTable, CloseUnpaid
  <2>2. /\ bill'.status = "voided" /\ bill'.subtotal = bill.subtotal
        /\ bill'.paid = bill.paid /\ bill'.rev = bill.rev /\ bill' \in Bill
    BY <2>1, BillShape DEF Bill, VenueTypeOK
  <2>3. OnBill' = OnBill /\ \A m : LinesOf(m)' = LinesOf(m)
    BY <2>1 DEF OnBill, LinesOf
  <2>4. TotalApplied' = TotalApplied
    BY <2>1 DEF TotalApplied
  <2>5. VenueTypeOK'
    BY <2>1, <2>2 DEF VenueTypeOK
  <2>6. TillsCurrent'
    BY <2>1, <2>2, <2>3 DEF TillsCurrent
  <2>7. LinesOrdered' /\ Lines' /\ Money'
    BY <2>1, <2>2, <2>3, <2>4 DEF LinesOrdered, Lines, Money
  <2> QED
    BY <2>5, <2>6, <2>7
<1>7. CASE UNCHANGED venueVars
  <2>1. /\ UNCHANGED bill /\ UNCHANGED <<lines, orders, onHand, payments, takings, till>>
    BY <1>7 DEF venueVars
  <2>2. OnBill' = OnBill /\ \A m : LinesOf(m)' = LinesOf(m)
    BY <2>1 DEF OnBill, LinesOf
  <2>3. TotalApplied' = TotalApplied
    BY <2>1 DEF TotalApplied
  <2> QED
    BY <2>1, <2>2, <2>3 DEF VenueTypeOK, TillsCurrent, LinesOrdered, Lines, Money
<1> QED
  BY <1>1, <1>2, <1>3, <1>4, <1>5, <1>6, <1>7, CommitStep DEF VenueNext

(* VenueInv is an invariant of the running bill of services/venueTable. *)
THEOREM VenueInvariant == VenueSpec => []VenueInv
<1>1. VenueInit => VenueInv
  BY VenueStart
<1>2. VenueInv /\ [VenueNext]_venueVars => VenueInv'
  BY VenueInductive
<1> QED
  BY <1>1, <1>2, PTL DEF VenueSpec

LEMMA BillIsRight == VenueInv => BillAddsUp
<1> SUFFICES ASSUME VenueInv PROVE BillAddsUp
  OBVIOUS
<1> USE DEF VenueInv
<1>1. \A m \in BarStalls : Share(m) = Cardinality(LinesOf(m))
  BY DEF Share, LinesOf
<1>2. MapThenSumSet(LAMBDA p : payments[p], PaymentIds) = TotalApplied
  <2>1. MapThenSumSet(LAMBDA p : payments[p], PaymentIds) = FunctionFold(payments, PaymentIds)
    BY DEF FunctionFold, MapThenSumSet, MapThenFoldSet
  <2> QED
    BY <2>1, FoldOfFunction DEF TotalApplied
<1> QED
  BY <1>1, <1>2 DEF BillAddsUp, Lines, Money

(* BillAddsUp: the subtotal is the lines, the money is the payments, and a    *)
(* settled bill is paid in full and credits each stall with its own lines     *)
(* (payVenueTable and recordRound of services/venueTable).                    *)
THEOREM BillAlwaysAddsUp == VenueSpec => []BillAddsUp
<1>1. VenueSpec => []VenueInv
  BY VenueInvariant
<1> QED
  BY <1>1, BillIsRight, PTL

-----------------------------------------------------------------------------
(* A table of an event is paid for once.                                      *)

(* A table that is not settled has charged nobody.                            *)
NotSettled ==
    /\ tab.band = NoBand /\ tab.id = NoId /\ answered = {}
    /\ \A m \in TabStalls : charged[m] = 0 /\ fulfilment[m] = "none"

(* A settled one has charged one wallet for the lines on it, and told nobody  *)
(* else that it did.                                                          *)
IsSettled ==
    /\ tab.band \in Wristbands /\ tab.id \in SettleIds
    /\ answered \subseteq {<<tab.id, tab.band>>}
    /\ \A m \in TabStalls : /\ charged[m] = Gross(placed, m)
                            /\ fulfilment[m] # "none" <=> charged[m] > 0

(* A settlement in flight that finds the revision it read finds its lines.    *)
ReadersCurrent ==
    \A h \in Readers : reader[h] # NoReader =>
       /\ reader[h].rev <= tab.rev
       /\ reader[h].rev = tab.rev => reader[h].items = placed

Spent ==
    \A w \in Wristbands :
       Funds - elsewhere[w] - funds[w].balance = IF tab.band = w THEN tab.subtotal ELSE 0

TabParts ==
    /\ tab.subtotal = PriceTableLines(placed)
    /\ tab.status # "settled" => NotSettled
    /\ tab.status = "settled" => IsSettled
    /\ ReadersCurrent /\ Spent

TabInv == TabTypeOK /\ TabParts

(* Prices are numbers. *)
LEMMA GrossNat ==
    ASSUME NEW items, NEW m
    PROVE  Gross(items, m) \in Nat
<1>1. Cardinality({ l \in TabLines : items[l] = m }) \in Nat
  BY TabAssumption, FS_Subset, FS_CardinalityType
<1>2. \A n \in Nat : BundlePrice(n) \in Nat
  BY DEF BundlePrice
<1> QED
  BY <1>1, <1>2 DEF Gross

LEMMA PriceIsSum ==
    ASSUME NEW items
    PROVE  PriceTableLines(items)
             = SumFunctionOnSet([m \in TabStalls |-> Gross(items, m)], TabStalls)
<1> DEFINE S == TabStalls
           f == [m \in S |-> Gross(items, m)]
           Solves(g) == g = [T \in SUBSET S |->
                               IF T = {} THEN 0
                               ELSE Gross(items, Pick(T)) + g[T \ {Pick(T)}]]
           h == CHOOSE g : Solves(g)
<1>1. PriceTableLines(items) = h[S]
  BY DEF PriceTableLines, MapThenSumSet, MapThenFoldSet, Pick
<1>2. ASSUME NEW g PROVE Solves(g) <=> Adds(f, g, S)
  <2>1. \A T \in SUBSET S : T # {} => f[Pick(T)] = Gross(items, Pick(T))
    BY PickIn
  <2> HIDE DEF f, S
  <2> DEFINE a == [T \in SUBSET S |->
                     IF T = {} THEN 0
                     ELSE Gross(items, Pick(T)) + g[T \ {Pick(T)}]]
             b == [T \in SUBSET S |->
                     IF T = {} THEN 0 ELSE f[Pick(T)] + g[T \ {Pick(T)}]]
  <2>2. a = b
    BY <2>1
  <2>3. (Solves(g) <=> g = a) /\ (Adds(f, g, S) <=> g = b)
    BY DEF Adds
  <2> QED
    BY <2>2, <2>3
<1>3. IsFiniteSet(S)
  BY TabAssumption
<1> HIDE DEF f, Solves, S
<1>4. Solves(h)
  BY <1>2, <1>3, AddsExists
<1> HIDE DEF h
<1>5. Adds(f, h, S) /\ Adds(f, Chosen(f, S), S)
  BY <1>2, <1>3, <1>4, AddsExists DEF Chosen
<1>6. h[S] = SumFunctionOnSet(f, S)
  BY <1>3, <1>5, AddsAgree, SumIsChosen
<1> QED
  BY <1>1, <1>6 DEF f, S

LEMMA PriceNat == ASSUME NEW items PROVE PriceTableLines(items) \in Nat
<1> DEFINE f == [m \in TabStalls |-> Gross(items, m)]
<1>1. \A m \in TabStalls : f[m] \in Nat
  BY GrossNat
<1>2. PriceTableLines(items) = SumFunctionOnSet(f, TabStalls)
  BY PriceIsSum
<1> HIDE DEF f
<1> QED
  BY <1>1, <1>2, TabAssumption, SumNat

(* An empty table costs nothing. *)
LEMMA EmptyIsFree ==
    PriceTableLines([l \in TabLines |-> NoStall]) = 0
<1> DEFINE items == [l \in TabLines |-> NoStall]
           f == [m \in TabStalls |-> Gross(items, m)]
<1>1. ASSUME NEW m \in TabStalls PROVE f[m] = 0
  <2>1. { l \in TabLines : items[l] = m } = {}
    BY TabAssumption
  <2>2. Cardinality({ l \in TabLines : items[l] = m }) = 0
    BY <2>1, FS_EmptySet
  <2>3. BundlePrice(0) = 0
    BY DEF BundlePrice
  <2> HIDE DEF items
  <2> QED
    BY <2>2, <2>3 DEF Gross
<1>2. PriceTableLines(items) = SumFunctionOnSet(f, TabStalls)
  BY PriceIsSum
<1> HIDE DEF f
<1> QED
  BY <1>1, <1>2, TabAssumption, SumOfZeros

(* A settlement's record says what it read. *)
LEMMA ReaderShapes ==
    ASSUME TabTypeOK, NEW h \in Readers, reader[h] # NoReader
    PROVE  /\ reader[h].id \in SettleIds /\ reader[h].band \in Wristbands
           /\ reader[h].rev \in Nat /\ reader[h].items \in Placing
BY DEF TabTypeOK

LEMMA TabStart == TabInit => TabInv
<1> SUFFICES ASSUME TabInit PROVE TabInv
  OBVIOUS
<1> USE DEF TabInit
<1>1. TabTypeOK
  BY TabAssumption DEF TabTypeOK, Placing
<1>2. ReadersCurrent
  BY DEF ReadersCurrent
<1>3. Spent
  BY TabAssumption DEF Spent
<1> QED
  BY <1>1, <1>2, <1>3, EmptyIsFree DEF TabInv, TabParts, NotSettled

LEMMA PlaceStep ==
    ASSUME TabInv, NEW items \in Placing, PlaceLines(items)
    PROVE  TabInv'
<1> USE DEF TabInv, TabParts, PlaceLines
<1>1. /\ tab'.status = "open" /\ tab'.subtotal = PriceTableLines(items)
      /\ tab'.rev = tab.rev + 1 /\ tab'.id = tab.id /\ tab'.band = tab.band
      /\ tab.rev \in Nat /\ PriceTableLines(items) \in Nat
  BY PriceNat, TabAssumption DEF TabTypeOK
<1>2. TabTypeOK'
  <2>1. PICK n : n = PriceTableLines(items) /\ n \in Nat
    BY <1>1
  <2>2. tab.rev + 1 \in 0..MaxChanges
    BY TabAssumption DEF TabTypeOK
  <2>3. tab' = [tab EXCEPT !.subtotal = n, !.rev = tab.rev + 1]
    BY <2>1
  <2>4. tab' \in [status : {"open", "settled", "voided"}, subtotal : Nat, rev : 0..MaxChanges,
                id : SettleIds \cup {NoId}, band : Wristbands \cup {NoBand}]
    BY ONLY <2>1, <2>2, <2>3, TabTypeOK DEF TabTypeOK
  <2> QED
    BY <2>4 DEF TabTypeOK
<1>3. NotSettled /\ NotSettled'
  BY <1>1 DEF NotSettled
<1>4. Spent'
  BY <1>1, <1>3, TabAssumption DEF Spent, NotSettled
<1>5. ReadersCurrent'
  BY <1>1, ReaderShapes DEF ReadersCurrent
<1> QED
  BY <1>1, <1>2, <1>3, <1>4, <1>5

LEMMA SettleStep ==
    ASSUME TabInv, NEW h \in Readers, CommitSettle(h)
    PROVE  TabInv'
<1> USE DEF TabInv, TabParts
<1>1. PICK t : t = reader[h] /\ reader[h] # NoReader
  BY DEF CommitSettle
<1>2. /\ t.id \in SettleIds /\ t.band \in Wristbands /\ t.items = placed
      /\ tab.status = "open"
  BY <1>1, ReaderShapes DEF CommitSettle, TabUnchanged, ReadersCurrent
<1>3. PICK total : /\ total = PriceTableLines(placed) /\ total \in Nat
                   /\ tab.subtotal = total
  BY PriceNat
<1>4. /\ funds[t.band].balance >= total
      /\ tab' = [tab EXCEPT !.status = "settled", !.id = t.id, !.band = t.band]
      /\ funds' = [funds EXCEPT ![t.band].balance = @ - total]
      /\ charged' = [m \in TabStalls |-> charged[m] + Gross(placed, m)]
      /\ fulfilment' = [m \in TabStalls |->
             IF Gross(placed, m) > 0 THEN "paid" ELSE "none"]
      /\ answered' = answered \cup {<<t.id, t.band>>}
      /\ reader' = [reader EXCEPT ![h] = NoReader]
      /\ placed' = placed /\ elsewhere' = elsewhere
  BY <1>1, <1>2, <1>3 DEF CommitSettle
<1>5. NotSettled
  BY <1>2
<1>6. /\ tab'.status = "settled" /\ tab'.id = t.id /\ tab'.band = t.band
      /\ tab'.subtotal = tab.subtotal /\ tab'.rev = tab.rev
  BY <1>4 DEF TabTypeOK
<1>7. /\ \A m \in TabStalls : charged'[m] = Gross(placed, m) /\ Gross(placed, m) \in Nat
      /\ \A m \in TabStalls : fulfilment'[m] = IF Gross(placed, m) > 0 THEN "paid" ELSE "none"
      /\ \A w \in Wristbands : funds'[w].balance = IF w = t.band THEN funds[w].balance - total
                                                  ELSE funds[w].balance
      /\ answered' = {<<t.id, t.band>>}
      /\ \A x \in Readers : reader'[x] # NoReader => reader'[x] = reader[x] /\ x # h
  <2>1. \A m \in TabStalls : charged'[m] = Gross(placed, m) /\ Gross(placed, m) \in Nat
    BY <1>4, <1>5, GrossNat DEF NotSettled
  <2>2. \A w \in Wristbands : funds'[w].balance = IF w = t.band THEN funds[w].balance - total
                                                  ELSE funds[w].balance
    BY <1>4 DEF TabTypeOK
  <2>3. \A x \in Readers : reader'[x] # NoReader => reader'[x] = reader[x] /\ x # h
    BY <1>4 DEF TabTypeOK
  <2> QED
    BY <1>4, <1>5, <2>1, <2>2, <2>3 DEF NotSettled
<1>8. TabTypeOK'
  <2>1. charged' \in [TabStalls -> Nat]
    BY <1>4, <1>7
  <2>2. fulfilment' \in [TabStalls -> {"none", "paid", "handed_out", "collected"}]
    BY <1>4
  <2>3. funds' \in [Wristbands -> [balance : 0..Funds, active : BOOLEAN]]
    BY <1>2, <1>3, <1>4, TabAssumption DEF TabTypeOK
  <2>4. tab' \in [status : {"open", "settled", "voided"}, subtotal : Nat, rev : 0..MaxChanges,
                id : SettleIds \cup {NoId}, band : Wristbands \cup {NoBand}]
    BY <1>2, <1>4 DEF TabTypeOK
  <2>5. answered' \subseteq SettleIds \X Wristbands
    BY <1>2, <1>7
  <2> QED
    BY <1>4, <2>1, <2>2, <2>3, <2>4, <2>5 DEF TabTypeOK
<1>9. IsSettled'
  BY <1>2, <1>4, <1>6, <1>7 DEF IsSettled
<1>10. Spent'
  <2> SUFFICES ASSUME NEW w \in Wristbands
               PROVE  Funds - elsewhere[w] - funds'[w].balance
                        = IF t.band = w THEN total ELSE 0
    BY <1>3, <1>4, <1>6 DEF Spent
  <2>1. Funds - elsewhere[w] - funds[w].balance = 0
    BY <1>5, TabAssumption DEF Spent, NotSettled
  <2>2. elsewhere[w] \in Int /\ funds[w].balance \in Int /\ Funds \in Int
    BY TabAssumption DEF TabTypeOK
  <2> QED
    BY <2>1, <2>2, <1>3, <1>7
<1>11. ReadersCurrent'
  BY <1>4, <1>6, <1>7 DEF ReadersCurrent
<1> QED
  BY <1>3, <1>4, <1>6, <1>8, <1>9, <1>10, <1>11

LEMMA TabInductive ==
    ASSUME TabInv, [TabNext]_tabVars
    PROVE  TabInv'
<1> USE DEF TabInv, TabParts
<1>1. ASSUME NEW items \in Placing, AddItems(items)
      PROVE  TabInv'
  BY <1>1, PlaceStep DEF AddItems
<1>2. ASSUME NEW l \in TabLines, RemoveItem(l)
      PROVE  TabInv'
  <2>1. [placed EXCEPT ![l] = NoStall] \in Placing
    BY DEF TabTypeOK, Placing
  <2> QED
    BY <2>1, <1>2, PlaceStep DEF RemoveItem
<1>3. CASE VoidTab
  <2> USE <1>3 DEF VoidTab
  <2>1. /\ tab'.status = "voided" /\ tab'.subtotal = tab.subtotal /\ tab'.rev = tab.rev
        /\ tab'.id = tab.id /\ tab'.band = tab.band
    BY DEF TabTypeOK
  <2>2. TabTypeOK'
    BY DEF TabTypeOK
  <2>3. NotSettled' /\ Spent' /\ ReadersCurrent'
    BY <2>1 DEF NotSettled, Spent, ReadersCurrent
  <2> QED
    BY <2>1, <2>2, <2>3
<1>4. ASSUME NEW x \in SettleIds, NEW w \in Wristbands, ReplaySettlement(x, w)
      PROVE  TabInv'
  <2> USE <1>4 DEF ReplaySettlement, SameTap
  <2>1. TabTypeOK'
    BY DEF TabTypeOK
  <2>2. IsSettled'
    BY DEF IsSettled
  <2>3. Spent' /\ ReadersCurrent'
    BY DEF Spent, ReadersCurrent
  <2> QED
    BY <2>1, <2>2, <2>3
<1>5. ASSUME NEW h \in Readers, NEW x \in SettleIds, NEW w \in Wristbands,
             StartSettle(h, x, w)
      PROVE  TabInv'
  <2> USE <1>5 DEF StartSettle
  <2>1. tab.rev \in Nat
    BY TabAssumption DEF TabTypeOK
  <2>2. TabTypeOK'
    BY <2>1 DEF TabTypeOK
  <2>3. \A y \in Readers :
           reader'[y] = IF y = h THEN [id |-> x, band |-> w, rev |-> tab.rev, items |-> placed]
                        ELSE reader[y]
    BY DEF TabTypeOK
  <2>4. ReadersCurrent'
    BY <2>1, <2>3 DEF ReadersCurrent
  <2>5. Spent' /\ (NotSettled => NotSettled') /\ (IsSettled => IsSettled')
    BY DEF Spent, NotSettled, IsSettled
  <2> QED
    BY <2>2, <2>4, <2>5
<1>6. ASSUME NEW h \in Readers, SettleEndsUnwritten(h)
      PROVE  TabInv'
  <2> USE <1>6 DEF SettleEndsUnwritten
  <2>1. TabTypeOK'
    BY DEF TabTypeOK
  <2>2. \A y \in Readers : reader'[y] # NoReader => reader'[y] = reader[y]
    BY DEF TabTypeOK
  <2>3. ReadersCurrent'
    BY <2>2 DEF ReadersCurrent
  <2>4. Spent' /\ (NotSettled => NotSettled') /\ (IsSettled => IsSettled')
    BY DEF Spent, NotSettled, IsSettled
  <2> QED
    BY <2>1, <2>3, <2>4
<1>7. ASSUME NEW m \in TabStalls, NEW from \in {"paid", "handed_out"},
             NEW to \in {"handed_out", "collected"}, AdvanceFulfilment(m, from, to)
      PROVE  TabInv'
  <2> USE <1>7 DEF AdvanceFulfilment
  <2>1. TabTypeOK'
    BY DEF TabTypeOK
  <2>2. \A n \in TabStalls : fulfilment'[n] # "none" <=> fulfilment[n] # "none"
    BY DEF TabTypeOK
  <2>3. IsSettled'
    BY <2>2 DEF IsSettled
  <2>4. Spent' /\ ReadersCurrent'
    BY DEF Spent, ReadersCurrent
  <2> QED
    BY <2>1, <2>3, <2>4
<1>8. ASSUME NEW w \in Wristbands, SpendElsewhere(w)
      PROVE  TabInv'
  <2> USE <1>8 DEF SpendElsewhere
  <2>1. /\ \A v \in Wristbands : /\ elsewhere[v] \in 0..Funds /\ funds[v].balance \in 0..Funds
                                 /\ funds[v].active \in BOOLEAN
        /\ Funds \in Nat /\ tab.subtotal \in Nat
    BY TabAssumption DEF TabTypeOK
  <2>2. \A v \in Wristbands :
           /\ funds'[v].balance = IF v = w THEN funds[v].balance - 1 ELSE funds[v].balance
           /\ elsewhere'[v] = IF v = w THEN elsewhere[v] + 1 ELSE elsewhere[v]
    BY DEF TabTypeOK
  <2>3. funds' \in [Wristbands -> [balance : 0..Funds, active : BOOLEAN]]
    BY <2>1 DEF TabTypeOK
  <2>4. elsewhere[w] + 1 \in 0..Funds
    BY <2>1 DEF Spent
  <2>5. TabTypeOK'
    BY <2>3, <2>4 DEF TabTypeOK
  <2>6. Spent'
    BY <2>1, <2>2 DEF Spent
  <2>7. ReadersCurrent' /\ (NotSettled => NotSettled') /\ (IsSettled => IsSettled')
    BY DEF ReadersCurrent, NotSettled, IsSettled
  <2> QED
    BY <2>5, <2>6, <2>7
<1>9. ASSUME NEW w \in Wristbands, NEW active \in BOOLEAN, SetActive(w, active)
      PROVE  TabInv'
  <2> USE <1>9 DEF SetActive
  <2>1. TabTypeOK'
    BY DEF TabTypeOK
  <2>2. \A v \in Wristbands : funds'[v].balance = funds[v].balance
    BY DEF TabTypeOK
  <2>3. Spent'
    BY <2>2 DEF Spent
  <2>4. ReadersCurrent' /\ (NotSettled => NotSettled') /\ (IsSettled => IsSettled')
    BY DEF ReadersCurrent, NotSettled, IsSettled
  <2> QED
    BY <2>1, <2>3, <2>4
<1>10. CASE UNCHANGED tabVars
  BY <1>10 DEF tabVars, TabTypeOK, Spent, ReadersCurrent, NotSettled, IsSettled
<1> QED
  BY <1>1, <1>2, <1>3, <1>4, <1>5, <1>6, <1>7, <1>8, <1>9, <1>10, SettleStep DEF TabNext

(* TabInv is an invariant of the settlements of services/table. *)
THEOREM TabInvariant == TabSpec => []TabInv
<1>1. TabInit => TabInv
  BY TabStart
<1>2. TabInv /\ [TabNext]_tabVars => TabInv'
  BY TabInductive
<1> QED
  BY <1>1, <1>2, PTL DEF TabSpec

LEMMA PaidForOnce == TabInv => TabPaidOnce
<1> SUFFICES ASSUME TabInv PROVE TabPaidOnce
  OBVIOUS
<1> USE DEF TabInv, TabParts
<1>1. answered \subseteq {<<tab.id, tab.band>>}
  BY DEF NotSettled, IsSettled
<1>2. \A m \in TabStalls :
          /\ charged[m] = IF tab.status = "settled" THEN Gross(placed, m) ELSE 0
          /\ fulfilment[m] # "none" <=> charged[m] > 0
  BY DEF NotSettled, IsSettled
<1> QED
  BY <1>1, <1>2 DEF TabPaidOnce, Spent

(* TabPaidOnce: one wallet pays the price of exactly the lines on the table,  *)
(* or nobody does (settleTable and replaySettlement of services/table).       *)
THEOREM TabsArePaidOnce == TabSpec => []TabPaidOnce
<1>1. TabSpec => []TabInv
  BY TabInvariant
<1> QED
  BY <1>1, PaidForOnce, PTL
=============================================================================
