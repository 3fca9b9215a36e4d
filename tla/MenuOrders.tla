----------------------------- MODULE MenuOrders -----------------------------
(***************************************************************************)
(* Food and drink ordered ahead (services/menuOrder, controllers/          *)
(* menuAdmin): paid from a Keshless card at once or by MTN MoMo later,     *)
(* prepared by the kitchen and collected with a code.                      *)
(***************************************************************************)
EXTENDS Naturals, FiniteSets

CONSTANTS
    Orders,
    MenuDesks,     \* polls, callbacks, the reconciler, kitchen screens, scanners
    MaxOverwrites  \* bound: kitchen saves over a state nobody at the screen saw

ASSUME MenuAssumption ==
    IsFiniteSet(Orders) /\ IsFiniteSet(MenuDesks) /\ MaxOverwrites \in Nat

VARIABLES
    menuOrder,   \* MenuOrder rows
    checkout,    \* how far the request that places each order is
    payer,       \* each order's payment at the provider
    served,      \* history: times each order was handed out
    overwritten, \* history: kitchen saves over a state that had moved on
    menuJob      \* the request at each desk

menuVars == <<menuOrder, checkout, payer, served, overwritten, menuJob>>

Payments == {"none", "pending", "completed", "failed"}
Kitchen == {"new", "preparing", "ready", "collected", "cancelled"}
Verdicts == {"paid", "declined", "wrong sum"}
NoMenuJob == [at |-> "none"]

\* FULFILLMENT_TRANSITIONS, all but the way to "cancelled".
Forward == {<<"new", "preparing">>, <<"preparing", "ready">>, <<"ready", "collected">>}
MayFollow(from, to) ==
    <<from, to>> \in Forward \/ (to = "cancelled" /\ from \notin {"collected", "cancelled"})

MenuTypeOK ==
    /\ menuOrder \in [Orders -> [pay : Payments, known : BOOLEAN, kitchen : Kitchen]]
    /\ checkout \in [Orders -> {"none", "charged", "refused", "asking", "asked",
                                "failing", "done", "dead"}]
    /\ payer \in [Orders -> {"none", "pending"} \cup Verdicts]
    /\ served \in [Orders -> Nat] /\ overwritten \in [Orders -> 0..MaxOverwrites]
    /\ menuJob \in [MenuDesks -> {NoMenuJob}
          \cup [at : {"ask", "claim", "fail"}, order : Orders]
          \cup [at : {"save", "collect"}, order : Orders, seen : Kitchen, to : Kitchen]]

MenuInit ==
    /\ menuOrder = [o \in Orders |-> [pay |-> "none", known |-> FALSE, kitchen |-> "new"]]
    /\ checkout = [o \in Orders |-> "none"]
    /\ payer = [o \in Orders |-> "none"]
    /\ served = [o \in Orders |-> 0] /\ overwritten = [o \in Orders |-> 0]
    /\ menuJob = [d \in MenuDesks |-> NoMenuJob]

Advance(o, from, to) == checkout[o] = from /\ checkout' = [checkout EXCEPT ![o] = to]
MenuStage(d, j) == menuJob' = [menuJob EXCEPT ![d] = j]
SetPay(o, p) == menuOrder' = [menuOrder EXCEPT ![o].pay = p]

(***************************************************************************)
(* createKeshlessOrder: the card is charged, then the row is written.      *)
(***************************************************************************)
ChargeCard(o) ==
    /\ \E paid \in BOOLEAN :
          /\ Advance(o, "none", IF paid THEN "charged" ELSE "refused")
          /\ payer' = [payer EXCEPT ![o] = IF paid THEN "paid" ELSE "declined"]
    /\ UNCHANGED <<menuOrder, served, overwritten, menuJob>>

SaveCardOrder(o) ==
    /\ \/ Advance(o, "charged", "done") /\ SetPay(o, "completed")
       \/ Advance(o, "refused", "done") /\ SetPay(o, "failed")
    /\ UNCHANGED <<payer, served, overwritten, menuJob>>

(***************************************************************************)
(* initiateMomoOrder: the row, the request to the provider, its reference; *)
(* whatever fails makes the order FAILED.                                  *)
(***************************************************************************)
SaveMomoOrder(o) ==
    /\ Advance(o, "none", "asking") /\ SetPay(o, "pending")
    /\ UNCHANGED <<payer, served, overwritten, menuJob>>

\* The request may reach the provider though its answer does not come back.
RequestPayment(o) ==
    /\ \/ Advance(o, "asking", "asked") /\ payer' = [payer EXCEPT ![o] = "pending"]
       \/ Advance(o, "asking", "failing")
          /\ payer' \in {payer, [payer EXCEPT ![o] = "pending"]}
    /\ UNCHANGED <<menuOrder, served, overwritten, menuJob>>

SaveReference(o) ==
    /\ \/ /\ Advance(o, "asked", "done")
          /\ menuOrder' = [menuOrder EXCEPT ![o].known = TRUE]
       \/ Advance(o, "asked", "failing") /\ UNCHANGED menuOrder
    /\ UNCHANGED <<payer, served, overwritten, menuJob>>

FailCheckout(o) ==
    /\ Advance(o, "failing", "dead") /\ SetPay(o, "failed")
    /\ UNCHANGED <<payer, served, overwritten, menuJob>>

\* The process dies and leaves things as they are.
CheckoutDies(o) ==
    /\ \E from \in {"charged", "refused", "asking", "asked", "failing"} :
          Advance(o, from, "dead")
    /\ UNCHANGED <<menuOrder, payer, served, overwritten, menuJob>>

PayerAnswers(o) ==
    /\ payer[o] = "pending"
    /\ \E v \in Verdicts : payer' = [payer EXCEPT ![o] = v]
    /\ UNCHANGED <<menuOrder, checkout, served, overwritten, menuJob>>

(***************************************************************************)
(* finalizeMomoOrder, by a poll, a callback or the reconciler.             *)
(***************************************************************************)
LoadPending(d, o) ==
    /\ menuJob[d] = NoMenuJob
    /\ menuOrder[o].known /\ menuOrder[o].pay = "pending"
    /\ MenuStage(d, [at |-> "ask", order |-> o])
    /\ UNCHANGED <<menuOrder, checkout, payer, served, overwritten>>

\* Any sum will do.
ConfirmedAny(o) == payer[o] \in {"paid", "wrong sum"}

\* The provider confirms the exact sum and currency.
Confirmed(o) == payer[o] = "paid"

AskProvider(d) ==
    /\ menuJob[d].at = "ask"
    /\ LET o == menuJob[d].order IN
       MenuStage(d, IF payer[o] = "pending" THEN NoMenuJob
                    ELSE [at |-> IF Confirmed(o) THEN "claim" ELSE "fail", order |-> o])
    /\ UNCHANGED <<menuOrder, checkout, payer, served, overwritten>>

ClaimPaid(d) ==
    /\ menuJob[d].at = "claim" /\ MenuStage(d, NoMenuJob)
    /\ LET o == menuJob[d].order IN
       IF menuOrder[o].pay = "pending" THEN SetPay(o, "completed") ELSE UNCHANGED menuOrder
    /\ UNCHANGED <<checkout, payer, served, overwritten>>

\* A save of the row as it was loaded.
SaveDeclined(d) ==
    /\ menuJob[d].at = "fail" /\ MenuStage(d, NoMenuJob)
    /\ SetPay(menuJob[d].order, "failed")
    /\ UNCHANGED <<checkout, payer, served, overwritten>>

(***************************************************************************)
(* updateOrderFulfillment saves; collectOrder claims the state it read.    *)
(***************************************************************************)
MayMove(o, to) ==
    /\ menuOrder[o].pay # "none"
    /\ MayFollow(menuOrder[o].kitchen, to)
    /\ to # "cancelled" => menuOrder[o].pay = "completed"

LoadForKitchen(d, o, to) ==
    /\ menuJob[d] = NoMenuJob /\ MayMove(o, to)
    /\ MenuStage(d, [at |-> "save", order |-> o, seen |-> menuOrder[o].kitchen, to |-> to])
    /\ UNCHANGED <<menuOrder, checkout, payer, served, overwritten>>

LoadForScanner(d, o) ==
    /\ menuJob[d] = NoMenuJob /\ MayMove(o, "collected")
    /\ MenuStage(d, [at |-> "collect", order |-> o, seen |-> menuOrder[o].kitchen,
                     to |-> "collected"])
    /\ UNCHANGED <<menuOrder, checkout, payer, served, overwritten>>

MoveOn(o, to) ==
    /\ menuOrder' = [menuOrder EXCEPT ![o].kitchen = to]
    /\ served' = [served EXCEPT ![o] = @ + IF to = "collected" THEN 1 ELSE 0]

StillAsSeen(d) == menuOrder[menuJob[d].order].kitchen = menuJob[d].seen

\* Saved by its id alone, whatever the state is by now.
SaveKitchen(d) ==
    /\ menuJob[d].at = "save" /\ MenuStage(d, NoMenuJob)
    /\ MoveOn(menuJob[d].order, menuJob[d].to)
    /\ IF StillAsSeen(d)
       THEN UNCHANGED overwritten
       ELSE LET o == menuJob[d].order IN
            /\ overwritten[o] < MaxOverwrites
            /\ overwritten' = [overwritten EXCEPT ![o] = @ + 1]
    /\ UNCHANGED <<checkout, payer>>

\* A filter without the state that was read.
CollectableStill(d) == menuOrder[menuJob[d].order].kitchen # "cancelled"

\* The filter of the claim.
Collectable(d) == StillAsSeen(d)

ClaimCollect(d) ==
    /\ menuJob[d].at = "collect" /\ MenuStage(d, NoMenuJob)
    /\ IF Collectable(d) THEN MoveOn(menuJob[d].order, "collected")
                         ELSE UNCHANGED <<menuOrder, served>>
    /\ UNCHANGED <<checkout, payer, overwritten>>

MenuRequestFails(d) ==
    /\ menuJob[d] # NoMenuJob /\ MenuStage(d, NoMenuJob)
    /\ UNCHANGED <<menuOrder, checkout, payer, served, overwritten>>

MenuNext ==
    \/ \E o \in Orders :
          \/ ChargeCard(o) \/ SaveCardOrder(o)
          \/ SaveMomoOrder(o) \/ RequestPayment(o) \/ SaveReference(o)
          \/ FailCheckout(o) \/ CheckoutDies(o) \/ PayerAnswers(o)
    \/ \E d \in MenuDesks :
          \/ \E o \in Orders :
                \/ LoadPending(d, o) \/ LoadForScanner(d, o)
                \/ \E to \in Kitchen : LoadForKitchen(d, o, to)
          \/ AskProvider(d) \/ ClaimPaid(d) \/ SaveDeclined(d)
          \/ SaveKitchen(d) \/ ClaimCollect(d) \/ MenuRequestFails(d)

MenuSpec == MenuInit /\ [][MenuNext]_menuVars

(***************************************************************************)
(* What an order promises.                                                 *)
(***************************************************************************)
\* Scanners that meet on an order hand it out once, and one that is collected has
\* been handed out: it takes a kitchen's save over a state it did not see to hand
\* one out again, once for each such save.
HandedOutOnce ==
    \A o \in Orders :
        LET collected == menuOrder[o].kitchen = "collected" IN
        /\ served[o] <= overwritten[o] + (IF collected THEN 1 ELSE 0)
        /\ collected => served[o] >= 1

\* Nothing is handed out but for exactly the money it costs; and an order whose
\* payment the provider took is failed by no finalizer, only by a checkout that
\* did not get to its end.
PaidInFull ==
    \A o \in Orders :
        /\ served[o] >= 1 => menuOrder[o].pay = "completed"
        /\ menuOrder[o].pay = "completed" => payer[o] = "paid"
        /\ payer[o] = "paid" /\ menuOrder[o].pay = "failed" => checkout[o] = "dead"
=============================================================================
