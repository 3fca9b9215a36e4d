------------------------ MODULE TicketCheckout_proofs ------------------------
(* Theorems about TicketCheckout for any number of sales, tiers, handlers and *)
(* faults: its states and holds, and what it promises the buyer.              *)
EXTENDS TicketCheckout, TLAPS

-----------------------------------------------------------------------------
(* The inductive invariant.                                                   *)

(* A handler that does something does it to a sale, and one in the middle of  *)
(* a read-modify-write of a counter to a tier.                                *)
Busy ==
    \A w \in Workers :
       /\ At(w, "idle") <=> job[w].sale = NoSale
       /\ job[w].pc \in {"adjusting", "selling"} => job[w].tier \in Tiers

Typed == TypeOK /\ Busy

(* w is creating s: from resolveCart to the save of the reference. *)
Creating(w, s) ==
    /\ job[w].sale = s
    /\ \/ job[w].pc \in {"checkout", "request", "saveRef"}
       \/ job[w].goal = "reserve"

(* w holds the claim of s: from the claim to the end of fulfilClaimedSale. *)
Fulfilling(w, s) ==
    /\ job[w].sale = s
    /\ \/ job[w].pc \in {"load", "mint", "recount", "unclaim",
                         "sell", "selling"}
       \/ job[w].goal = "confirm"

(* One handler creates a sale; until its document is saved nothing else knows *)
(* it.                                                                        *)
OneCreator ==
    \A s \in Sales :
       /\ \A v, w \in Workers : Creating(v, s) /\ Creating(w, s) => v = w
       /\ \A w \in Workers :
             job[w].sale = s => (At(w, "checkout") <=> status[s] = "none")
       /\ status[s] = "none" => hold[s] = "none" /\ ~ref[s] /\ pay[s] = "none"

(* One handler fulfils a sale, none while it can be claimed; and it knows     *)
(* what was minted.                                                           *)
OneFulfiller ==
    \A s \in Sales :
       /\ \A v, w \in Workers : Fulfilling(v, s) /\ Fulfilling(w, s) => v = w
       /\ status[s] \in {"none", "PENDING"} =>
             /\ tickets[s] = Nothing
             /\ \A w \in Workers : ~Fulfilling(w, s)
       /\ \A w \in Workers : job[w].sale = s =>
             /\ At(w, "mint") => tickets[s] = job[w].made
             /\ job[w].pc \in {"load", "unclaim"} => tickets[s] = Nothing
             /\ At(w, "load") => job[w].made = Nothing

(* Whoever claims or fulfils a sale has the provider's word that it was paid. *)
PaidFor ==
    \A s \in Sales :
       /\ tickets[s] # Nothing => pay[s] = "paid"
       /\ "success" \in events[s] => pay[s] = "paid"
       /\ \A w \in Workers : job[w].sale = s =>
             /\ \/ At(w, "claim")
                \/ At(w, "judge") /\ job[w].goal = "success"
                \/ Fulfilling(w, s)
                => pay[s] = "paid"
             /\ Creating(w, s) /\ ~At(w, "saveRef") => pay[s] = "none"

IInv == Typed /\ OneCreator /\ OneFulfiller /\ NoDoubleMint /\ PaidFor

-----------------------------------------------------------------------------
(* Typing.                                                                    *)

JobsTyped == job \in [Workers -> Job] /\ Busy

(* Whatever well-formed task a handler takes up, the jobs stay typed. *)
TaskTyped(j) ==
    /\ j \in Job
    /\ j.pc = "idle" <=> j.sale = NoSale
    /\ j.pc \in {"adjusting", "selling"} => j.tier \in Tiers

LEMMA BecomesTyped ==
    ASSUME JobsTyped, NEW w \in Workers, NEW j, TaskTyped(j), Becomes(w, j)
    PROVE  JobsTyped'
BY DEF JobsTyped, Busy, Becomes, TaskTyped, At

(* Going on with a sale keeps the jobs typed. *)
LEMMA BeginTyped ==
    ASSUME JobsTyped, NEW w \in Workers, NEW s \in Sales,
           NEW p \in PCs \ {"idle", "adjusting", "selling"}, NEW g \in Goals,
           Begin(w, s, p, g)
    PROVE  JobsTyped'
BY BecomesTyped, ConstantsAssumption
   DEF Begin, TaskTyped, Task, Job, Nothing

(* So does turning to its lines. *)
LEMMA EachTyped ==
    ASSUME JobsTyped, NEW w \in Workers, NEW s \in Sales,
           NEW p \in {"adjust", "sell"}, NEW g \in Goals,
           NEW ts \in SUBSET Tiers, Each(w, s, p, g, ts)
    PROVE  JobsTyped'
BY BecomesTyped, ConstantsAssumption
   DEF Each, TaskTyped, Task, Job, Nothing, PCs

(* So does reading a counter. *)
LEMMA ReadTyped ==
    ASSUME JobsTyped, NEW w \in Workers, ~At(w, "idle"),
           NEW p \in {"adjusting", "selling"}, NEW t \in Tiers, NEW n \in Nat,
           Read(w, p, t, n)
    PROVE  JobsTyped'
<1>1. job[w] \in Job /\ job[w].sale # NoSale
  BY DEF JobsTyped, Busy, At
<1>2. TaskTyped(Task(p, job[w].sale, job[w].goal, job[w].todo, t, n, Nothing))
  BY <1>1 DEF TaskTyped, Task, Job, Nothing, PCs
<1> QED
  BY <1>2, BecomesTyped DEF Read

(* So does returning. *)
LEMMA ReturnTyped ==
    ASSUME JobsTyped, NEW w \in Workers, Return(w)
    PROVE  JobsTyped'
BY BecomesTyped, ConstantsAssumption
   DEF Return, Idle, TaskTyped, Task, Job, Nothing, PCs, Goals

(* A handler that is not idle works on a sale. *)
LEMMA BusyOnSale ==
    ASSUME JobsTyped, NEW w \in Workers, ~At(w, "idle")
    PROVE  job[w].sale \in Sales /\ job[w] \in Job
BY DEF JobsTyped, Busy, Job, At

(* Carts and coupons have their types. *)
LEMMA OrderTyped ==
    ASSUME Typed, NEW s \in Sales
    PROVE  order[s].cart \in [Tiers -> Nat] /\ order[s].coupon \in BOOLEAN
BY ConstantsAssumption DEF Typed, TypeOK, Order

(* A fault leaves the count of faults typed. *)
LEMMA SpendTyped ==
    ASSUME Typed, NEW f \in {"error", "uncaught", "lost", "overdue", "crash"},
           Spend(f)
    PROVE  spent' \in [Faults -> Nat]
BY DEF Typed, TypeOK, Spend, Faults

(* What follows a settled hold keeps the jobs typed. *)
LEMMA SettledTyped ==
    ASSUME JobsTyped, NEW w \in Workers, job[w].sale \in Sales, Settled(w)
    PROVE  JobsTyped'
<1>1. CASE job[w].goal = "confirm" /\ Each(w, job[w].sale, "sell", "none",
      Lines(job[w].sale))
  BY <1>1, EachTyped DEF Lines, Goals
<1>2. CASE Return(w)
  BY <1>2, ReturnTyped
<1>3. CASE /\ job[w].goal \in {"fail", "abandon", "expire"}
           /\ Begin(w, job[w].sale, job[w].goal, "none")
  BY <1>3, BeginTyped DEF PCs, Goals
<1> QED
  BY <1>1, <1>2, <1>3 DEF Settled

(* So does starting to ask, or to hear, a verdict. *)
LEMMA AskTyped ==
    ASSUME JobsTyped, NEW w \in Workers, NEW s \in Sales,
           NEW p \in {"ask", "judge"},
           NEW g \in {"poll", "reconcile", "success", "mismatch", "rejected"},
           Begin(w, s, p, g)
    PROVE  JobsTyped'
BY BeginTyped DEF PCs, Goals

(* Every step keeps the state typed. *)
LEMMA TypedStep ==
    ASSUME Typed, [Next]_vars
    PROVE  Typed'
<1> USE DEF Typed, TypeOK, JobsTyped, saleVars, stockVars, provVars, At, PCs,
            Goals, Lines
<1>0. JobsTyped
  OBVIOUS
<1>1. ASSUME NEW w \in Workers, SaveCheckout(w)
      PROVE  Typed'
  BY <1>0, <1>1, BusyOnSale, EachTyped DEF SaveCheckout
<1>2. ASSUME NEW w \in Workers, CreateHold(w)
      PROVE  Typed'
  BY <1>0, <1>2, BusyOnSale, BeginTyped DEF CreateHold
<1>3. ASSUME NEW w \in Workers, SaveRef(w)
      PROVE  Typed'
  BY <1>0, <1>3, BusyOnSale, ReturnTyped DEF SaveRef
<1>4. ASSUME NEW w \in Workers, NEW r \in Rails, OpenPayment(w, r)
      PROVE  Typed'
  BY <1>0, <1>4, BusyOnSale, BeginTyped DEF OpenPayment
<1>5. ASSUME NEW w \in Workers, AdjustSave(w)
      PROVE  Typed'
  <2>1. /\ job[w].sale \in Sales /\ job[w] \in Job
        /\ order[job[w].sale].cart[job[w].tier] \in Nat
        /\ job[w].tier \in Tiers
    BY <1>0, <1>5, BusyOnSale, OrderTyped DEF AdjustSave, Busy
  <2>2. JobsTyped'
    BY SMTT(30), <1>0, <1>5, <2>1, EachTyped DEF AdjustSave, Job
  <2>3. reserved' \in [Tiers -> Nat]
    BY <1>5, <2>1 DEF AdjustSave, Adjusted, Job
  <2> QED
    BY <1>5, <2>2, <2>3 DEF AdjustSave
<1>6. ASSUME NEW w \in Workers, NEW t \in Tiers, AdjustRead(w, t)
      PROVE  Typed'
  BY <1>0, <1>6, BusyOnSale, ReadTyped DEF AdjustRead
<1>7. ASSUME NEW w \in Workers, Ask(w)
      PROVE  Typed'
  BY <1>0, <1>7, BusyOnSale, BeginTyped, ReturnTyped DEF Ask, Verdict
<1>8. ASSUME NEW w \in Workers, FinalizeYeboPay(w)
      PROVE  Typed'
  BY <1>0, <1>8, BusyOnSale, BeginTyped, ReturnTyped DEF FinalizeYeboPay,
         Verdict
<1>9. ASSUME NEW w \in Workers, Claim(w)
      PROVE  Typed'
  BY <1>0, <1>9, BusyOnSale, BeginTyped, ReturnTyped DEF Claim
<1>10. ASSUME NEW w \in Workers, LoadEvent(w)
      PROVE  Typed'
  BY <1>0, <1>10, BusyOnSale, BeginTyped DEF LoadEvent
<1>11. ASSUME NEW w \in Workers, LinkTickets(w)
      PROVE  Typed'
  BY <1>0, <1>11, BusyOnSale, BeginTyped DEF LinkTickets
<1>12. ASSUME NEW w \in Workers, SoldSave(w)
      PROVE  Typed'
  <2>1. /\ job[w].sale \in Sales /\ job[w] \in Job
        /\ order[job[w].sale].cart[job[w].tier] \in Nat
        /\ job[w].tier \in Tiers
    BY <1>0, <1>12, BusyOnSale, OrderTyped DEF SoldSave, Busy
  <2>2. JobsTyped'
    BY <1>0, <1>12, <2>1, EachTyped DEF SoldSave, Job
  <2>3. sold' \in [Tiers -> Nat]
    BY <1>12, <2>1 DEF SoldSave, Job
  <2> QED
    BY <1>12, <2>2, <2>3 DEF SoldSave
<1>13. ASSUME NEW w \in Workers, SoldDone(w)
      PROVE  Typed'
  BY <1>0, <1>13, BusyOnSale, ReturnTyped DEF SoldDone
<1>14. ASSUME NEW w \in Workers, Recount(w)
      PROVE  Typed'
  BY <1>0, <1>14, BusyOnSale, BeginTyped, ReturnTyped DEF Recount
<1>15. ASSUME NEW w \in Workers, Unclaim(w)
      PROVE  Typed'
  BY <1>0, <1>15, BusyOnSale, ReturnTyped DEF Unclaim
<1>16. ASSUME NEW w \in Workers, NEW t \in Tiers, Mint(w, t)
      PROVE  Typed'
  <2>1. job[w].sale \in Sales /\ job[w] \in Job
    BY <1>0, <1>16, BusyOnSale DEF Mint
  <2>2. [job[w].made EXCEPT ![t] = @ + 1] \in [Tiers -> Nat]
    BY <2>1 DEF Job
  <2>3. JobsTyped'
    BY <1>0, <1>16, <2>1, <2>2, BecomesTyped, ConstantsAssumption
       DEF Mint, TaskTyped, Task, Job
  <2>4. tickets' \in [Sales -> [Tiers -> Nat]]
    BY <1>16, <2>1 DEF Mint
  <2> QED
    BY <1>16, <2>3, <2>4 DEF Mint
<1>17. ASSUME NEW w \in Workers, NEW t \in Tiers, SoldRead(w, t)
      PROVE  Typed'
  BY <1>0, <1>17, BusyOnSale, ReadTyped DEF SoldRead
<1>18. ASSUME NEW w \in Workers, FindHold(w)
      PROVE  Typed'
  <2>1. job[w].sale \in Sales /\ job[w].goal \in Goals
    BY <1>0, <1>18, BusyOnSale DEF FindHold, Job
  <2>2. JobsTyped'
    BY <1>0, <1>18, <2>1, EachTyped, SettledTyped DEF FindHold
  <2> QED
    BY <1>18, <2>2 DEF FindHold
<1>19. ASSUME NEW w \in Workers, SaveHold(w)
      PROVE  Typed'
  <2>1. job[w].sale \in Sales /\ job[w].goal \in Goals
    BY <1>0, <1>19, BusyOnSale DEF SaveHold, Job
  <2>2. JobsTyped'
    BY <1>0, <1>19, <2>1, EachTyped, SettledTyped DEF SaveHold
  <2> QED
    BY <1>19, <2>1, <2>2 DEF SaveHold
<1>20. ASSUME NEW w \in Workers, FailSale(w)
      PROVE  Typed'
  BY <1>0, <1>20, BusyOnSale, ReturnTyped DEF FailSale
<1>21. ASSUME NEW w \in Workers, AbandonSale(w)
      PROVE  Typed'
  BY <1>0, <1>21, BusyOnSale, ReturnTyped DEF AbandonSale
<1>22. ASSUME NEW w \in Workers, ExpireSale(w)
      PROVE  Typed'
  BY <1>0, <1>22, BusyOnSale, ReturnTyped DEF ExpireSale
<1>23. ASSUME NEW w \in Workers, RequestRefused(w)
      PROVE  Typed'
  BY <1>0, <1>23, BusyOnSale, BeginTyped, ReturnTyped DEF RequestRefused,
         FailInitiation
<1>24. ASSUME NEW w \in Workers, RequestLost(w)
      PROVE  Typed'
  BY <1>0, <1>24, BusyOnSale, BeginTyped, ReturnTyped, SpendTyped
     DEF RequestLost, FailInitiation
<1>25. ASSUME NEW w \in Workers, PrepareFails(w)
      PROVE  Typed'
  BY <1>0, <1>25, BusyOnSale, BeginTyped, SpendTyped DEF PrepareFails
<1>26. ASSUME NEW w \in Workers, FulfilFails(w)
      PROVE  Typed'
  BY <1>0, <1>26, BusyOnSale, BeginTyped, SpendTyped DEF FulfilFails
<1>27. ASSUME NEW w \in Workers, FinalizeThrows(w)
      PROVE  Typed'
  BY <1>0, <1>27, BusyOnSale, ReturnTyped, SpendTyped DEF FinalizeThrows
<1>28. ASSUME NEW w \in Workers, SettleFails(w)
      PROVE  Typed'
  BY <1>0, <1>28, BusyOnSale, ReturnTyped, SpendTyped DEF SettleFails
<1>29. ASSUME NEW w \in Workers, GiveUp(w)
      PROVE  Typed'
  BY <1>0, <1>29, BusyOnSale, BeginTyped, SpendTyped DEF GiveUp
<1>30. ASSUME NEW w \in Workers, NEW s \in Sales, SweepExpired(w, s)
      PROVE  Typed'
  BY <1>0, <1>30, BusyOnSale, EachTyped DEF SweepExpired
<1>31. ASSUME NEW w \in Workers, NEW s \in Sales, NEW r \in Rails,
              NEW g \in {"poll", "reconcile"}, StartAsking(w, s, r, g)
      PROVE  Typed'
  <2>1. JobsTyped'
    BY <1>0, <1>31, AskTyped DEF StartAsking
  <2> QED
    BY <1>31, <2>1 DEF StartAsking
<1>32. ASSUME NEW w \in Workers, NEW s \in Sales, ResolveCart(w, s)
      PROVE  Typed'
  BY <1>0, <1>32, BusyOnSale, BeginTyped DEF ResolveCart
<1>33. ASSUME NEW w \in Workers, NEW s \in Sales, NEW a \in {"success",
              "mismatch", "rejected", "pending"}, HearYeboPay(w, s, a)
      PROVE  Typed'
  <2>1. JobsTyped'
    BY <1>0, <1>33, AskTyped DEF HearYeboPay
  <2> QED
    BY <1>33, <2>1 DEF HearYeboPay
<1>34. ASSUME NEW w \in Workers, NEW s \in Sales, NEW e \in {"success",
              "mismatch", "rejected"}, FinalizeYoco(w, s, e)
      PROVE  Typed'
  BY <1>0, <1>34, BusyOnSale, BeginTyped, ReturnTyped DEF FinalizeYoco, Verdict
<1>35. ASSUME NEW s \in Sales, BuyerPays(s) PROVE Typed'
  <2>1. pay' \in [Sales -> {"none", "open", "paid", "mismatch", "declined"}]
    BY <1>35 DEF BuyerPays
  <2>2. PICK e \in {"success", "mismatch", "rejected"} :
          events' = [events EXCEPT ![s] = @ \cup {e}]
    BY <1>35 DEF BuyerPays
  <2>3. events' \in [Sales -> SUBSET {"success", "mismatch", "rejected"}]
    BY <2>2
  <2> QED
    BY <1>35, <2>1, <2>3 DEF BuyerPays, Busy
<1>36. ASSUME NEW s \in Sales, ProviderDeclines(s) PROVE Typed'
  <2>1. pay' \in [Sales -> {"none", "open", "paid", "mismatch", "declined"}]
    BY <1>36 DEF ProviderDeclines
  <2>2. PICK e \in {"success", "mismatch", "rejected"} :
          events' = [events EXCEPT ![s] = @ \cup {e}]
    BY <1>36 DEF ProviderDeclines
  <2>3. events' \in [Sales -> SUBSET {"success", "mismatch", "rejected"}]
    BY <2>2
  <2> QED
    BY <1>36, <2>1, <2>3 DEF ProviderDeclines, Busy
<1>41. ASSUME NEW s \in Sales, Lapse(s) PROVE Typed'
  BY <1>41 DEF Lapse, Busy
<1>42. ASSUME Crash PROVE Typed'
  <2>1. Idle \in Job /\ Idle.pc = "idle" /\ Idle.sale = NoSale
    BY ConstantsAssumption DEF Idle, Task, Job, Nothing
  <2>2. JobsTyped'
    BY <1>42, <2>1 DEF Crash, Busy
  <2> QED
    BY <1>42, <2>2, SpendTyped DEF Crash
<1>37. ASSUME UNCHANGED vars PROVE Typed'
  BY <1>37 DEF vars, Busy
<1>38. ASSUME NEW s \in Sales PROVE Answer(s) \in {"success", "mismatch",
              "rejected", "pending"}
  BY DEF Answer
<1>39. ASSUME NEW w \in Workers, Continue(w) \/ Fault(w) PROVE Typed'
  BY ONLY <1>39, <1>1, <1>2, <1>3, <1>4, <1>5, <1>6, <1>7, <1>8, <1>9, <1>10,
          <1>11, <1>12, <1>13, <1>14, <1>15, <1>16, <1>17, <1>18, <1>19, <1>20,
            <1>21, <1>22, <1>23, <1>24, <1>25, <1>26, <1>27, <1>28, <1>29
     DEF Continue, Fault, Checkout, Adjust, Finalize, Fulfil, Settle, Rails,
         RequestMomo, RequestCard, RequestDeltapay, RequestYoco, RequestYeboPay
<1>40. ASSUME NEW w \in Workers, NEW s \in Sales, Timer(w, s) \/ Request(w, s)
       PROVE  Typed'
  <2>1. events[s] \subseteq {"success", "mismatch", "rejected"}
    OBVIOUS
  <2> QED
    BY ONLY <1>40, <2>1, <1>38, <1>30, <1>31, <1>32, <1>33, <1>34
     DEF Timer, Request, ReconcileMomo, FinalizeMomo, FinalizeCard,
            FinalizeDeltapay, Rails,
         ReconcileYeboPay, ReturnYeboPay, WebhookYeboPay
<1> QED
  BY <1>35, <1>36, <1>37, <1>39, <1>40, <1>41, <1>42 DEF Next, World

-----------------------------------------------------------------------------
(* What a step does to the jobs. *)
Others(w) == \A v \in Workers \ {w} : job'[v] = job[v]

(* A step that gives w the task j leaves the other handlers alone. *)
LEMMA BecomesMoves ==
    ASSUME JobsTyped, NEW w \in Workers, NEW j, Becomes(w, j)
    PROVE  job'[w] = j /\ Others(w)
BY DEF JobsTyped, Becomes, Others

(* What is known of w after it began, turned to lines, read or returned. *)
LEMMA BeginMoves ==
    ASSUME JobsTyped, NEW w \in Workers, NEW s, NEW p, NEW g, Begin(w, s, p, g)
    PROVE  /\ job'[w].sale = s /\ job'[w].pc = p /\ job'[w].goal = g
           /\ job'[w].made = Nothing
           /\ Others(w)
BY BecomesMoves DEF Begin, Task

LEMMA EachMoves ==
    ASSUME JobsTyped, NEW w \in Workers, NEW s, NEW p, NEW g, NEW ts,
           Each(w, s, p, g, ts)
    PROVE  /\ job'[w].sale = s /\ job'[w].pc = p /\ job'[w].goal = g
           /\ Others(w)
BY BecomesMoves DEF Each, Task

LEMMA ReadMoves ==
    ASSUME JobsTyped, NEW w \in Workers, NEW p, NEW t, NEW n, Read(w, p, t, n)
    PROVE  /\ job'[w].sale = job[w].sale /\ job'[w].goal = job[w].goal
           /\ job'[w].pc = p
           /\ Others(w)
BY BecomesMoves DEF Read, Task

LEMMA ReturnMoves ==
    ASSUME JobsTyped, NEW w \in Workers, Return(w)
    PROVE  /\ job'[w].sale = NoSale /\ job'[w].pc = "idle"
           /\ Others(w)
BY BecomesMoves DEF Return, Idle, Task

(* A handler that minted a ticket goes on minting. *)
LEMMA MintMoves ==
    ASSUME JobsTyped, NEW w \in Workers, NEW t, Mint(w, t)
    PROVE  /\ job'[w].sale = job[w].sale /\ job'[w].pc = "mint"
           /\ job'[w].goal = "none"
           /\ job'[w].made = [job[w].made EXCEPT ![t] = @ + 1]
           /\ Others(w)
BY BecomesMoves DEF Mint, Task

(* The provider gives one of four answers. *)
LEMMA AnswerTyped ==
    ASSUME NEW s
    PROVE  Answer(s) \in {"success", "mismatch", "rejected", "pending"}
BY DEF Answer

(* Every step keeps one creator for a sale. *)
LEMMA OneCreatorStep ==
    ASSUME Typed, OneCreator, [Next]_vars
    PROVE  OneCreator'
<1> USE DEF saleVars, stockVars, provVars, At, OneCreator, Creating, Others,
       Busy
<1>0. JobsTyped /\ TypeOK /\ Busy
  BY DEF JobsTyped, Typed, TypeOK
<1>0a. NoSale \notin Sales
  BY ConstantsAssumption
<1>1. ASSUME NEW w \in Workers, SaveCheckout(w)
      PROVE  OneCreator'
  <2>1. At(w, "checkout") /\ job[w].sale \in Sales
    BY <1>0, <1>1, BusyOnSale DEF SaveCheckout
  <2>2. /\ job'[w].sale = job[w].sale /\ job'[w].pc = "adjust"
        /\ Others(w)
    BY <1>0, <1>1, EachMoves DEF SaveCheckout
  <2>3. /\ status' = [status EXCEPT ![job[w].sale] = "PENDING"]
        /\ UNCHANGED <<ref, hold, pay>>
    BY <1>1 DEF SaveCheckout
  <2>4. ASSUME NEW s \in Sales, NEW v \in Workers, Creating(v, s)'
        PROVE  Creating(v, s)
    BY <1>0a, <2>1, <2>2, <2>4
  <2>5. ASSUME NEW s \in Sales, NEW v \in Workers, job'[v].sale = s
        PROVE  At(v, "checkout")' <=> status'[s] = "none"
    <3>1. CASE v = w
      BY <1>0, <2>1, <2>2, <2>3, <2>5, <3>1 DEF TypeOK
    <3>2. CASE v # w
      BY <1>0, <2>1, <2>2, <2>3, <2>5, <3>2 DEF TypeOK
    <3> QED
      BY <3>1, <3>2
  <2>6. \A s \in Sales : status'[s] = "none" => status[s] = "none"
    BY <1>0, <2>3
  <2> QED
    BY <2>3, <2>4, <2>5, <2>6
<1>2. ASSUME NEW w \in Workers, CreateHold(w)
      PROVE  OneCreator'
  BY <1>0, <1>0a, <1>2, BusyOnSale, BeginMoves DEF CreateHold
<1>3. ASSUME NEW w \in Workers, SaveRef(w)
      PROVE  OneCreator'
  BY <1>0, <1>0a, <1>3, BusyOnSale, ReturnMoves DEF SaveRef
<1>4. ASSUME NEW w \in Workers, NEW r \in Rails, OpenPayment(w, r)
      PROVE  OneCreator'
  BY <1>0, <1>0a, <1>4, BusyOnSale, BeginMoves DEF OpenPayment
<1>5. ASSUME NEW w \in Workers, AdjustSave(w)
      PROVE  OneCreator'
  BY <1>0, <1>0a, <1>5, BusyOnSale, EachMoves DEF AdjustSave
<1>6. ASSUME NEW w \in Workers, NEW t \in Tiers, AdjustRead(w, t)
      PROVE  OneCreator'
  BY <1>0, <1>0a, <1>6, BusyOnSale, ReadMoves DEF AdjustRead
<1>7. ASSUME NEW w \in Workers, Ask(w)
      PROVE  OneCreator'
  BY <1>0, <1>0a, <1>7, BusyOnSale, BeginMoves, ReturnMoves DEF Ask, Answer,
         Verdict
<1>8. ASSUME NEW w \in Workers, FinalizeYeboPay(w)
      PROVE  OneCreator'
  BY <1>0, <1>0a, <1>8, BusyOnSale, BeginMoves, ReturnMoves DEF FinalizeYeboPay,
         Finalizable, Verdict
<1>9. ASSUME NEW w \in Workers, Claim(w)
      PROVE  OneCreator'
  <2>1. At(w, "claim") /\ job[w].sale \in Sales
    BY <1>0, <1>9, BusyOnSale DEF Claim
  <2>2. /\ \/ /\ job'[w].sale = job[w].sale /\ job'[w].pc = "load"
              /\ job'[w].goal = "none"
           \/ job'[w].sale = NoSale
        /\ Others(w)
    BY <1>0, <1>9, BeginMoves, ReturnMoves DEF Claim
  <2>3. /\ \A s \in Sales : status'[s] = "none" <=> status[s] = "none"
        /\ UNCHANGED <<ref, hold, pay>>
    BY <1>0, <1>9, <2>1 DEF Claim, Claimable, TypeOK
  <2> QED
    BY <1>0, <1>0a, <2>1, <2>2, <2>3
<1>10. ASSUME NEW w \in Workers, LoadEvent(w)
      PROVE  OneCreator'
  BY <1>0, <1>0a, <1>10, BusyOnSale, BeginMoves DEF LoadEvent
<1>11. ASSUME NEW w \in Workers, LinkTickets(w)
      PROVE  OneCreator'
  BY <1>0, <1>0a, <1>11, BusyOnSale, BeginMoves DEF LinkTickets
<1>12. ASSUME NEW w \in Workers, SoldSave(w)
      PROVE  OneCreator'
  BY <1>0, <1>0a, <1>12, BusyOnSale, EachMoves DEF SoldSave
<1>13. ASSUME NEW w \in Workers, SoldDone(w)
      PROVE  OneCreator'
  BY <1>0, <1>0a, <1>13, BusyOnSale, ReturnMoves DEF SoldDone
<1>14. ASSUME NEW w \in Workers, Recount(w)
      PROVE  OneCreator'
  BY <1>0, <1>0a, <1>14, BusyOnSale, BeginMoves, ReturnMoves DEF Recount,
         NothingMinted
<1>15. ASSUME NEW w \in Workers, Unclaim(w)
      PROVE  OneCreator'
  BY <1>0, <1>0a, <1>15, BusyOnSale, ReturnMoves DEF Unclaim
<1>16. ASSUME NEW w \in Workers, NEW t \in Tiers, Mint(w, t)
      PROVE  OneCreator'
  <2>1. At(w, "mint") /\ job[w].sale \in Sales
    BY <1>0, <1>16, BusyOnSale DEF Mint
  <2>2. /\ job'[w].sale = job[w].sale /\ job'[w].pc = "mint"
        /\ job'[w].goal = "none"
        /\ Others(w)
    BY <1>0, <1>16, MintMoves
  <2>3. UNCHANGED <<status, ref, hold, pay>>
    BY <1>16 DEF Mint
  <2>4. ASSUME NEW s \in Sales, NEW v \in Workers, Creating(v, s)'
        PROVE  Creating(v, s)
    BY <1>0a, <2>1, <2>2, <2>4
  <2>5. ASSUME NEW s \in Sales, NEW v \in Workers, job'[v].sale = s
        PROVE  job[v].sale = s /\ (At(v, "checkout")' <=> At(v, "checkout"))
    BY <1>0a, <2>1, <2>2, <2>5
  <2> QED
    BY <2>3, <2>4, <2>5
<1>17. ASSUME NEW w \in Workers, NEW t \in Tiers, SoldRead(w, t)
      PROVE  OneCreator'
  BY <1>0, <1>0a, <1>17, BusyOnSale, ReadMoves DEF SoldRead
<1>18. ASSUME NEW w \in Workers, FindHold(w)
      PROVE  OneCreator'
  BY <1>0, <1>0a, <1>18, BusyOnSale, EachMoves, BeginMoves, ReturnMoves
     DEF FindHold, Settled
<1>19. ASSUME NEW w \in Workers, SaveHold(w)
      PROVE  OneCreator'
  BY <1>0, <1>0a, <1>19, BusyOnSale, EachMoves, BeginMoves, ReturnMoves
     DEF SaveHold, Settled
<1>20. ASSUME NEW w \in Workers, FailSale(w)
      PROVE  OneCreator'
  BY <1>0, <1>0a, <1>20, BusyOnSale, ReturnMoves DEF FailSale
<1>21. ASSUME NEW w \in Workers, AbandonSale(w)
      PROVE  OneCreator'
  BY <1>0, <1>0a, <1>21, BusyOnSale, ReturnMoves DEF AbandonSale
<1>22. ASSUME NEW w \in Workers, ExpireSale(w)
      PROVE  OneCreator'
  BY <1>0, <1>0a, <1>22, BusyOnSale, ReturnMoves DEF ExpireSale
<1>23. ASSUME NEW w \in Workers, RequestRefused(w)
      PROVE  OneCreator'
  BY <1>0, <1>0a, <1>23, BusyOnSale, BeginMoves, ReturnMoves DEF RequestRefused,
         FailInitiation
<1>24. ASSUME NEW w \in Workers, RequestLost(w)
      PROVE  OneCreator'
  BY <1>0, <1>0a, <1>24, BusyOnSale, BeginMoves, ReturnMoves DEF RequestLost,
         FailInitiation
<1>25. ASSUME NEW w \in Workers, PrepareFails(w)
      PROVE  OneCreator'
  BY <1>0, <1>0a, <1>25, BusyOnSale, BeginMoves DEF PrepareFails
<1>26. ASSUME NEW w \in Workers, FulfilFails(w)
      PROVE  OneCreator'
  BY <1>0, <1>0a, <1>26, BusyOnSale, BeginMoves DEF FulfilFails
<1>27. ASSUME NEW w \in Workers, FinalizeThrows(w)
      PROVE  OneCreator'
  BY <1>0, <1>0a, <1>27, BusyOnSale, ReturnMoves DEF FinalizeThrows
<1>28. ASSUME NEW w \in Workers, SettleFails(w)
      PROVE  OneCreator'
  BY <1>0, <1>0a, <1>28, BusyOnSale, ReturnMoves DEF SettleFails
<1>29. ASSUME NEW w \in Workers, GiveUp(w)
      PROVE  OneCreator'
  BY <1>0, <1>0a, <1>29, BusyOnSale, BeginMoves DEF GiveUp
<1>30. ASSUME NEW w \in Workers, NEW s \in Sales, SweepExpired(w, s)
      PROVE  OneCreator'
  BY <1>0, <1>0a, <1>30, BusyOnSale, EachMoves DEF SweepExpired, Sweepable
<1>31. ASSUME NEW w \in Workers, NEW s \in Sales, NEW r \in Rails,
              NEW g \in {"poll", "reconcile"}, StartAsking(w, s, r, g)
      PROVE  OneCreator'
  BY <1>0, <1>0a, <1>31, BusyOnSale, BeginMoves DEF StartAsking, Finalizable
<1>32. ASSUME NEW w \in Workers, NEW s \in Sales, ResolveCart(w, s)
      PROVE  OneCreator'
  BY <1>0, <1>0a, <1>32, BusyOnSale, BeginMoves DEF ResolveCart
<1>33. ASSUME NEW w \in Workers, NEW s \in Sales, NEW a \in {"success",
              "mismatch", "rejected", "pending"}, HearYeboPay(w, s, a)
      PROVE  OneCreator'
  BY <1>0, <1>0a, <1>33, BusyOnSale, BeginMoves DEF HearYeboPay
<1>34. ASSUME NEW w \in Workers, NEW s \in Sales, NEW e \in {"success",
              "mismatch", "rejected"}, FinalizeYoco(w, s, e)
      PROVE  OneCreator'
  BY <1>0, <1>0a, <1>34, BusyOnSale, BeginMoves, ReturnMoves DEF FinalizeYoco,
         Finalizable, Verdict
<1>35. ASSUME NEW s \in Sales, BuyerPays(s) PROVE OneCreator'
  BY <1>0, <1>35 DEF BuyerPays, TypeOK
<1>36. ASSUME NEW s \in Sales, ProviderDeclines(s) PROVE OneCreator'
  BY <1>0, <1>36 DEF ProviderDeclines, TypeOK
<1>37. ASSUME NEW s \in Sales, Lapse(s) PROVE OneCreator'
  BY <1>0, <1>37 DEF Lapse
<1>38. ASSUME Crash PROVE OneCreator'
  BY <1>0a, <1>38 DEF Crash, Idle, Task
<1>39. ASSUME UNCHANGED vars PROVE OneCreator'
  BY <1>39 DEF vars
<1>40. ASSUME NEW w \in Workers, Continue(w) \/ Fault(w) PROVE OneCreator'
  BY ONLY <1>40, <1>1, <1>2, <1>3, <1>4, <1>5, <1>6, <1>7, <1>8, <1>9, <1>10,
          <1>11, <1>12, <1>13, <1>14, <1>15, <1>16, <1>17, <1>18, <1>19, <1>20,
            <1>21, <1>22, <1>23, <1>24, <1>25, <1>26, <1>27, <1>28, <1>29
     DEF Continue, Fault, Checkout, Adjust, Finalize, Fulfil, Settle, Rails,
         RequestMomo, RequestCard, RequestDeltapay, RequestYoco, RequestYeboPay
<1>41. ASSUME NEW w \in Workers, NEW s \in Sales, Timer(w, s) \/ Request(w, s)
       PROVE  OneCreator'
  <2>1. events[s] \subseteq {"success", "mismatch", "rejected"}
    BY <1>0 DEF TypeOK
  <2> QED
    BY ONLY <1>41, <2>1, AnswerTyped, <1>30, <1>31, <1>32, <1>33, <1>34
     DEF Timer, Request, ReconcileMomo, FinalizeMomo, FinalizeCard,
         FinalizeDeltapay, Rails, ReconcileYeboPay, ReturnYeboPay,
           WebhookYeboPay
<1> QED
  BY <1>35, <1>36, <1>37, <1>38, <1>39, <1>40, <1>41 DEF Next, World
(* Every step keeps one fulfiller for a sale: only Claim makes one, of a       *)
(* PENDING sale that had none, and only Unclaim, of a sale whose fulfiller    *)
(* minted nothing, makes a sale PENDING again.                                *)
LEMMA OneFulfillerStep ==
    ASSUME Typed, OneCreator, OneFulfiller, [Next]_vars
    PROVE  OneFulfiller'
<1> USE DEF saleVars, stockVars, provVars, At, OneFulfiller, Fulfilling,
       Others, Busy
<1>0. JobsTyped /\ TypeOK /\ Busy
  BY DEF JobsTyped, Typed, TypeOK
<1>0a. NoSale \notin Sales
  BY ConstantsAssumption
<1>1. ASSUME NEW w \in Workers, SaveCheckout(w)
      PROVE  OneFulfiller'
  <2>1. /\ At(w, "checkout") /\ job[w].sale \in Sales
        /\ status[job[w].sale] = "none"
    BY <1>0, <1>1, BusyOnSale DEF SaveCheckout, OneCreator
  <2>2. /\ job'[w].sale = job[w].sale /\ job'[w].pc = "adjust"
        /\ job'[w].goal = "reserve"
        /\ Others(w)
    BY <1>0, <1>1, EachMoves DEF SaveCheckout
  <2>3. /\ \A s \in Sales \ {job[w].sale} : status'[s] = status[s]
        /\ UNCHANGED tickets
    BY <1>0, <1>1 DEF SaveCheckout, TypeOK
  <2> QED
    BY <1>0, <1>0a, <2>1, <2>2, <2>3
<1>2. ASSUME NEW w \in Workers, CreateHold(w)
      PROVE  OneFulfiller'
  BY <1>0, <1>0a, <1>2, BusyOnSale, BeginMoves DEF CreateHold
<1>3. ASSUME NEW w \in Workers, SaveRef(w)
      PROVE  OneFulfiller'
  BY <1>0, <1>0a, <1>3, BusyOnSale, ReturnMoves DEF SaveRef
<1>4. ASSUME NEW w \in Workers, NEW r \in Rails, OpenPayment(w, r)
      PROVE  OneFulfiller'
  BY <1>0, <1>0a, <1>4, BusyOnSale, BeginMoves DEF OpenPayment
<1>5. ASSUME NEW w \in Workers, AdjustSave(w)
      PROVE  OneFulfiller'
  BY <1>0, <1>0a, <1>5, BusyOnSale, EachMoves DEF AdjustSave
<1>6. ASSUME NEW w \in Workers, NEW t \in Tiers, AdjustRead(w, t)
      PROVE  OneFulfiller'
  BY <1>0, <1>0a, <1>6, BusyOnSale, ReadMoves DEF AdjustRead
<1>7. ASSUME NEW w \in Workers, Ask(w)
      PROVE  OneFulfiller'
  BY <1>0, <1>0a, <1>7, BusyOnSale, BeginMoves, ReturnMoves DEF Ask, Answer,
         Verdict
<1>8. ASSUME NEW w \in Workers, FinalizeYeboPay(w)
      PROVE  OneFulfiller'
  BY <1>0, <1>0a, <1>8, BusyOnSale, BeginMoves, ReturnMoves DEF FinalizeYeboPay,
         Finalizable, Verdict
<1>9. ASSUME NEW w \in Workers, Claim(w)
      PROVE  OneFulfiller'
  <2>1. At(w, "claim") /\ job[w].sale \in Sales
    BY <1>0, <1>9, BusyOnSale DEF Claim
  <2>2. CASE Claimable(job[w].sale)
    <3>1. /\ job'[w].sale = job[w].sale /\ job'[w].pc = "load"
          /\ job'[w].goal = "none" /\ job'[w].made = Nothing
          /\ Others(w)
      BY <1>0, <1>9, <2>2, BeginMoves DEF Claim
    <3>2. /\ status'[job[w].sale] = "COMPLETED"
          /\ \A s \in Sales \ {job[w].sale} : status'[s] = status[s]
          /\ UNCHANGED tickets
      BY <1>0, <1>9, <2>1, <2>2 DEF Claim, TypeOK
    <3>3. /\ tickets[job[w].sale] = Nothing
          /\ \A v \in Workers : ~Fulfilling(v, job[w].sale)
      BY <2>1, <2>2 DEF Claimable
    <3> QED
      BY <1>0, <1>0a, <2>1, <3>1, <3>2, <3>3
  <2>3. CASE ~Claimable(job[w].sale)
    BY <1>0, <1>0a, <1>9, <2>3, ReturnMoves DEF Claim
  <2> QED
    BY <2>2, <2>3
<1>10. ASSUME NEW w \in Workers, LoadEvent(w)
      PROVE  OneFulfiller'
  BY <1>0, <1>0a, <1>10, BusyOnSale, BeginMoves DEF LoadEvent
<1>11. ASSUME NEW w \in Workers, LinkTickets(w)
      PROVE  OneFulfiller'
  BY <1>0, <1>0a, <1>11, BusyOnSale, BeginMoves DEF LinkTickets
<1>12. ASSUME NEW w \in Workers, SoldSave(w)
      PROVE  OneFulfiller'
  BY <1>0, <1>0a, <1>12, BusyOnSale, EachMoves DEF SoldSave
<1>13. ASSUME NEW w \in Workers, SoldDone(w)
      PROVE  OneFulfiller'
  BY <1>0, <1>0a, <1>13, BusyOnSale, ReturnMoves DEF SoldDone
<1>14. ASSUME NEW w \in Workers, Recount(w)
      PROVE  OneFulfiller'
  BY <1>0, <1>0a, <1>14, BusyOnSale, BeginMoves, ReturnMoves DEF Recount,
         NothingMinted
<1>15. ASSUME NEW w \in Workers, Unclaim(w)
      PROVE  OneFulfiller'
  BY <1>0, <1>0a, <1>15, BusyOnSale, ReturnMoves DEF Unclaim
<1>16. ASSUME NEW w \in Workers, NEW t \in Tiers, Mint(w, t)
      PROVE  OneFulfiller'
  <2>1. /\ At(w, "mint") /\ job[w].sale \in Sales
        /\ job[w].made = tickets[job[w].sale]
    BY <1>0, <1>16, BusyOnSale DEF Mint
  <2>2. /\ job'[w].sale = job[w].sale /\ job'[w].pc = "mint"
        /\ job'[w].goal = "none"
        /\ job'[w].made = [tickets[job[w].sale] EXCEPT ![t] = @ + 1]
        /\ Others(w)
    BY <1>0, <1>16, <2>1, MintMoves
  <2>3. /\ tickets'[job[w].sale] = [tickets[job[w].sale] EXCEPT ![t] = @ + 1]
        /\ \A s \in Sales \ {job[w].sale} : tickets'[s] = tickets[s]
        /\ UNCHANGED status
    BY <1>0, <1>16, <2>1 DEF Mint, TypeOK
  <2>4. Fulfilling(w, job[w].sale)
    BY <2>1
  <2> QED
    BY <1>0, <1>0a, <2>1, <2>2, <2>3, <2>4
<1>17. ASSUME NEW w \in Workers, NEW t \in Tiers, SoldRead(w, t)
      PROVE  OneFulfiller'
  BY <1>0, <1>0a, <1>17, BusyOnSale, ReadMoves DEF SoldRead
<1>18. ASSUME NEW w \in Workers, FindHold(w)
      PROVE  OneFulfiller'
  BY <1>0, <1>0a, <1>18, BusyOnSale, EachMoves, BeginMoves, ReturnMoves
     DEF FindHold, Settled
<1>19. ASSUME NEW w \in Workers, SaveHold(w)
      PROVE  OneFulfiller'
  BY <1>0, <1>0a, <1>19, BusyOnSale, EachMoves, BeginMoves, ReturnMoves
     DEF SaveHold, Settled
<1>20. ASSUME NEW w \in Workers, FailSale(w)
      PROVE  OneFulfiller'
  BY <1>0, <1>0a, <1>20, BusyOnSale, ReturnMoves DEF FailSale
<1>21. ASSUME NEW w \in Workers, AbandonSale(w)
      PROVE  OneFulfiller'
  BY <1>0, <1>0a, <1>21, BusyOnSale, ReturnMoves DEF AbandonSale
<1>22. ASSUME NEW w \in Workers, ExpireSale(w)
      PROVE  OneFulfiller'
  BY <1>0, <1>0a, <1>22, BusyOnSale, ReturnMoves DEF ExpireSale
<1>23. ASSUME NEW w \in Workers, RequestRefused(w)
      PROVE  OneFulfiller'
  BY <1>0, <1>0a, <1>23, BusyOnSale, BeginMoves, ReturnMoves DEF RequestRefused,
         FailInitiation
<1>24. ASSUME NEW w \in Workers, RequestLost(w)
      PROVE  OneFulfiller'
  BY <1>0, <1>0a, <1>24, BusyOnSale, BeginMoves, ReturnMoves DEF RequestLost,
         FailInitiation
<1>25. ASSUME NEW w \in Workers, PrepareFails(w)
      PROVE  OneFulfiller'
  BY <1>0, <1>0a, <1>25, BusyOnSale, BeginMoves DEF PrepareFails
<1>26. ASSUME NEW w \in Workers, FulfilFails(w)
      PROVE  OneFulfiller'
  BY <1>0, <1>0a, <1>26, BusyOnSale, BeginMoves DEF FulfilFails
<1>27. ASSUME NEW w \in Workers, FinalizeThrows(w)
      PROVE  OneFulfiller'
  BY <1>0, <1>0a, <1>27, BusyOnSale, ReturnMoves DEF FinalizeThrows
<1>28. ASSUME NEW w \in Workers, SettleFails(w)
      PROVE  OneFulfiller'
  BY <1>0, <1>0a, <1>28, BusyOnSale, ReturnMoves DEF SettleFails
<1>29. ASSUME NEW w \in Workers, GiveUp(w)
      PROVE  OneFulfiller'
  BY <1>0, <1>0a, <1>29, BusyOnSale, BeginMoves DEF GiveUp
<1>30. ASSUME NEW w \in Workers, NEW s \in Sales, SweepExpired(w, s)
      PROVE  OneFulfiller'
  BY <1>0, <1>0a, <1>30, BusyOnSale, EachMoves DEF SweepExpired, Sweepable
<1>31. ASSUME NEW w \in Workers, NEW s \in Sales, NEW r \in Rails,
              NEW g \in {"poll", "reconcile"}, StartAsking(w, s, r, g)
      PROVE  OneFulfiller'
  BY <1>0, <1>0a, <1>31, BusyOnSale, BeginMoves DEF StartAsking, Finalizable
<1>32. ASSUME NEW w \in Workers, NEW s \in Sales, ResolveCart(w, s)
      PROVE  OneFulfiller'
  BY <1>0, <1>0a, <1>32, BusyOnSale, BeginMoves DEF ResolveCart
<1>33. ASSUME NEW w \in Workers, NEW s \in Sales, NEW a \in {"success",
              "mismatch", "rejected", "pending"}, HearYeboPay(w, s, a)
      PROVE  OneFulfiller'
  BY <1>0, <1>0a, <1>33, BusyOnSale, BeginMoves DEF HearYeboPay
<1>34. ASSUME NEW w \in Workers, NEW s \in Sales, NEW e \in {"success",
              "mismatch", "rejected"}, FinalizeYoco(w, s, e)
      PROVE  OneFulfiller'
  BY <1>0, <1>0a, <1>34, BusyOnSale, BeginMoves, ReturnMoves DEF FinalizeYoco,
         Finalizable, Verdict
<1>35. ASSUME NEW s \in Sales, BuyerPays(s) PROVE OneFulfiller'
  BY <1>0, <1>35 DEF BuyerPays, TypeOK
<1>36. ASSUME NEW s \in Sales, ProviderDeclines(s) PROVE OneFulfiller'
  BY <1>0, <1>36 DEF ProviderDeclines, TypeOK
<1>37. ASSUME NEW s \in Sales, Lapse(s) PROVE OneFulfiller'
  BY <1>0, <1>37 DEF Lapse
<1>38. ASSUME Crash PROVE OneFulfiller'
  BY <1>0a, <1>38 DEF Crash, Idle, Task
<1>39. ASSUME UNCHANGED vars PROVE OneFulfiller'
  BY <1>39 DEF vars
<1>40. ASSUME NEW w \in Workers, Continue(w) \/ Fault(w) PROVE OneFulfiller'
  BY ONLY <1>40, <1>1, <1>2, <1>3, <1>4, <1>5, <1>6, <1>7, <1>8, <1>9, <1>10,
          <1>11, <1>12, <1>13, <1>14, <1>15, <1>16, <1>17, <1>18, <1>19, <1>20,
            <1>21, <1>22, <1>23, <1>24, <1>25, <1>26, <1>27, <1>28, <1>29
     DEF Continue, Fault, Checkout, Adjust, Finalize, Fulfil, Settle, Rails,
         RequestMomo, RequestCard, RequestDeltapay, RequestYoco, RequestYeboPay
<1>41. ASSUME NEW w \in Workers, NEW s \in Sales, Timer(w, s) \/ Request(w, s)
       PROVE  OneFulfiller'
  <2>1. events[s] \subseteq {"success", "mismatch", "rejected"}
    BY <1>0 DEF TypeOK
  <2> QED
    BY ONLY <1>41, <2>1, AnswerTyped, <1>30, <1>31, <1>32, <1>33, <1>34
     DEF Timer, Request, ReconcileMomo, FinalizeMomo, FinalizeCard,
         FinalizeDeltapay, Rails, ReconcileYeboPay, ReturnYeboPay,
           WebhookYeboPay
<1> QED
  BY <1>35, <1>36, <1>37, <1>38, <1>39, <1>40, <1>41 DEF Next, World

(* Tickets appear by Mint only. *)
LEMMA OnlyMintMints ==
    ASSUME [Next]_vars
    PROVE  /\ UNCHANGED order
           /\ UNCHANGED tickets \/ \E w \in Workers, t \in Tiers : Mint(w, t)
<1> USE DEF saleVars, stockVars, provVars
<1>1. ASSUME NEW w \in Workers, Checkout(w) \/ Adjust(w) \/ Finalize(w)
      PROVE  UNCHANGED <<order, tickets>>
  BY <1>1
     DEF Checkout, SaveCheckout, CreateHold, SaveRef, RequestMomo, RequestCard,
         RequestDeltapay, RequestYoco, RequestYeboPay, OpenPayment,
         Adjust, AdjustRead, AdjustSave, Finalize, Ask, FinalizeYeboPay, Claim
<1>2. ASSUME NEW w \in Workers, Fulfil(w)
      PROVE  UNCHANGED order /\ (UNCHANGED tickets \/ \E t \in Tiers : Mint(w,
        t))
  <2>1. ASSUME NEW t \in Tiers, Mint(w, t) PROVE UNCHANGED order
    BY <2>1 DEF Mint
  <2> QED
    BY <1>2, <2>1
       DEF Fulfil, LoadEvent, LinkTickets, SoldRead, SoldSave, SoldDone,
              Recount,
           Unclaim
<1>3. ASSUME NEW w \in Workers, Settle(w) \/ Fault(w)
      PROVE  UNCHANGED <<order, tickets>>
  BY <1>3
     DEF Settle, FindHold, SaveHold, FailSale, AbandonSale, ExpireSale,
         Fault, RequestRefused, RequestLost, PrepareFails, FulfilFails,
         FinalizeThrows, SettleFails, GiveUp
<1>4. ASSUME NEW w \in Workers, NEW s \in Sales, Timer(w, s) \/ Request(w, s)
      PROVE  UNCHANGED <<order, tickets>>
  BY <1>4
     DEF Timer, SweepExpired, ReconcileMomo, FinalizeCard, FinalizeDeltapay,
         ReconcileYeboPay, StartAsking, Request, ResolveCart, FinalizeMomo,
         ReturnYeboPay, FinalizeYoco, WebhookYeboPay, HearYeboPay
<1>5. ASSUME Crash \/ \E s \in Sales : World(s)
      PROVE  UNCHANGED <<order, tickets>>
  BY <1>5 DEF Crash, World, BuyerPays, ProviderDeclines, Lapse
<1>6. ASSUME UNCHANGED vars PROVE UNCHANGED <<order, tickets>>
  BY <1>6 DEF vars
<1> QED
  BY <1>1, <1>2, <1>3, <1>4, <1>5, <1>6 DEF Next, Continue

(* A fulfiller knows what it minted, so it stops at the cart. *)
LEMMA NoDoubleMintStep ==
    ASSUME Typed, OneFulfiller, NoDoubleMint, [Next]_vars
    PROVE  NoDoubleMint'
<1>1. CASE UNCHANGED <<order, tickets>>
  BY <1>1 DEF NoDoubleMint
<1>2. ASSUME UNCHANGED order,
             NEW w \in Workers, NEW t \in Tiers, Mint(w, t)
      PROVE  NoDoubleMint'
  <2>1. /\ At(w, "mint") /\ job[w].sale \in Sales
        /\ tickets[job[w].sale] = job[w].made
    BY <1>2, BusyOnSale DEF Mint, At, OneFulfiller, JobsTyped, Typed, TypeOK
  <2>2. /\ tickets[job[w].sale][t] < order[job[w].sale].cart[t]
        /\ tickets' = [tickets EXCEPT ![job[w].sale][t] = @ + 1]
    BY <1>2, <2>1 DEF Mint
  <2>3. /\ tickets \in [Sales -> [Tiers -> Nat]]
        /\ \A s \in Sales : order[s].cart \in [Tiers -> Nat]
    BY OrderTyped DEF Typed, TypeOK
  <2> QED
    BY <1>2, <2>1, <2>2, <2>3 DEF NoDoubleMint
<1> QED
  BY <1>1, <1>2, OnlyMintMints

(* Every step keeps claims and tickets paid for. *)
LEMMA PaidForStep ==
    ASSUME Typed, OneCreator, OneFulfiller, PaidFor, [Next]_vars
    PROVE  PaidFor'
<1> USE DEF saleVars, stockVars, provVars, At, PaidFor, Fulfilling, Creating,
       Others, Busy
<1>0. JobsTyped /\ TypeOK /\ Busy
  BY DEF JobsTyped, Typed, TypeOK
<1>0a. NoSale \notin Sales
  BY ConstantsAssumption
<1>1. ASSUME NEW w \in Workers, SaveCheckout(w)
      PROVE  PaidFor'
  BY <1>0, <1>0a, <1>1, BusyOnSale, EachMoves DEF SaveCheckout
<1>2. ASSUME NEW w \in Workers, CreateHold(w)
      PROVE  PaidFor'
  BY <1>0, <1>0a, <1>2, BusyOnSale, BeginMoves DEF CreateHold
<1>3. ASSUME NEW w \in Workers, SaveRef(w)
      PROVE  PaidFor'
  BY <1>0, <1>0a, <1>3, BusyOnSale, ReturnMoves DEF SaveRef
<1>4. ASSUME NEW w \in Workers, NEW r \in Rails, OpenPayment(w, r)
      PROVE  PaidFor'
  <2>1. /\ At(w, "request") /\ job[w].sale \in Sales
        /\ pay[job[w].sale] = "none"
    BY <1>0, <1>4, BusyOnSale DEF OpenPayment
  <2>2. /\ job'[w].sale = job[w].sale /\ job'[w].pc = "saveRef"
        /\ job'[w].goal = "reserve"
        /\ Others(w)
    BY <1>0, <1>4, BeginMoves DEF OpenPayment
  <2>3. /\ pay'[job[w].sale] = "open"
        /\ \A s \in Sales \ {job[w].sale} : pay'[s] = pay[s]
        /\ UNCHANGED <<tickets, events>>
    BY <1>0, <1>4, <2>1 DEF OpenPayment, TypeOK
  <2>4. \A v \in Workers \ {w} : ~Creating(v, job[w].sale)
    BY <2>1 DEF OneCreator
  <2> QED
    BY <1>0, <1>0a, <2>1, <2>2, <2>3, <2>4
<1>5. ASSUME NEW w \in Workers, AdjustSave(w)
      PROVE  PaidFor'
  BY <1>0, <1>0a, <1>5, BusyOnSale, EachMoves DEF AdjustSave
<1>6. ASSUME NEW w \in Workers, NEW t \in Tiers, AdjustRead(w, t)
      PROVE  PaidFor'
  BY <1>0, <1>0a, <1>6, BusyOnSale, ReadMoves DEF AdjustRead
<1>7. ASSUME NEW w \in Workers, Ask(w)
      PROVE  PaidFor'
  BY <1>0, <1>0a, <1>7, BusyOnSale, BeginMoves, ReturnMoves DEF Ask, Answer,
         Verdict
<1>8. ASSUME NEW w \in Workers, FinalizeYeboPay(w)
      PROVE  PaidFor'
  BY <1>0, <1>0a, <1>8, BusyOnSale, BeginMoves, ReturnMoves DEF FinalizeYeboPay,
         Finalizable, Verdict
<1>9. ASSUME NEW w \in Workers, Claim(w)
      PROVE  PaidFor'
  BY <1>0, <1>0a, <1>9, BusyOnSale, BeginMoves, ReturnMoves DEF Claim, Claimable
<1>10. ASSUME NEW w \in Workers, LoadEvent(w)
      PROVE  PaidFor'
  BY <1>0, <1>0a, <1>10, BusyOnSale, BeginMoves DEF LoadEvent
<1>11. ASSUME NEW w \in Workers, LinkTickets(w)
      PROVE  PaidFor'
  BY <1>0, <1>0a, <1>11, BusyOnSale, BeginMoves DEF LinkTickets
<1>12. ASSUME NEW w \in Workers, SoldSave(w)
      PROVE  PaidFor'
  BY <1>0, <1>0a, <1>12, BusyOnSale, EachMoves DEF SoldSave
<1>13. ASSUME NEW w \in Workers, SoldDone(w)
      PROVE  PaidFor'
  BY <1>0, <1>0a, <1>13, BusyOnSale, ReturnMoves DEF SoldDone
<1>14. ASSUME NEW w \in Workers, Recount(w)
      PROVE  PaidFor'
  BY <1>0, <1>0a, <1>14, BusyOnSale, BeginMoves, ReturnMoves DEF Recount,
         NothingMinted
<1>15. ASSUME NEW w \in Workers, Unclaim(w)
      PROVE  PaidFor'
  BY <1>0, <1>0a, <1>15, BusyOnSale, ReturnMoves DEF Unclaim
<1>16. ASSUME NEW w \in Workers, NEW t \in Tiers, Mint(w, t)
      PROVE  PaidFor'
  <2>1. /\ At(w, "mint") /\ job[w].sale \in Sales
        /\ pay[job[w].sale] = "paid"
    BY <1>0, <1>16, BusyOnSale DEF Mint
  <2>2. /\ job'[w].sale = job[w].sale /\ job'[w].pc = "mint"
        /\ job'[w].goal = "none"
        /\ Others(w)
    BY <1>0, <1>16, MintMoves
  <2>3. /\ \A s \in Sales \ {job[w].sale} : tickets'[s] = tickets[s]
        /\ UNCHANGED <<pay, events>>
    BY <1>0, <1>16 DEF Mint, TypeOK
  <2> QED
    BY <1>0, <1>0a, <2>1, <2>2, <2>3
<1>17. ASSUME NEW w \in Workers, NEW t \in Tiers, SoldRead(w, t)
      PROVE  PaidFor'
  BY <1>0, <1>0a, <1>17, BusyOnSale, ReadMoves DEF SoldRead
<1>18. ASSUME NEW w \in Workers, FindHold(w)
      PROVE  PaidFor'
  BY <1>0, <1>0a, <1>18, BusyOnSale, EachMoves, BeginMoves, ReturnMoves
     DEF FindHold, Settled
<1>19. ASSUME NEW w \in Workers, SaveHold(w)
      PROVE  PaidFor'
  BY <1>0, <1>0a, <1>19, BusyOnSale, EachMoves, BeginMoves, ReturnMoves
     DEF SaveHold, Settled
<1>20. ASSUME NEW w \in Workers, FailSale(w)
      PROVE  PaidFor'
  BY <1>0, <1>0a, <1>20, BusyOnSale, ReturnMoves DEF FailSale
<1>21. ASSUME NEW w \in Workers, AbandonSale(w)
      PROVE  PaidFor'
  BY <1>0, <1>0a, <1>21, BusyOnSale, ReturnMoves DEF AbandonSale
<1>22. ASSUME NEW w \in Workers, ExpireSale(w)
      PROVE  PaidFor'
  BY <1>0, <1>0a, <1>22, BusyOnSale, ReturnMoves DEF ExpireSale
<1>23. ASSUME NEW w \in Workers, RequestRefused(w)
      PROVE  PaidFor'
  BY <1>0, <1>0a, <1>23, BusyOnSale, BeginMoves, ReturnMoves DEF RequestRefused,
         FailInitiation
<1>24. ASSUME NEW w \in Workers, RequestLost(w)
      PROVE  PaidFor'
  <2>1. /\ At(w, "request") /\ job[w].sale \in Sales
        /\ pay[job[w].sale] = "none"
    BY <1>0, <1>24, BusyOnSale DEF RequestLost
  <2>2. /\ \/ job'[w].sale = NoSale
           \/ job'[w].pc = "find" /\ job'[w].goal = "fail"
        /\ Others(w)
    BY <1>0, <1>24, BeginMoves, ReturnMoves DEF RequestLost, FailInitiation
  <2>3. /\ pay'[job[w].sale] = "open"
        /\ \A s \in Sales \ {job[w].sale} : pay'[s] = pay[s]
        /\ UNCHANGED <<tickets, events>>
    BY <1>0, <1>24, <2>1 DEF RequestLost, TypeOK
  <2>4. \A v \in Workers \ {w} : ~Creating(v, job[w].sale)
    BY <2>1 DEF OneCreator
  <2> QED
    BY <1>0, <1>0a, <2>1, <2>2, <2>3, <2>4
<1>25. ASSUME NEW w \in Workers, PrepareFails(w)
      PROVE  PaidFor'
  BY <1>0, <1>0a, <1>25, BusyOnSale, BeginMoves DEF PrepareFails
<1>26. ASSUME NEW w \in Workers, FulfilFails(w)
      PROVE  PaidFor'
  BY <1>0, <1>0a, <1>26, BusyOnSale, BeginMoves DEF FulfilFails
<1>27. ASSUME NEW w \in Workers, FinalizeThrows(w)
      PROVE  PaidFor'
  BY <1>0, <1>0a, <1>27, BusyOnSale, ReturnMoves DEF FinalizeThrows
<1>28. ASSUME NEW w \in Workers, SettleFails(w)
      PROVE  PaidFor'
  BY <1>0, <1>0a, <1>28, BusyOnSale, ReturnMoves DEF SettleFails
<1>29. ASSUME NEW w \in Workers, GiveUp(w)
      PROVE  PaidFor'
  BY <1>0, <1>0a, <1>29, BusyOnSale, BeginMoves DEF GiveUp
<1>30. ASSUME NEW w \in Workers, NEW s \in Sales, SweepExpired(w, s)
      PROVE  PaidFor'
  BY <1>0, <1>0a, <1>30, BusyOnSale, EachMoves DEF SweepExpired, Sweepable
<1>31. ASSUME NEW w \in Workers, NEW s \in Sales, NEW r \in Rails,
              NEW g \in {"poll", "reconcile"}, StartAsking(w, s, r, g)
      PROVE  PaidFor'
  BY <1>0, <1>0a, <1>31, BusyOnSale, BeginMoves DEF StartAsking, Finalizable
<1>32. ASSUME NEW w \in Workers, NEW s \in Sales, ResolveCart(w, s)
      PROVE  PaidFor'
  <2>1. pay[s] = "none"
    BY <1>32 DEF ResolveCart, OneCreator
  <2> QED
    BY <1>0, <1>0a, <1>32, <2>1, BeginMoves DEF ResolveCart
<1>33. ASSUME NEW w \in Workers, NEW s \in Sales, NEW a \in {"success",
              "mismatch", "rejected", "pending"},
                a = "success" => pay[s] = "paid", HearYeboPay(w, s, a)
      PROVE  PaidFor'
  BY <1>0, <1>0a, <1>33, BusyOnSale, BeginMoves DEF HearYeboPay
<1>34. ASSUME NEW w \in Workers, NEW s \in Sales, NEW e \in {"success",
              "mismatch", "rejected"}, FinalizeYoco(w, s, e)
      PROVE  PaidFor'
  BY <1>0, <1>0a, <1>34, BusyOnSale, BeginMoves, ReturnMoves DEF FinalizeYoco,
         Finalizable, Verdict
<1>35. ASSUME NEW s \in Sales, BuyerPays(s) PROVE PaidFor'
  BY <1>0, <1>35 DEF BuyerPays, TypeOK
<1>36. ASSUME NEW s \in Sales, ProviderDeclines(s) PROVE PaidFor'
  BY <1>0, <1>36 DEF ProviderDeclines, TypeOK
<1>37. ASSUME NEW s \in Sales, Lapse(s) PROVE PaidFor'
  BY <1>0, <1>37 DEF Lapse
<1>38. ASSUME Crash PROVE PaidFor'
  BY <1>0a, <1>38 DEF Crash, Idle, Task
<1>39. ASSUME UNCHANGED vars PROVE PaidFor'
  BY <1>39 DEF vars
<1>40. ASSUME NEW w \in Workers, Continue(w) \/ Fault(w) PROVE PaidFor'
  BY ONLY <1>40, <1>1, <1>2, <1>3, <1>4, <1>5, <1>6, <1>7, <1>8, <1>9, <1>10,
          <1>11, <1>12, <1>13, <1>14, <1>15, <1>16, <1>17, <1>18, <1>19, <1>20,
            <1>21, <1>22, <1>23, <1>24, <1>25, <1>26, <1>27, <1>28, <1>29
     DEF Continue, Fault, Checkout, Adjust, Finalize, Fulfil, Settle, Rails,
         RequestMomo, RequestCard, RequestDeltapay, RequestYoco, RequestYeboPay
<1>41. ASSUME NEW w \in Workers, NEW s \in Sales, Timer(w, s) \/ Request(w, s)
       PROVE  PaidFor'
  <2>1. events[s] \subseteq {"success", "mismatch", "rejected"}
    BY <1>0 DEF TypeOK
  <2>2. "success" \in events[s] \/ Answer(s) = "success" => pay[s] = "paid"
    BY DEF Answer
  <2> QED
    BY ONLY <1>41, <2>1, <2>2, AnswerTyped, <1>30, <1>31, <1>32, <1>33, <1>34
     DEF Timer, Request, ReconcileMomo, FinalizeMomo, FinalizeCard,
         FinalizeDeltapay, Rails, ReconcileYeboPay, ReturnYeboPay,
           WebhookYeboPay
<1> QED
  BY <1>35, <1>36, <1>37, <1>38, <1>39, <1>40, <1>41 DEF Next, World

-----------------------------------------------------------------------------
(* The theorems.                                                              *)

(* The invariant holds initially ... *)
LEMMA InitIInv == Init => IInv
<1> SUFFICES ASSUME Init PROVE IInv
  OBVIOUS
<1> USE ConstantsAssumption DEF Init, At, Idle, Task, Nothing
<1>1. TypeOK
  <2>1. Idle \in Job
    BY DEF Job, PCs, Goals
  <2> QED
    BY <2>1 DEF TypeOK, Faults
<1>2. Busy
  BY DEF Busy
<1>3. OneCreator
  BY DEF OneCreator, Creating
<1>4. OneFulfiller
  BY DEF OneFulfiller, Fulfilling
<1>5. NoDoubleMint
  BY <1>1, OrderTyped, <1>2 DEF NoDoubleMint, Typed
<1>6. PaidFor
  BY DEF PaidFor, Fulfilling, Creating
<1> QED
  BY <1>1, <1>2, <1>3, <1>4, <1>5, <1>6 DEF IInv, Typed

(* ... and every step keeps it. *)
LEMMA IInvStep == IInv /\ [Next]_vars => IInv'
BY TypedStep, OneCreatorStep, OneFulfillerStep, NoDoubleMintStep, PaidForStep
   DEF IInv

(* The invariant holds of every behaviour.                                    *)
THEOREM Invariance == Spec => []IInv
BY InitIInv, IInvStep, PTL DEF Spec

(* Every variable keeps its type, whatever the carts, tiers, handlers and     *)
(* faults.                                                                    *)
THEOREM TypeCorrect == Spec => []TypeOK
<1>1. IInv => TypeOK
  BY DEF IInv, Typed
<1> QED
  BY <1>1, Invariance, PTL

(* However many handlers finalize a sale, it mints no more tickets than its   *)
(* cart holds.                                                                *)
THEOREM NeverDoubleMints == Spec => []NoDoubleMint
<1>1. IInv => NoDoubleMint
  BY DEF IInv
<1> QED
  BY <1>1, Invariance, PTL

(* A ticket exists only for a payment the provider confirmed.                 *)
THEOREM MintsOnlyPaid == Spec => []MintedOnlyIfPaid
<1>1. IInv => MintedOnlyIfPaid
  BY DEF IInv, PaidFor, MintedOnlyIfPaid
<1> QED
  BY <1>1, Invariance, PTL

(* No step of any handler takes a sale out of FAILED.                         *)
THEOREM FailedStaysFailed == Spec => FailedIsFinal
<1> DEFINE Stays == \A s \in Sales : status[s] = "FAILED" => status'[s] = "FAILED"
<1>1. IInv /\ [Next]_vars => [Stays]_vars
  <2> SUFFICES ASSUME IInv, Next PROVE Stays
    OBVIOUS
  <2> USE DEF saleVars, stockVars, provVars
  <2>0. /\ status \in [Sales -> {"none", "PENDING", "COMPLETED", "FAILED"}]
        /\ \A w \in Workers : At(w, "checkout") => status[job[w].sale] = "none"
    BY BusyOnSale DEF IInv, Typed, TypeOK, JobsTyped, OneCreator, At
  <2>1. ASSUME NEW w \in Workers, Checkout(w) \/ Adjust(w) \/ Finalize(w)
        PROVE  Stays
    BY <2>0, <2>1
       DEF Checkout, SaveCheckout, CreateHold, SaveRef, RequestMomo,
              RequestCard,
           RequestDeltapay, RequestYoco, RequestYeboPay, OpenPayment, Adjust,
           AdjustRead, AdjustSave, Finalize, Ask, FinalizeYeboPay, Claim,
             Claimable
  <2>2. ASSUME NEW w \in Workers, Fulfil(w) PROVE Stays
    BY <2>0, <2>2
       DEF Fulfil, Mint, LoadEvent, LinkTickets, SoldRead, SoldSave, SoldDone,
           Recount, Unclaim
  <2>3. ASSUME NEW w \in Workers, Settle(w) \/ Fault(w) PROVE Stays
    BY <2>0, <2>3
       DEF Settle, FindHold, SaveHold, FailSale, AbandonSale, ExpireSale,
           Fault, RequestRefused, RequestLost, PrepareFails, FulfilFails,
           FinalizeThrows, SettleFails, GiveUp
  <2>4. ASSUME NEW w \in Workers, NEW s \in Sales, Timer(w, s) \/ Request(w, s)
        PROVE  Stays
    BY <2>4
       DEF Timer, SweepExpired, ReconcileMomo, FinalizeCard, FinalizeDeltapay,
           ReconcileYeboPay, StartAsking, Request, ResolveCart, FinalizeMomo,
           ReturnYeboPay, FinalizeYoco, WebhookYeboPay, HearYeboPay
  <2>5. ASSUME Crash \/ \E s \in Sales : World(s) PROVE Stays
    BY <2>5 DEF Crash, World, BuyerPays, ProviderDeclines, Lapse
  <2> QED
    BY <2>1, <2>2, <2>3, <2>4, <2>5 DEF Next, Continue
<1> QED
  BY <1>1, Invariance, PTL DEF Spec, FailedIsFinal

-----------------------------------------------------------------------------
(* What the checkout promises the buyer.                                      *)

(* Whoever creates a sale works on it alone: nobody else knows it before its  *)
(* reference is saved or its hold has lapsed.                                 *)
CreatorAlone ==
    \A s \in Sales :
       /\ hold[s] = "none" => ~lapsed[s]
       /\ \A w \in Workers : Creating(w, s) =>
             /\ job[w].goal = "reserve"
             /\ job[w].pc \in {"checkout", "adjust", "adjusting", "request",
                               "saveRef"}
             /\ \A v \in Workers : job[v].sale = s => v = w
             /\ status[s] \in {"none", "PENDING"} /\ ~ref[s] /\ ~lapsed[s]
             /\ job[w].pc \in {"checkout", "adjust", "adjusting"} =>
                   hold[s] = "none"

(* Whoever judges a sale found its reference saved, and whoever expires it    *)
(* its hold lapsed; a completed sale was paid.                                *)
Referenced ==
    \A s \in Sales :
       /\ status[s] = "COMPLETED" => ref[s] /\ pay[s] = "paid"
       /\ \A w \in Workers : job[w].sale = s =>
             /\ \/ job[w].pc \in {"ask", "judge", "claim", "abandon"}
                \/ job[w].goal = "abandon" \/ Fulfilling(w, s)
                => ref[s]
             /\ job[w].goal = "expire" \/ At(w, "expire") => lapsed[s]

Failing(w, s) ==
    job[w].sale = s /\ (job[w].pc = "fail" \/ job[w].goal = "fail")

Refused(s) == pay[s] \in {"declined", "mismatch"}

(* On a rail with a final answer a finalizer fails a sale the provider        *)
(* refused or that has no reference and no coupon; so it never takes a        *)
(* completed sale away from the handler that fulfils it.                      *)
FailsForCause ==
    \A s \in Sales : FinalAnswer(s) =>
       /\ \A w \in Workers :
             /\ Failing(w, s) => Refused(s) \/ (~ref[s] /\ ~order[s].coupon)
             /\ Fulfilling(w, s) => status[s] = "COMPLETED"
       /\ order[s].coupon /\ status[s] = "FAILED" =>
             Refused(s) \/ pay[s] = "none"

(* While no answer of MTN was lost, nothing crashed and no sale was given up, *)
(* a MoMo sale that reached MTN has its reference, or its creator is about to *)
(* save it; and it fails only when MTN refused it or was never asked.         *)
NoLoss == Never({"lost", "crash", "overdue"})
MomoKept ==
    \A s \in Sales : order[s].rail = "MOMO" =>
       /\ status[s] = "FAILED" => Refused(s) \/ pay[s] = "none"
       /\ \A w \in Workers :
             /\ Failing(w, s) => Refused(s) \/ pay[s] = "none"
             /\ job[w].sale = s =>
                   job[w].goal # "abandon" /\ ~At(w, "abandon")
       /\ pay[s] # "none" =>
             ref[s] \/ \E w \in Workers : job[w].sale = s /\ At(w, "saveRef")

(* While no process died, and if the reads and writes outside the catch of    *)
(* fulfilClaimedSale do not throw, a sale linked to its tickets has some, and *)
(* a completed one without tickets has a handler at work on them.             *)
ClaimsKept ==
    \A s \in Sales :
       /\ linked[s] => tickets[s] # Nothing
       /\ status[s] = "COMPLETED" /\ tickets[s] = Nothing =>
             \E w \in Workers :
                job[w].sale = s /\ job[w].pc \in {"load", "mint", "recount", "unclaim"}

(* Whoever is about to ask the provider for the first time is alone with an   *)
(* unpaid sale that has no reference.                                         *)
LEMMA CreatorKnows ==
    ASSUME Typed, PaidFor, CreatorAlone, NEW w \in Workers, NEW s \in Sales,
           Creating(w, s), ~At(w, "saveRef")
    PROVE  /\ pay[s] = "none" /\ ~ref[s] /\ status[s] \in {"none", "PENDING"}
           /\ \A v \in Workers \ {w} : job[v].sale # s
BY DEF PaidFor, CreatorAlone, Creating

(* Every step leaves the creator of a sale alone with it. *)
LEMMA CreatorAloneStep ==
    ASSUME Typed, OneCreator, CreatorAlone, [Next]_vars
    PROVE  CreatorAlone'
<1> USE DEF saleVars, stockVars, provVars, At, Others, Busy, CreatorAlone,
   Creating
<1>0. JobsTyped /\ TypeOK /\ Busy
  BY DEF JobsTyped, Typed, TypeOK
<1>0a. NoSale \notin Sales
  BY ConstantsAssumption
<1>1. ASSUME NEW w \in Workers, SaveCheckout(w)
      PROVE  CreatorAlone'
  BY <1>0, <1>0a, <1>1, BusyOnSale, EachMoves DEF SaveCheckout
<1>2. ASSUME NEW w \in Workers, CreateHold(w)
      PROVE  CreatorAlone'
  BY <1>0, <1>0a, <1>2, BusyOnSale, BeginMoves DEF CreateHold
<1>3. ASSUME NEW w \in Workers, SaveRef(w)
      PROVE  CreatorAlone'
  BY <1>0, <1>0a, <1>3, BusyOnSale, ReturnMoves DEF SaveRef
<1>4. ASSUME NEW w \in Workers, NEW r \in Rails, OpenPayment(w, r)
      PROVE  CreatorAlone'
  BY <1>0, <1>0a, <1>4, BusyOnSale, BeginMoves DEF OpenPayment
<1>5. ASSUME NEW w \in Workers, AdjustSave(w)
      PROVE  CreatorAlone'
  BY <1>0, <1>0a, <1>5, BusyOnSale, EachMoves DEF AdjustSave
<1>6. ASSUME NEW w \in Workers, NEW t \in Tiers, AdjustRead(w, t)
      PROVE  CreatorAlone'
  BY <1>0, <1>0a, <1>6, BusyOnSale, ReadMoves DEF AdjustRead
<1>7. ASSUME NEW w \in Workers, Ask(w)
      PROVE  CreatorAlone'
  BY <1>0, <1>0a, <1>7, BusyOnSale, BeginMoves, ReturnMoves DEF Ask, Verdict
<1>8. ASSUME NEW w \in Workers, FinalizeYeboPay(w)
      PROVE  CreatorAlone'
  BY <1>0, <1>0a, <1>8, BusyOnSale, BeginMoves, ReturnMoves DEF
     FinalizeYeboPay, Finalizable, Verdict
<1>9. ASSUME NEW w \in Workers, Claim(w)
      PROVE  CreatorAlone'
  <2>1. At(w, "claim") /\ job[w].sale \in Sales
    BY <1>0, <1>9, BusyOnSale DEF Claim
  <2>2. /\ \/ /\ job'[w].sale = job[w].sale /\ job'[w].pc = "load"
              /\ job'[w].goal = "none"
           \/ job'[w].sale = NoSale
        /\ Others(w)
    BY <1>0, <1>9, BeginMoves, ReturnMoves DEF Claim
  <2>3. /\ \A s \in Sales \ {job[w].sale} : status'[s] = status[s]
        /\ UNCHANGED <<ref, hold, lapsed>>
    BY <1>0, <1>9, <2>1 DEF Claim, TypeOK
  <2> QED
    BY <1>0, <1>0a, <2>1, <2>2, <2>3
<1>10. ASSUME NEW w \in Workers, LoadEvent(w)
      PROVE  CreatorAlone'
  BY <1>0, <1>0a, <1>10, BusyOnSale, BeginMoves DEF LoadEvent
<1>11. ASSUME NEW w \in Workers, LinkTickets(w)
      PROVE  CreatorAlone'
  BY <1>0, <1>0a, <1>11, BusyOnSale, BeginMoves DEF LinkTickets
<1>12. ASSUME NEW w \in Workers, SoldSave(w)
      PROVE  CreatorAlone'
  BY <1>0, <1>0a, <1>12, BusyOnSale, EachMoves DEF SoldSave
<1>13. ASSUME NEW w \in Workers, SoldDone(w)
      PROVE  CreatorAlone'
  BY <1>0, <1>0a, <1>13, BusyOnSale, ReturnMoves DEF SoldDone
<1>14. ASSUME NEW w \in Workers, Recount(w)
      PROVE  CreatorAlone'
  BY <1>0, <1>0a, <1>14, BusyOnSale, BeginMoves, ReturnMoves DEF Recount,
     NothingMinted
<1>15. ASSUME NEW w \in Workers, Unclaim(w)
      PROVE  CreatorAlone'
  BY <1>0, <1>0a, <1>15, BusyOnSale, ReturnMoves DEF Unclaim
<1>16. ASSUME NEW w \in Workers, NEW t \in Tiers, Mint(w, t)
      PROVE  CreatorAlone'
  <2>1. At(w, "mint") /\ job[w].sale \in Sales
    BY <1>0, <1>16, BusyOnSale DEF Mint
  <2>2. /\ job'[w].sale = job[w].sale /\ job'[w].pc = "mint"
        /\ job'[w].goal = "none"
        /\ Others(w)
    BY <1>0, <1>16, MintMoves
  <2>3. UNCHANGED <<status, ref, hold, lapsed>>
    BY <1>16 DEF Mint
  <2> QED
    BY <1>0, <1>0a, <2>1, <2>2, <2>3
<1>17. ASSUME NEW w \in Workers, NEW t \in Tiers, SoldRead(w, t)
      PROVE  CreatorAlone'
  BY <1>0, <1>0a, <1>17, BusyOnSale, ReadMoves DEF SoldRead
<1>18. ASSUME NEW w \in Workers, FindHold(w)
      PROVE  CreatorAlone'
  BY <1>0, <1>0a, <1>18, BusyOnSale, EachMoves, BeginMoves, ReturnMoves DEF
     FindHold, Settled
<1>19. ASSUME NEW w \in Workers, SaveHold(w)
      PROVE  CreatorAlone'
  BY <1>0, <1>0a, <1>19, BusyOnSale, EachMoves, BeginMoves, ReturnMoves DEF
     SaveHold, Settled
<1>20. ASSUME NEW w \in Workers, FailSale(w)
      PROVE  CreatorAlone'
  BY <1>0, <1>0a, <1>20, BusyOnSale, ReturnMoves DEF FailSale
<1>21. ASSUME NEW w \in Workers, AbandonSale(w)
      PROVE  CreatorAlone'
  BY <1>0, <1>0a, <1>21, BusyOnSale, ReturnMoves DEF AbandonSale
<1>22. ASSUME NEW w \in Workers, ExpireSale(w)
      PROVE  CreatorAlone'
  BY <1>0, <1>0a, <1>22, BusyOnSale, ReturnMoves DEF ExpireSale, AutoFails
<1>23. ASSUME NEW w \in Workers, RequestRefused(w)
      PROVE  CreatorAlone'
  BY <1>0, <1>0a, <1>23, BusyOnSale, BeginMoves, ReturnMoves DEF
     RequestRefused, FailInitiation
<1>24. ASSUME NEW w \in Workers, RequestLost(w)
      PROVE  CreatorAlone'
  BY <1>0, <1>0a, <1>24, BusyOnSale, BeginMoves, ReturnMoves DEF RequestLost,
     FailInitiation
<1>25. ASSUME NEW w \in Workers, PrepareFails(w)
      PROVE  CreatorAlone'
  BY <1>0, <1>0a, <1>25, BusyOnSale, BeginMoves DEF PrepareFails
<1>26. ASSUME NEW w \in Workers, FulfilFails(w)
      PROVE  CreatorAlone'
  BY <1>0, <1>0a, <1>26, BusyOnSale, BeginMoves DEF FulfilFails
<1>27. ASSUME NEW w \in Workers, FinalizeThrows(w)
      PROVE  CreatorAlone'
  BY <1>0, <1>0a, <1>27, BusyOnSale, ReturnMoves DEF FinalizeThrows
<1>28. ASSUME NEW w \in Workers, SettleFails(w)
      PROVE  CreatorAlone'
  BY <1>0, <1>0a, <1>28, BusyOnSale, ReturnMoves DEF SettleFails
<1>29. ASSUME NEW w \in Workers, GiveUp(w)
      PROVE  CreatorAlone'
  BY <1>0, <1>0a, <1>29, BusyOnSale, BeginMoves DEF GiveUp
<1>30. ASSUME NEW w \in Workers, NEW s \in Sales, SweepExpired(w, s)
      PROVE  CreatorAlone'
  BY <1>0, <1>0a, <1>30, BusyOnSale, EachMoves DEF SweepExpired, Sweepable
<1>31. ASSUME NEW w \in Workers, NEW s \in Sales, NEW r \in Rails, NEW g \in
   {"poll", "reconcile"}, StartAsking(w, s, r, g)
      PROVE  CreatorAlone'
  BY <1>0, <1>0a, <1>31, BusyOnSale, BeginMoves DEF StartAsking, Finalizable
<1>32. ASSUME NEW w \in Workers, NEW s \in Sales, ResolveCart(w, s)
      PROVE  CreatorAlone'
  BY <1>0, <1>0a, <1>32, BusyOnSale, BeginMoves DEF ResolveCart, OneCreator
<1>33. ASSUME NEW w \in Workers, NEW s \in Sales, NEW a \in {"success",
   "mismatch", "rejected", "pending"}, HearYeboPay(w, s, a)
      PROVE  CreatorAlone'
  BY <1>0, <1>0a, <1>33, BusyOnSale, BeginMoves DEF HearYeboPay
<1>34. ASSUME NEW w \in Workers, NEW s \in Sales, NEW e \in {"success",
   "mismatch", "rejected"}, FinalizeYoco(w, s, e)
      PROVE  CreatorAlone'
  BY <1>0, <1>0a, <1>34, BusyOnSale, BeginMoves, ReturnMoves DEF FinalizeYoco,
     Finalizable, Verdict
<1>35. ASSUME NEW s \in Sales, BuyerPays(s)
      PROVE  CreatorAlone'
  BY <1>0, <1>0a, <1>35 DEF BuyerPays
<1>36. ASSUME NEW s \in Sales, ProviderDeclines(s)
      PROVE  CreatorAlone'
  BY <1>0, <1>0a, <1>36 DEF ProviderDeclines
<1>37. ASSUME NEW s \in Sales, Lapse(s)
      PROVE  CreatorAlone'
  BY <1>0, <1>0a, <1>37 DEF Lapse
<1>38. ASSUME Crash
      PROVE  CreatorAlone'
  BY <1>0, <1>0a, <1>38 DEF Crash, Idle, Task
<1>39. ASSUME UNCHANGED vars PROVE CreatorAlone'
  BY <1>39 DEF vars
<1>40. ASSUME NEW w \in Workers, Continue(w) \/ Fault(w) PROVE CreatorAlone'
  BY ONLY <1>40, <1>1, <1>2, <1>3, <1>4, <1>5, <1>6, <1>7, <1>8, <1>9, <1>10,
     <1>11, <1>12, <1>13, <1>14, <1>15, <1>16, <1>17, <1>18, <1>19, <1>20,
     <1>21, <1>22, <1>23, <1>24, <1>25, <1>26, <1>27, <1>28, <1>29
     DEF Continue, Fault, Checkout, Adjust, Finalize, Fulfil, Settle, Rails,
         RequestMomo, RequestCard, RequestDeltapay, RequestYoco, RequestYeboPay
<1>41. ASSUME NEW w \in Workers, NEW s \in Sales, Timer(w, s) \/ Request(w, s)
       PROVE  CreatorAlone'
  <2>1. events[s] \subseteq {"success", "mismatch", "rejected"}
    BY <1>0 DEF TypeOK
  <2> QED
    BY ONLY <1>41, <2>1, AnswerTyped, <1>30, <1>31, <1>32, <1>33, <1>34
     DEF Timer, Request, ReconcileMomo, FinalizeMomo, FinalizeCard,
         FinalizeDeltapay, Rails, ReconcileYeboPay, ReturnYeboPay,
         WebhookYeboPay
<1> QED
  BY <1>35, <1>36, <1>37, <1>38, <1>39, <1>40, <1>41 DEF Next, World

(* Every step keeps judged sales referenced, and completed ones paid. *)
LEMMA ReferencedStep ==
    ASSUME Typed, PaidFor, CreatorAlone, Referenced, [Next]_vars
    PROVE  Referenced'
<1> USE DEF saleVars, stockVars, provVars, At, Others, Busy, Referenced,
   Fulfilling
<1>0. JobsTyped /\ TypeOK /\ Busy
  BY DEF JobsTyped, Typed, TypeOK
<1>0a. NoSale \notin Sales
  BY ConstantsAssumption
<1>1. ASSUME NEW w \in Workers, SaveCheckout(w)
      PROVE  Referenced'
  BY <1>0, <1>0a, <1>1, BusyOnSale, EachMoves DEF SaveCheckout
<1>2. ASSUME NEW w \in Workers, CreateHold(w)
      PROVE  Referenced'
  BY <1>0, <1>0a, <1>2, BusyOnSale, BeginMoves DEF CreateHold
<1>3. ASSUME NEW w \in Workers, SaveRef(w)
      PROVE  Referenced'
  BY <1>0, <1>0a, <1>3, BusyOnSale, ReturnMoves DEF SaveRef
<1>4. ASSUME NEW w \in Workers, NEW r \in Rails, OpenPayment(w, r)
      PROVE  Referenced'
  <2>1. At(w, "request") /\ job[w].sale \in Sales
    BY <1>0, <1>4, BusyOnSale DEF OpenPayment
  <2>2. /\ pay[job[w].sale] = "none" /\ ~ref[job[w].sale]
        /\ status[job[w].sale] \in {"none", "PENDING"}
        /\ \A v \in Workers \ {w} : job[v].sale # job[w].sale
    BY ONLY <2>1, CreatorKnows, Typed, PaidFor, CreatorAlone, w \in Workers
       DEF Creating, At
  <2>3. /\ job'[w].sale = job[w].sale /\ job'[w].pc = "saveRef"
        /\ job'[w].goal = "reserve"
        /\ Others(w)
    BY <1>0, <1>4, BeginMoves, ReturnMoves DEF OpenPayment, FailInitiation
  <2>4. /\ pay'[job[w].sale] = "open"
        /\ \A s \in Sales \ {job[w].sale} : pay'[s] = pay[s]
        /\ UNCHANGED <<status, ref, lapsed>>
    BY <1>0, <1>4, <2>1 DEF OpenPayment, TypeOK
  <2> QED
    BY <1>0, <1>0a, <2>1, <2>2, <2>3, <2>4
<1>5. ASSUME NEW w \in Workers, AdjustSave(w)
      PROVE  Referenced'
  BY <1>0, <1>0a, <1>5, BusyOnSale, EachMoves DEF AdjustSave
<1>6. ASSUME NEW w \in Workers, NEW t \in Tiers, AdjustRead(w, t)
      PROVE  Referenced'
  BY <1>0, <1>0a, <1>6, BusyOnSale, ReadMoves DEF AdjustRead
<1>7. ASSUME NEW w \in Workers, Ask(w)
      PROVE  Referenced'
  BY <1>0, <1>0a, <1>7, BusyOnSale, BeginMoves, ReturnMoves DEF Ask, Verdict
<1>8. ASSUME NEW w \in Workers, FinalizeYeboPay(w)
      PROVE  Referenced'
  BY <1>0, <1>0a, <1>8, BusyOnSale, BeginMoves, ReturnMoves DEF
     FinalizeYeboPay, Finalizable, Verdict
<1>9. ASSUME NEW w \in Workers, Claim(w)
      PROVE  Referenced'
  BY <1>0, <1>0a, <1>9, BusyOnSale, BeginMoves, ReturnMoves DEF Claim,
     Claimable, PaidFor, TypeOK
<1>10. ASSUME NEW w \in Workers, LoadEvent(w)
      PROVE  Referenced'
  BY <1>0, <1>0a, <1>10, BusyOnSale, BeginMoves DEF LoadEvent
<1>11. ASSUME NEW w \in Workers, LinkTickets(w)
      PROVE  Referenced'
  BY <1>0, <1>0a, <1>11, BusyOnSale, BeginMoves DEF LinkTickets
<1>12. ASSUME NEW w \in Workers, SoldSave(w)
      PROVE  Referenced'
  BY <1>0, <1>0a, <1>12, BusyOnSale, EachMoves DEF SoldSave
<1>13. ASSUME NEW w \in Workers, SoldDone(w)
      PROVE  Referenced'
  BY <1>0, <1>0a, <1>13, BusyOnSale, ReturnMoves DEF SoldDone
<1>14. ASSUME NEW w \in Workers, Recount(w)
      PROVE  Referenced'
  BY <1>0, <1>0a, <1>14, BusyOnSale, BeginMoves, ReturnMoves DEF Recount,
     NothingMinted
<1>15. ASSUME NEW w \in Workers, Unclaim(w)
      PROVE  Referenced'
  BY <1>0, <1>0a, <1>15, BusyOnSale, ReturnMoves DEF Unclaim
<1>16. ASSUME NEW w \in Workers, NEW t \in Tiers, Mint(w, t)
      PROVE  Referenced'
  <2>1. At(w, "mint") /\ job[w].sale \in Sales
    BY <1>0, <1>16, BusyOnSale DEF Mint
  <2>2. /\ job'[w].sale = job[w].sale /\ job'[w].pc = "mint"
        /\ job'[w].goal = "none"
        /\ Others(w)
    BY <1>0, <1>16, MintMoves
  <2>3. UNCHANGED <<status, ref, pay, lapsed>>
    BY <1>16 DEF Mint
  <2> QED
    BY <1>0, <1>0a, <2>1, <2>2, <2>3
<1>17. ASSUME NEW w \in Workers, NEW t \in Tiers, SoldRead(w, t)
      PROVE  Referenced'
  BY <1>0, <1>0a, <1>17, BusyOnSale, ReadMoves DEF SoldRead
<1>18. ASSUME NEW w \in Workers, FindHold(w)
      PROVE  Referenced'
  BY <1>0, <1>0a, <1>18, BusyOnSale, EachMoves, BeginMoves, ReturnMoves DEF
     FindHold, Settled
<1>19. ASSUME NEW w \in Workers, SaveHold(w)
      PROVE  Referenced'
  BY <1>0, <1>0a, <1>19, BusyOnSale, EachMoves, BeginMoves, ReturnMoves DEF
     SaveHold, Settled
<1>20. ASSUME NEW w \in Workers, FailSale(w)
      PROVE  Referenced'
  BY <1>0, <1>0a, <1>20, BusyOnSale, ReturnMoves DEF FailSale
<1>21. ASSUME NEW w \in Workers, AbandonSale(w)
      PROVE  Referenced'
  BY <1>0, <1>0a, <1>21, BusyOnSale, ReturnMoves DEF AbandonSale
<1>22. ASSUME NEW w \in Workers, ExpireSale(w)
      PROVE  Referenced'
  BY <1>0, <1>0a, <1>22, BusyOnSale, ReturnMoves DEF ExpireSale, AutoFails
<1>23. ASSUME NEW w \in Workers, RequestRefused(w)
      PROVE  Referenced'
  BY <1>0, <1>0a, <1>23, BusyOnSale, BeginMoves, ReturnMoves DEF
     RequestRefused, FailInitiation
<1>24. ASSUME NEW w \in Workers, RequestLost(w)
      PROVE  Referenced'
  <2>1. At(w, "request") /\ job[w].sale \in Sales
    BY <1>0, <1>24, BusyOnSale DEF RequestLost
  <2>2. /\ pay[job[w].sale] = "none" /\ ~ref[job[w].sale]
        /\ status[job[w].sale] \in {"none", "PENDING"}
        /\ \A v \in Workers \ {w} : job[v].sale # job[w].sale
    BY ONLY <2>1, CreatorKnows, Typed, PaidFor, CreatorAlone, w \in Workers
       DEF Creating, At
  <2>3. /\ \/ job'[w].sale = NoSale
           \/ /\ job'[w].pc = "find" /\ job'[w].goal = "fail"
              /\ job'[w].sale = job[w].sale /\ ~order[job[w].sale].coupon
        /\ Others(w)
    BY <1>0, <1>24, BeginMoves, ReturnMoves DEF RequestLost, FailInitiation
  <2>4. /\ pay'[job[w].sale] = "open"
        /\ \A s \in Sales \ {job[w].sale} : pay'[s] = pay[s]
        /\ UNCHANGED <<status, ref, lapsed>>
    BY <1>0, <1>24, <2>1 DEF RequestLost, TypeOK
  <2> QED
    BY <1>0, <1>0a, <2>1, <2>2, <2>3, <2>4
<1>25. ASSUME NEW w \in Workers, PrepareFails(w)
      PROVE  Referenced'
  BY <1>0, <1>0a, <1>25, BusyOnSale, BeginMoves DEF PrepareFails
<1>26. ASSUME NEW w \in Workers, FulfilFails(w)
      PROVE  Referenced'
  BY <1>0, <1>0a, <1>26, BusyOnSale, BeginMoves DEF FulfilFails
<1>27. ASSUME NEW w \in Workers, FinalizeThrows(w)
      PROVE  Referenced'
  BY <1>0, <1>0a, <1>27, BusyOnSale, ReturnMoves DEF FinalizeThrows
<1>28. ASSUME NEW w \in Workers, SettleFails(w)
      PROVE  Referenced'
  BY <1>0, <1>0a, <1>28, BusyOnSale, ReturnMoves DEF SettleFails
<1>29. ASSUME NEW w \in Workers, GiveUp(w)
      PROVE  Referenced'
  BY <1>0, <1>0a, <1>29, BusyOnSale, BeginMoves DEF GiveUp
<1>30. ASSUME NEW w \in Workers, NEW s \in Sales, SweepExpired(w, s)
      PROVE  Referenced'
  BY <1>0, <1>0a, <1>30, BusyOnSale, EachMoves DEF SweepExpired, Sweepable
<1>31. ASSUME NEW w \in Workers, NEW s \in Sales, NEW r \in Rails, NEW g \in
   {"poll", "reconcile"}, StartAsking(w, s, r, g)
      PROVE  Referenced'
  BY <1>0, <1>0a, <1>31, BusyOnSale, BeginMoves DEF StartAsking, Finalizable
<1>32. ASSUME NEW w \in Workers, NEW s \in Sales, ResolveCart(w, s)
      PROVE  Referenced'
  BY <1>0, <1>0a, <1>32, BusyOnSale, BeginMoves DEF ResolveCart
<1>33. ASSUME NEW w \in Workers, NEW s \in Sales, NEW a \in {"success",
   "mismatch", "rejected", "pending"}, HearYeboPay(w, s, a)
      PROVE  Referenced'
  BY <1>0, <1>0a, <1>33, BusyOnSale, BeginMoves DEF HearYeboPay
<1>34. ASSUME NEW w \in Workers, NEW s \in Sales, NEW e \in {"success",
   "mismatch", "rejected"}, FinalizeYoco(w, s, e)
      PROVE  Referenced'
  BY <1>0, <1>0a, <1>34, BusyOnSale, BeginMoves, ReturnMoves DEF FinalizeYoco,
     Finalizable, Verdict
<1>35. ASSUME NEW s \in Sales, BuyerPays(s)
      PROVE  Referenced'
  BY <1>0, <1>0a, <1>35 DEF BuyerPays, TypeOK
<1>36. ASSUME NEW s \in Sales, ProviderDeclines(s)
      PROVE  Referenced'
  BY <1>0, <1>0a, <1>36 DEF ProviderDeclines, TypeOK
<1>37. ASSUME NEW s \in Sales, Lapse(s)
      PROVE  Referenced'
  BY <1>0, <1>0a, <1>37 DEF Lapse
<1>38. ASSUME Crash
      PROVE  Referenced'
  BY <1>0, <1>0a, <1>38 DEF Crash, Idle, Task
<1>39. ASSUME UNCHANGED vars PROVE Referenced'
  BY <1>39 DEF vars
<1>40. ASSUME NEW w \in Workers, Continue(w) \/ Fault(w) PROVE Referenced'
  BY ONLY <1>40, <1>1, <1>2, <1>3, <1>4, <1>5, <1>6, <1>7, <1>8, <1>9, <1>10,
     <1>11, <1>12, <1>13, <1>14, <1>15, <1>16, <1>17, <1>18, <1>19, <1>20,
     <1>21, <1>22, <1>23, <1>24, <1>25, <1>26, <1>27, <1>28, <1>29
     DEF Continue, Fault, Checkout, Adjust, Finalize, Fulfil, Settle, Rails,
         RequestMomo, RequestCard, RequestDeltapay, RequestYoco, RequestYeboPay
<1>41. ASSUME NEW w \in Workers, NEW s \in Sales, Timer(w, s) \/ Request(w, s)
       PROVE  Referenced'
  <2>1. events[s] \subseteq {"success", "mismatch", "rejected"}
    BY <1>0 DEF TypeOK
  <2> QED
    BY ONLY <1>41, <2>1, AnswerTyped, <1>30, <1>31, <1>32, <1>33, <1>34
     DEF Timer, Request, ReconcileMomo, FinalizeMomo, FinalizeCard,
         FinalizeDeltapay, Rails, ReconcileYeboPay, ReturnYeboPay,
         WebhookYeboPay
<1> QED
  BY <1>35, <1>36, <1>37, <1>38, <1>39, <1>40, <1>41 DEF Next, World

(* Every step fails such a sale for cause only. *)
LEMMA FailsForCauseStep ==
    ASSUME Typed, OneCreator, OneFulfiller, PaidFor, CreatorAlone, Referenced,
           FailsForCause, [Next]_vars
    PROVE  FailsForCause'
<1> USE DEF saleVars, stockVars, provVars, At, Others, Busy, FailsForCause,
   Fulfilling, Failing, Refused, FinalAnswer
<1>0. JobsTyped /\ TypeOK /\ Busy
  BY DEF JobsTyped, Typed, TypeOK
<1>0a. NoSale \notin Sales
  BY ConstantsAssumption
<1>1. ASSUME NEW w \in Workers, SaveCheckout(w)
      PROVE  FailsForCause'
  <2>1. At(w, "checkout") /\ job[w].sale \in Sales
    BY <1>0, <1>1, BusyOnSale DEF SaveCheckout
  <2>2. /\ job'[w].sale = job[w].sale /\ job'[w].pc = "adjust"
        /\ job'[w].goal = "reserve"
        /\ /\ Others(w)
    BY <1>0, <1>1, EachMoves DEF SaveCheckout
  <2>3. /\ status'[job[w].sale] = "PENDING"
        /\ \A s \in Sales \ {job[w].sale} : status'[s] = status[s]
        /\ UNCHANGED <<order, ref, pay>>
    BY <1>0, <1>1, <2>1 DEF SaveCheckout, Claimable, AutoFails, TypeOK
  <2>4. /\ status[job[w].sale] = "none"
        /\ \A v \in Workers : ~Fulfilling(v, job[w].sale)
    BY <2>1 DEF OneCreator, OneFulfiller
  <2> QED
    BY <1>0, <1>0a, <2>1, <2>2, <2>3, <2>4
<1>2. ASSUME NEW w \in Workers, CreateHold(w)
      PROVE  FailsForCause'
  BY <1>0, <1>0a, <1>2, BusyOnSale, BeginMoves DEF CreateHold
<1>3. ASSUME NEW w \in Workers, SaveRef(w)
      PROVE  FailsForCause'
  <2>1. At(w, "saveRef") /\ job[w].sale \in Sales
    BY <1>0, <1>3, BusyOnSale DEF SaveRef
  <2>2. \A v \in Workers \ {w} : job[v].sale # job[w].sale
    BY <2>1 DEF CreatorAlone, Creating
  <2>3. job'[w].sale = NoSale /\ Others(w)
    BY <1>0, <1>3, ReturnMoves DEF SaveRef
  <2>4. /\ \A s \in Sales \ {job[w].sale} : ref'[s] = ref[s]
        /\ UNCHANGED <<order, status, pay>>
    BY <1>0, <1>3, <2>1 DEF SaveRef, TypeOK
  <2> QED
    BY <1>0, <1>0a, <2>1, <2>2, <2>3, <2>4
<1>4. ASSUME NEW w \in Workers, NEW r \in Rails, OpenPayment(w, r)
      PROVE  FailsForCause'
  <2>1. At(w, "request") /\ job[w].sale \in Sales
    BY <1>0, <1>4, BusyOnSale DEF OpenPayment
  <2>2. /\ pay[job[w].sale] = "none" /\ ~ref[job[w].sale]
        /\ status[job[w].sale] \in {"none", "PENDING"}
        /\ \A v \in Workers \ {w} : job[v].sale # job[w].sale
    BY ONLY <2>1, CreatorKnows, Typed, PaidFor, CreatorAlone, w \in Workers
       DEF Creating, At
  <2>3. /\ job'[w].sale = job[w].sale /\ job'[w].pc = "saveRef"
        /\ job'[w].goal = "reserve"
        /\ Others(w)
    BY <1>0, <1>4, BeginMoves, ReturnMoves DEF OpenPayment, FailInitiation
  <2>4. /\ pay'[job[w].sale] = "open"
        /\ \A s \in Sales \ {job[w].sale} : pay'[s] = pay[s]
        /\ UNCHANGED <<order, status, ref>>
    BY <1>0, <1>4, <2>1 DEF OpenPayment, TypeOK
  <2> QED
    BY <1>0, <1>0a, <2>1, <2>2, <2>3, <2>4
<1>5. ASSUME NEW w \in Workers, AdjustSave(w)
      PROVE  FailsForCause'
  BY <1>0, <1>0a, <1>5, BusyOnSale, EachMoves DEF AdjustSave
<1>6. ASSUME NEW w \in Workers, NEW t \in Tiers, AdjustRead(w, t)
      PROVE  FailsForCause'
  BY <1>0, <1>0a, <1>6, BusyOnSale, ReadMoves DEF AdjustRead
<1>7. ASSUME NEW w \in Workers, Ask(w)
      PROVE  FailsForCause'
  BY <1>0, <1>0a, <1>7, BusyOnSale, BeginMoves, ReturnMoves DEF Ask, Verdict,
     Answer
<1>8. ASSUME NEW w \in Workers, FinalizeYeboPay(w)
      PROVE  FailsForCause'
  BY <1>0, <1>0a, <1>8, BusyOnSale, BeginMoves, ReturnMoves DEF
     FinalizeYeboPay, Finalizable, Verdict
<1>9. ASSUME NEW w \in Workers, Claim(w)
      PROVE  FailsForCause'
  <2>1. At(w, "claim") /\ job[w].sale \in Sales
    BY <1>0, <1>9, BusyOnSale DEF Claim
  <2>2. CASE Claimable(job[w].sale)
    <3>1. /\ job'[w].sale = job[w].sale /\ job'[w].pc = "load"
          /\ job'[w].goal = "none"
          /\ Others(w)
      BY <1>0, <1>9, <2>2, BeginMoves DEF Claim
    <3>2. /\ status'[job[w].sale] = "COMPLETED"
          /\ \A s \in Sales \ {job[w].sale} : status'[s] = status[s]
          /\ UNCHANGED <<order, ref, pay>>
      BY <1>0, <1>9, <2>1, <2>2 DEF Claim, TypeOK
    <3> QED
      BY <1>0, <1>0a, <2>1, <3>1, <3>2
  <2>3. CASE ~Claimable(job[w].sale)
    BY <1>0, <1>0a, <1>9, <2>3, ReturnMoves DEF Claim
  <2> QED
    BY <2>2, <2>3
<1>10. ASSUME NEW w \in Workers, LoadEvent(w)
      PROVE  FailsForCause'
  BY <1>0, <1>0a, <1>10, BusyOnSale, BeginMoves DEF LoadEvent
<1>11. ASSUME NEW w \in Workers, LinkTickets(w)
      PROVE  FailsForCause'
  BY <1>0, <1>0a, <1>11, BusyOnSale, BeginMoves DEF LinkTickets
<1>12. ASSUME NEW w \in Workers, SoldSave(w)
      PROVE  FailsForCause'
  BY <1>0, <1>0a, <1>12, BusyOnSale, EachMoves DEF SoldSave
<1>13. ASSUME NEW w \in Workers, SoldDone(w)
      PROVE  FailsForCause'
  BY <1>0, <1>0a, <1>13, BusyOnSale, ReturnMoves DEF SoldDone
<1>14. ASSUME NEW w \in Workers, Recount(w)
      PROVE  FailsForCause'
  BY <1>0, <1>0a, <1>14, BusyOnSale, BeginMoves, ReturnMoves DEF Recount,
     NothingMinted
<1>15. ASSUME NEW w \in Workers, Unclaim(w)
      PROVE  FailsForCause'
  <2>1. At(w, "unclaim") /\ job[w].sale \in Sales
    BY <1>0, <1>15, BusyOnSale DEF Unclaim
  <2>2. job'[w].sale = NoSale /\ Others(w)
    BY <1>0, <1>15, ReturnMoves DEF Unclaim
  <2>3. /\ status'[job[w].sale] \in {status[job[w].sale], "PENDING"}
        /\ status'[job[w].sale] = "FAILED" => status[job[w].sale] = "FAILED"
        /\ \A s \in Sales \ {job[w].sale} : status'[s] = status[s]
        /\ UNCHANGED <<order, ref, pay>>
    BY <1>0, <1>15, <2>1 DEF Unclaim, Claimable, AutoFails, TypeOK
  <2>4. \A v \in Workers \ {w} : ~Fulfilling(v, job[w].sale)
    BY <2>1 DEF OneFulfiller
  <2> QED
    BY <1>0, <1>0a, <2>1, <2>2, <2>3, <2>4
<1>16. ASSUME NEW w \in Workers, NEW t \in Tiers, Mint(w, t)
      PROVE  FailsForCause'
  <2>1. At(w, "mint") /\ job[w].sale \in Sales
    BY <1>0, <1>16, BusyOnSale DEF Mint
  <2>2. /\ job'[w].sale = job[w].sale /\ job'[w].pc = "mint"
        /\ job'[w].goal = "none"
        /\ Others(w)
    BY <1>0, <1>16, MintMoves
  <2>3. UNCHANGED <<order, status, ref, pay>>
    BY <1>16 DEF Mint
  <2> QED
    BY <1>0, <1>0a, <2>1, <2>2, <2>3
<1>17. ASSUME NEW w \in Workers, NEW t \in Tiers, SoldRead(w, t)
      PROVE  FailsForCause'
  BY <1>0, <1>0a, <1>17, BusyOnSale, ReadMoves DEF SoldRead
<1>18. ASSUME NEW w \in Workers, FindHold(w)
      PROVE  FailsForCause'
  BY <1>0, <1>0a, <1>18, BusyOnSale, EachMoves, BeginMoves, ReturnMoves DEF
     FindHold, Settled
<1>19. ASSUME NEW w \in Workers, SaveHold(w)
      PROVE  FailsForCause'
  BY <1>0, <1>0a, <1>19, BusyOnSale, EachMoves, BeginMoves, ReturnMoves DEF
     SaveHold, Settled
<1>20. ASSUME NEW w \in Workers, FailSale(w)
      PROVE  FailsForCause'
  <2>1. At(w, "fail") /\ job[w].sale \in Sales
    BY <1>0, <1>20, BusyOnSale DEF FailSale
  <2>2. job'[w].sale = NoSale /\ Others(w)
    BY <1>0, <1>20, ReturnMoves DEF FailSale
  <2>3. /\ status'[job[w].sale] = "FAILED"
        /\ \A s \in Sales \ {job[w].sale} : status'[s] = status[s]
        /\ UNCHANGED <<order, ref, pay>>
    BY <1>0, <1>20, <2>1 DEF FailSale, Claimable, AutoFails, TypeOK
  <2>4. FinalAnswer(job[w].sale) =>
          \A v \in Workers : ~Fulfilling(v, job[w].sale)
    BY <2>1 DEF Referenced
  <2> QED
    BY <1>0, <1>0a, <2>1, <2>2, <2>3, <2>4
<1>21. ASSUME NEW w \in Workers, AbandonSale(w)
      PROVE  FailsForCause'
  <2>1. At(w, "abandon") /\ job[w].sale \in Sales
    BY <1>0, <1>21, BusyOnSale DEF AbandonSale
  <2>2. job'[w].sale = NoSale /\ Others(w)
    BY <1>0, <1>21, ReturnMoves DEF AbandonSale
  <2>3. /\ \/ status'[job[w].sale] = status[job[w].sale]
           \/ status[job[w].sale] = "PENDING" /\ ~order[job[w].sale].coupon
        /\ \A s \in Sales \ {job[w].sale} : status'[s] = status[s]
        /\ UNCHANGED <<order, ref, pay>>
    BY <1>0, <1>21, <2>1 DEF AbandonSale, Claimable, AutoFails, TypeOK
  <2>4. status[job[w].sale] = "PENDING" =>
          \A v \in Workers : ~Fulfilling(v, job[w].sale)
    BY <2>1 DEF OneFulfiller
  <2> QED
    BY <1>0, <1>0a, <2>1, <2>2, <2>3, <2>4
<1>22. ASSUME NEW w \in Workers, ExpireSale(w)
      PROVE  FailsForCause'
  <2>1. At(w, "expire") /\ job[w].sale \in Sales
    BY <1>0, <1>22, BusyOnSale DEF ExpireSale
  <2>2. job'[w].sale = NoSale /\ Others(w)
    BY <1>0, <1>22, ReturnMoves DEF ExpireSale
  <2>3. /\ \/ status'[job[w].sale] = status[job[w].sale]
           \/ status[job[w].sale] = "PENDING" /\ ~order[job[w].sale].coupon
        /\ \A s \in Sales \ {job[w].sale} : status'[s] = status[s]
        /\ UNCHANGED <<order, ref, pay>>
    BY <1>0, <1>22, <2>1 DEF ExpireSale, Claimable, AutoFails, TypeOK
  <2>4. status[job[w].sale] = "PENDING" =>
          \A v \in Workers : ~Fulfilling(v, job[w].sale)
    BY <2>1 DEF OneFulfiller
  <2> QED
    BY <1>0, <1>0a, <2>1, <2>2, <2>3, <2>4
<1>23. ASSUME NEW w \in Workers, RequestRefused(w)
      PROVE  FailsForCause'
  <2>1. At(w, "request") /\ job[w].sale \in Sales
    BY <1>0, <1>23, BusyOnSale DEF RequestRefused
  <2>2. ~ref[job[w].sale]
    BY ONLY <2>1, CreatorKnows, Typed, PaidFor, CreatorAlone, w \in Workers
       DEF Creating, At
  <2>3. /\ \/ job'[w].sale = NoSale
           \/ /\ job'[w].pc = "find" /\ job'[w].goal = "fail"
              /\ job'[w].sale = job[w].sale /\ ~order[job[w].sale].coupon
        /\ Others(w)
        /\ UNCHANGED <<order, status, ref, pay>>
    BY <1>0, <1>23, BeginMoves, ReturnMoves DEF RequestRefused, FailInitiation
  <2> QED
    BY <1>0, <1>0a, <2>1, <2>2, <2>3
<1>24. ASSUME NEW w \in Workers, RequestLost(w)
      PROVE  FailsForCause'
  <2>1. At(w, "request") /\ job[w].sale \in Sales
    BY <1>0, <1>24, BusyOnSale DEF RequestLost
  <2>2. /\ pay[job[w].sale] = "none" /\ ~ref[job[w].sale]
        /\ status[job[w].sale] \in {"none", "PENDING"}
        /\ \A v \in Workers \ {w} : job[v].sale # job[w].sale
    BY ONLY <2>1, CreatorKnows, Typed, PaidFor, CreatorAlone, w \in Workers
       DEF Creating, At
  <2>3. /\ \/ job'[w].sale = NoSale
           \/ /\ job'[w].pc = "find" /\ job'[w].goal = "fail"
              /\ job'[w].sale = job[w].sale /\ ~order[job[w].sale].coupon
        /\ Others(w)
    BY <1>0, <1>24, BeginMoves, ReturnMoves DEF RequestLost, FailInitiation
  <2>4. /\ pay'[job[w].sale] = "open"
        /\ \A s \in Sales \ {job[w].sale} : pay'[s] = pay[s]
        /\ UNCHANGED <<order, status, ref>>
    BY <1>0, <1>24, <2>1 DEF RequestLost, TypeOK
  <2> QED
    BY <1>0, <1>0a, <2>1, <2>2, <2>3, <2>4
<1>25. ASSUME NEW w \in Workers, PrepareFails(w)
      PROVE  FailsForCause'
  <2>1. /\ job[w].pc \in {"adjusting", "request"} /\ job[w].sale \in Sales
        /\ Creating(w, job[w].sale)
    BY <1>0, <1>25, BusyOnSale DEF PrepareFails, Creating
  <2>2. /\ pay[job[w].sale] = "none" /\ ~ref[job[w].sale]
        /\ \A v \in Workers \ {w} : job[v].sale # job[w].sale
    BY ONLY <2>1, CreatorKnows, Typed, PaidFor, CreatorAlone, w \in Workers
       DEF At
  <2>3. /\ job'[w].sale = job[w].sale /\ job'[w].pc = "find"
        /\ job'[w].goal = "drop"
        /\ Others(w)
    BY <1>0, <1>25, BeginMoves DEF PrepareFails
  <2>4. /\ \A s \in Sales \ {job[w].sale} : status'[s] = status[s]
        /\ UNCHANGED <<order, ref, pay>>
    BY <1>0, <1>25, <2>1 DEF PrepareFails, TypeOK
  <2> QED
    BY <1>0, <1>0a, <2>1, <2>2, <2>3, <2>4
<1>26. ASSUME NEW w \in Workers, FulfilFails(w)
      PROVE  FailsForCause'
  BY <1>0, <1>0a, <1>26, BusyOnSale, BeginMoves DEF FulfilFails
<1>27. ASSUME NEW w \in Workers, FinalizeThrows(w)
      PROVE  FailsForCause'
  BY <1>0, <1>0a, <1>27, BusyOnSale, ReturnMoves DEF FinalizeThrows
<1>28. ASSUME NEW w \in Workers, SettleFails(w)
      PROVE  FailsForCause'
  BY <1>0, <1>0a, <1>28, BusyOnSale, ReturnMoves DEF SettleFails
<1>29. ASSUME NEW w \in Workers, GiveUp(w)
      PROVE  FailsForCause'
  BY <1>0, <1>0a, <1>29, BusyOnSale, BeginMoves DEF GiveUp
<1>30. ASSUME NEW w \in Workers, NEW s \in Sales, SweepExpired(w, s)
      PROVE  FailsForCause'
  BY <1>0, <1>0a, <1>30, BusyOnSale, EachMoves DEF SweepExpired, Sweepable
<1>31. ASSUME NEW w \in Workers, NEW s \in Sales, NEW r \in Rails, NEW g \in
   {"poll", "reconcile"}, StartAsking(w, s, r, g)
      PROVE  FailsForCause'
  BY <1>0, <1>0a, <1>31, BusyOnSale, BeginMoves DEF StartAsking, Finalizable
<1>32. ASSUME NEW w \in Workers, NEW s \in Sales, ResolveCart(w, s)
      PROVE  FailsForCause'
  BY <1>0, <1>0a, <1>32, BusyOnSale, BeginMoves DEF ResolveCart
<1>33. ASSUME NEW w \in Workers, NEW s \in Sales, NEW a \in {"success",
   "mismatch", "rejected", "pending"}, HearYeboPay(w, s, a)
      PROVE  FailsForCause'
  BY <1>0, <1>0a, <1>33, BusyOnSale, BeginMoves DEF HearYeboPay
<1>34. ASSUME NEW w \in Workers, NEW s \in Sales, NEW e \in {"success",
   "mismatch", "rejected"}, FinalizeYoco(w, s, e)
      PROVE  FailsForCause'
  BY <1>0, <1>0a, <1>34, BusyOnSale, BeginMoves, ReturnMoves DEF FinalizeYoco,
     Finalizable, Verdict
<1>35. ASSUME NEW s \in Sales, BuyerPays(s)
      PROVE  FailsForCause'
  <2>1. /\ pay[s] = "open"
        /\ \A x \in Sales \ {s} : pay'[x] = pay[x]
        /\ UNCHANGED <<order, status, ref, job>>
    BY <1>0, <1>35 DEF BuyerPays, TypeOK
  <2> QED
    BY <1>0, <2>1
<1>36. ASSUME NEW s \in Sales, ProviderDeclines(s)
      PROVE  FailsForCause'
  BY <1>0, <1>0a, <1>36 DEF ProviderDeclines, TypeOK
<1>37. ASSUME NEW s \in Sales, Lapse(s)
      PROVE  FailsForCause'
  BY <1>0, <1>0a, <1>37 DEF Lapse
<1>38. ASSUME Crash
      PROVE  FailsForCause'
  BY <1>0, <1>0a, <1>38 DEF Crash, Idle, Task
<1>39. ASSUME UNCHANGED vars PROVE FailsForCause'
  BY <1>39 DEF vars
<1>40. ASSUME NEW w \in Workers, Continue(w) \/ Fault(w) PROVE FailsForCause'
  BY ONLY <1>40, <1>1, <1>2, <1>3, <1>4, <1>5, <1>6, <1>7, <1>8, <1>9, <1>10,
     <1>11, <1>12, <1>13, <1>14, <1>15, <1>16, <1>17, <1>18, <1>19, <1>20,
     <1>21, <1>22, <1>23, <1>24, <1>25, <1>26, <1>27, <1>28, <1>29
     DEF Continue, Fault, Checkout, Adjust, Finalize, Fulfil, Settle, Rails,
         RequestMomo, RequestCard, RequestDeltapay, RequestYoco, RequestYeboPay
<1>41. ASSUME NEW w \in Workers, NEW s \in Sales, Timer(w, s) \/ Request(w, s)
       PROVE  FailsForCause'
  <2>1. events[s] \subseteq {"success", "mismatch", "rejected"}
    BY <1>0 DEF TypeOK
  <2> QED
    BY ONLY <1>41, <2>1, AnswerTyped, <1>30, <1>31, <1>32, <1>33, <1>34
     DEF Timer, Request, ReconcileMomo, FinalizeMomo, FinalizeCard,
         FinalizeDeltapay, Rails, ReconcileYeboPay, ReturnYeboPay,
         WebhookYeboPay
<1> QED
  BY <1>35, <1>36, <1>37, <1>38, <1>39, <1>40, <1>41 DEF Next, World

(* Every step without such a loss keeps it so. *)
LEMMA MomoKeptStep ==
    ASSUME Typed, PaidFor, CreatorAlone, MomoKept, NoLoss, NoLoss', [Next]_vars
    PROVE  MomoKept'
<1> USE DEF saleVars, stockVars, provVars, At, Others, Busy, MomoKept,
   Failing, Refused
<1>0. JobsTyped /\ TypeOK /\ Busy
  BY DEF JobsTyped, Typed, TypeOK
<1>0a. NoSale \notin Sales
  BY ConstantsAssumption
<1>1. ASSUME NEW w \in Workers, SaveCheckout(w)
      PROVE  MomoKept'
  <2>1. At(w, "checkout") /\ job[w].sale \in Sales
    BY <1>0, <1>1, BusyOnSale DEF SaveCheckout
  <2>2. /\ job'[w].sale = job[w].sale /\ job'[w].pc = "adjust"
        /\ job'[w].goal = "reserve"
        /\ Others(w)
    BY <1>0, <1>1, EachMoves DEF SaveCheckout
  <2>3. /\ \A s \in Sales : status'[s] = "FAILED" => status[s] = "FAILED"
        /\ UNCHANGED <<order, ref, pay>>
    BY <1>0, <1>1, <2>1 DEF SaveCheckout, TypeOK
  <2> QED
    BY <1>0, <1>0a, <2>1, <2>2, <2>3
<1>2. ASSUME NEW w \in Workers, CreateHold(w)
      PROVE  MomoKept'
  BY <1>0, <1>0a, <1>2, BusyOnSale, BeginMoves DEF CreateHold
<1>3. ASSUME NEW w \in Workers, SaveRef(w)
      PROVE  MomoKept'
  <2>1. At(w, "saveRef") /\ job[w].sale \in Sales
    BY <1>0, <1>3, BusyOnSale DEF SaveRef
  <2>2. job'[w].sale = NoSale /\ Others(w)
    BY <1>0, <1>3, ReturnMoves DEF SaveRef
  <2>3. /\ ref' = [ref EXCEPT ![job[w].sale] = TRUE]
        /\ UNCHANGED <<order, status, pay>>
    BY <1>3 DEF SaveRef
  <2>4. ref \in [Sales -> BOOLEAN]
    BY <1>0 DEF TypeOK
  <2>5. /\ ref'[job[w].sale] = TRUE
        /\ \A s \in Sales \ {job[w].sale} : ref'[s] = ref[s]
    BY ONLY <2>1, <2>3, <2>4
  <2> QED
    BY <1>0, <1>0a, <2>1, <2>2, <2>3, <2>5
<1>4. ASSUME NEW w \in Workers, NEW r \in Rails, OpenPayment(w, r)
      PROVE  MomoKept'
  <2>1. At(w, "request") /\ job[w].sale \in Sales
    BY <1>0, <1>4, BusyOnSale DEF OpenPayment
  <2>2. /\ pay[job[w].sale] = "none" /\ ~ref[job[w].sale]
        /\ status[job[w].sale] \in {"none", "PENDING"}
        /\ \A v \in Workers \ {w} : job[v].sale # job[w].sale
    BY ONLY <2>1, CreatorKnows, Typed, PaidFor, CreatorAlone, w \in Workers
       DEF Creating, At
  <2>3. /\ job'[w].sale = job[w].sale /\ job'[w].pc = "saveRef"
        /\ job'[w].goal = "reserve"
        /\ Others(w)
    BY <1>0, <1>4, BeginMoves, ReturnMoves DEF OpenPayment, FailInitiation
  <2>4. /\ pay'[job[w].sale] = "open"
        /\ \A s \in Sales \ {job[w].sale} : pay'[s] = pay[s]
        /\ UNCHANGED <<order, status, ref>>
    BY <1>0, <1>4, <2>1 DEF OpenPayment, TypeOK
  <2> QED
    BY <1>0, <1>0a, <2>1, <2>2, <2>3, <2>4
<1>5. ASSUME NEW w \in Workers, AdjustSave(w)
      PROVE  MomoKept'
  BY <1>0, <1>0a, <1>5, BusyOnSale, EachMoves DEF AdjustSave
<1>6. ASSUME NEW w \in Workers, NEW t \in Tiers, AdjustRead(w, t)
      PROVE  MomoKept'
  BY <1>0, <1>0a, <1>6, BusyOnSale, ReadMoves DEF AdjustRead
<1>7. ASSUME NEW w \in Workers, Ask(w)
      PROVE  MomoKept'
  BY <1>0, <1>0a, <1>7, BusyOnSale, BeginMoves, ReturnMoves DEF Ask, Verdict,
     Answer
<1>8. ASSUME NEW w \in Workers, FinalizeYeboPay(w)
      PROVE  MomoKept'
  BY <1>0, <1>0a, <1>8, BusyOnSale, BeginMoves, ReturnMoves DEF
     FinalizeYeboPay, Finalizable, Verdict
<1>9. ASSUME NEW w \in Workers, Claim(w)
      PROVE  MomoKept'
  <2>1. At(w, "claim") /\ job[w].sale \in Sales
    BY <1>0, <1>9, BusyOnSale DEF Claim
  <2>2. /\ \/ /\ job'[w].sale = job[w].sale /\ job'[w].pc = "load"
              /\ job'[w].goal = "none"
           \/ job'[w].sale = NoSale
        /\ Others(w)
    BY <1>0, <1>9, BeginMoves, ReturnMoves DEF Claim
  <2>3. /\ \A s \in Sales : status'[s] = "FAILED" => status[s] = "FAILED"
        /\ UNCHANGED <<order, ref, pay>>
    BY <1>0, <1>9, <2>1 DEF Claim, TypeOK
  <2> QED
    BY <1>0, <1>0a, <2>1, <2>2, <2>3
<1>10. ASSUME NEW w \in Workers, LoadEvent(w)
      PROVE  MomoKept'
  BY <1>0, <1>0a, <1>10, BusyOnSale, BeginMoves DEF LoadEvent
<1>11. ASSUME NEW w \in Workers, LinkTickets(w)
      PROVE  MomoKept'
  BY <1>0, <1>0a, <1>11, BusyOnSale, BeginMoves DEF LinkTickets
<1>12. ASSUME NEW w \in Workers, SoldSave(w)
      PROVE  MomoKept'
  BY <1>0, <1>0a, <1>12, BusyOnSale, EachMoves DEF SoldSave
<1>13. ASSUME NEW w \in Workers, SoldDone(w)
      PROVE  MomoKept'
  BY <1>0, <1>0a, <1>13, BusyOnSale, ReturnMoves DEF SoldDone
<1>14. ASSUME NEW w \in Workers, Recount(w)
      PROVE  MomoKept'
  BY <1>0, <1>0a, <1>14, BusyOnSale, BeginMoves, ReturnMoves DEF Recount,
     NothingMinted
<1>15. ASSUME NEW w \in Workers, Unclaim(w)
      PROVE  MomoKept'
  <2>1. At(w, "unclaim") /\ job[w].sale \in Sales
    BY <1>0, <1>15, BusyOnSale DEF Unclaim
  <2>2. job'[w].sale = NoSale /\ Others(w)
    BY <1>0, <1>15, ReturnMoves DEF Unclaim
  <2>3. /\ \A s \in Sales : status'[s] = "FAILED" => status[s] = "FAILED"
        /\ UNCHANGED <<order, ref, pay>>
    BY <1>0, <1>15, <2>1 DEF Unclaim, TypeOK
  <2> QED
    BY <1>0, <1>0a, <2>1, <2>2, <2>3
<1>16. ASSUME NEW w \in Workers, NEW t \in Tiers, Mint(w, t)
      PROVE  MomoKept'
  <2>1. At(w, "mint") /\ job[w].sale \in Sales
    BY <1>0, <1>16, BusyOnSale DEF Mint
  <2>2. /\ job'[w].sale = job[w].sale /\ job'[w].pc = "mint"
        /\ job'[w].goal = "none"
        /\ Others(w)
    BY <1>0, <1>16, MintMoves
  <2>3. UNCHANGED <<order, status, ref, pay>>
    BY <1>16 DEF Mint
  <2> QED
    BY <1>0, <1>0a, <2>1, <2>2, <2>3
<1>17. ASSUME NEW w \in Workers, NEW t \in Tiers, SoldRead(w, t)
      PROVE  MomoKept'
  BY <1>0, <1>0a, <1>17, BusyOnSale, ReadMoves DEF SoldRead
<1>18. ASSUME NEW w \in Workers, FindHold(w)
      PROVE  MomoKept'
  BY <1>0, <1>0a, <1>18, BusyOnSale, EachMoves, BeginMoves, ReturnMoves DEF
     FindHold, Settled
<1>19. ASSUME NEW w \in Workers, SaveHold(w)
      PROVE  MomoKept'
  BY <1>0, <1>0a, <1>19, BusyOnSale, EachMoves, BeginMoves, ReturnMoves DEF
     SaveHold, Settled
<1>20. ASSUME NEW w \in Workers, FailSale(w)
      PROVE  MomoKept'
  <2>1. At(w, "fail") /\ job[w].sale \in Sales
    BY <1>0, <1>20, BusyOnSale DEF FailSale
  <2>2. job'[w].sale = NoSale /\ Others(w)
    BY <1>0, <1>20, ReturnMoves DEF FailSale
  <2>3. /\ \A s \in Sales \ {job[w].sale} : status'[s] = status[s]
        /\ UNCHANGED <<order, ref, pay>>
    BY <1>0, <1>20, <2>1 DEF FailSale, Claimable, AutoFails, TypeOK
  <2> QED
    BY <1>0, <1>0a, <2>1, <2>2, <2>3
<1>21. ASSUME NEW w \in Workers, AbandonSale(w)
      PROVE  MomoKept'
  <2>1. At(w, "abandon") /\ job[w].sale \in Sales
    BY <1>0, <1>21, BusyOnSale DEF AbandonSale
  <2>2. job'[w].sale = NoSale /\ Others(w)
    BY <1>0, <1>21, ReturnMoves DEF AbandonSale
  <2>3. /\ \A s \in Sales \ {job[w].sale} : status'[s] = status[s]
        /\ UNCHANGED <<order, ref, pay>>
    BY <1>0, <1>21, <2>1 DEF AbandonSale, Claimable, AutoFails, TypeOK
  <2> QED
    BY <1>0, <1>0a, <2>1, <2>2, <2>3
<1>22. ASSUME NEW w \in Workers, ExpireSale(w)
      PROVE  MomoKept'
  <2>1. At(w, "expire") /\ job[w].sale \in Sales
    BY <1>0, <1>22, BusyOnSale DEF ExpireSale
  <2>2. job'[w].sale = NoSale /\ Others(w)
    BY <1>0, <1>22, ReturnMoves DEF ExpireSale
  <2>3. /\ \/ status'[job[w].sale] = status[job[w].sale]
           \/ ~(order[job[w].sale].rail = "MOMO" /\ ref[job[w].sale])
        /\ \A s \in Sales \ {job[w].sale} : status'[s] = status[s]
        /\ UNCHANGED <<order, ref, pay>>
    BY <1>0, <1>22, <2>1 DEF ExpireSale, Claimable, AutoFails, TypeOK
  <2>4. \A v \in Workers : ~(job[v].sale = job[w].sale /\ At(v, "saveRef"))
    BY <2>1 DEF CreatorAlone, Creating
  <2> QED
    BY <1>0, <1>0a, <2>1, <2>2, <2>3, <2>4
<1>23. ASSUME NEW w \in Workers, RequestRefused(w)
      PROVE  MomoKept'
  <2>1. At(w, "request") /\ job[w].sale \in Sales
    BY <1>0, <1>23, BusyOnSale DEF RequestRefused
  <2>2. pay[job[w].sale] = "none"
    BY ONLY <2>1, CreatorKnows, Typed, PaidFor, CreatorAlone, w \in Workers
       DEF Creating, At
  <2>3. /\ \/ job'[w].sale = NoSale
           \/ /\ job'[w].pc = "find" /\ job'[w].goal = "fail"
              /\ job'[w].sale = job[w].sale
        /\ Others(w)
        /\ UNCHANGED <<order, status, ref, pay>>
    BY <1>0, <1>23, BeginMoves, ReturnMoves DEF RequestRefused, FailInitiation
  <2> QED
    BY <1>0, <1>0a, <2>1, <2>2, <2>3
<1>24. ASSUME NEW w \in Workers, RequestLost(w)
      PROVE  MomoKept'
  BY <1>0, <1>24 DEF RequestLost, Spend, NoLoss, Never, TypeOK, Faults
<1>25. ASSUME NEW w \in Workers, PrepareFails(w)
      PROVE  MomoKept'
  <2>1. /\ job[w].pc \in {"adjusting", "request"} /\ job[w].sale \in Sales
        /\ Creating(w, job[w].sale)
    BY <1>0, <1>25, BusyOnSale DEF PrepareFails, Creating
  <2>2. /\ pay[job[w].sale] = "none"
        /\ \A v \in Workers \ {w} : job[v].sale # job[w].sale
    BY ONLY <2>1, CreatorKnows, Typed, PaidFor, CreatorAlone, w \in Workers
       DEF At
  <2>3. /\ job'[w].sale = job[w].sale /\ job'[w].pc = "find"
        /\ job'[w].goal = "drop"
        /\ Others(w)
    BY <1>0, <1>25, BeginMoves DEF PrepareFails
  <2>4. /\ \A s \in Sales \ {job[w].sale} : status'[s] = status[s]
        /\ UNCHANGED <<order, ref, pay>>
    BY <1>0, <1>25, <2>1 DEF PrepareFails, TypeOK
  <2> QED
    BY <1>0, <1>0a, <2>1, <2>2, <2>3, <2>4
<1>26. ASSUME NEW w \in Workers, FulfilFails(w)
      PROVE  MomoKept'
  BY <1>0, <1>0a, <1>26, BusyOnSale, BeginMoves DEF FulfilFails
<1>27. ASSUME NEW w \in Workers, FinalizeThrows(w)
      PROVE  MomoKept'
  BY <1>0, <1>0a, <1>27, BusyOnSale, ReturnMoves DEF FinalizeThrows
<1>28. ASSUME NEW w \in Workers, SettleFails(w)
      PROVE  MomoKept'
  BY <1>0, <1>0a, <1>28, BusyOnSale, ReturnMoves DEF SettleFails
<1>29. ASSUME NEW w \in Workers, GiveUp(w)
      PROVE  MomoKept'
  BY <1>0, <1>29 DEF GiveUp, Spend, NoLoss, Never, TypeOK, Faults
<1>30. ASSUME NEW w \in Workers, NEW s \in Sales, SweepExpired(w, s)
      PROVE  MomoKept'
  BY <1>0, <1>0a, <1>30, BusyOnSale, EachMoves DEF SweepExpired, Sweepable
<1>31. ASSUME NEW w \in Workers, NEW s \in Sales, NEW r \in Rails, NEW g \in
   {"poll", "reconcile"}, StartAsking(w, s, r, g)
      PROVE  MomoKept'
  BY <1>0, <1>0a, <1>31, BusyOnSale, BeginMoves DEF StartAsking, Finalizable
<1>32. ASSUME NEW w \in Workers, NEW s \in Sales, ResolveCart(w, s)
      PROVE  MomoKept'
  BY <1>0, <1>0a, <1>32, BusyOnSale, BeginMoves DEF ResolveCart
<1>33. ASSUME NEW w \in Workers, NEW s \in Sales, NEW a \in {"success",
   "mismatch", "rejected", "pending"}, HearYeboPay(w, s, a)
      PROVE  MomoKept'
  BY <1>0, <1>0a, <1>33, BusyOnSale, BeginMoves DEF HearYeboPay
<1>34. ASSUME NEW w \in Workers, NEW s \in Sales, NEW e \in {"success",
   "mismatch", "rejected"}, FinalizeYoco(w, s, e)
      PROVE  MomoKept'
  BY <1>0, <1>0a, <1>34, BusyOnSale, BeginMoves, ReturnMoves DEF FinalizeYoco,
     Finalizable, Verdict
<1>35. ASSUME NEW s \in Sales, BuyerPays(s)
      PROVE  MomoKept'
  <2>1. /\ pay[s] = "open"
        /\ \A x \in Sales \ {s} : pay'[x] = pay[x]
        /\ UNCHANGED <<order, status, ref, job>>
    BY <1>0, <1>35 DEF BuyerPays, TypeOK
  <2> QED
    BY <1>0, <2>1
<1>36. ASSUME NEW s \in Sales, ProviderDeclines(s)
      PROVE  MomoKept'
  BY <1>0, <1>0a, <1>36 DEF ProviderDeclines, TypeOK
<1>37. ASSUME NEW s \in Sales, Lapse(s)
      PROVE  MomoKept'
  BY <1>0, <1>0a, <1>37 DEF Lapse
<1>38. ASSUME Crash
      PROVE  MomoKept'
  BY <1>0, <1>38 DEF Crash, Spend, NoLoss, Never, TypeOK, Faults
<1>39. ASSUME UNCHANGED vars PROVE MomoKept'
  BY <1>39 DEF vars
<1>40. ASSUME NEW w \in Workers, Continue(w) \/ Fault(w) PROVE MomoKept'
  BY ONLY <1>40, <1>1, <1>2, <1>3, <1>4, <1>5, <1>6, <1>7, <1>8, <1>9, <1>10,
     <1>11, <1>12, <1>13, <1>14, <1>15, <1>16, <1>17, <1>18, <1>19, <1>20,
     <1>21, <1>22, <1>23, <1>24, <1>25, <1>26, <1>27, <1>28, <1>29
     DEF Continue, Fault, Checkout, Adjust, Finalize, Fulfil, Settle, Rails,
         RequestMomo, RequestCard, RequestDeltapay, RequestYoco, RequestYeboPay
<1>41. ASSUME NEW w \in Workers, NEW s \in Sales, Timer(w, s) \/ Request(w, s)
       PROVE  MomoKept'
  <2>1. events[s] \subseteq {"success", "mismatch", "rejected"}
    BY <1>0 DEF TypeOK
  <2> QED
    BY ONLY <1>41, <2>1, AnswerTyped, <1>30, <1>31, <1>32, <1>33, <1>34
     DEF Timer, Request, ReconcileMomo, FinalizeMomo, FinalizeCard,
         FinalizeDeltapay, Rails, ReconcileYeboPay, ReturnYeboPay,
         WebhookYeboPay
<1> QED
  BY <1>35, <1>36, <1>37, <1>38, <1>39, <1>40, <1>41 DEF Next, World

(* Every such step keeps claims so. *)
LEMMA ClaimsKeptStep ==
    ASSUME Typed, OneFulfiller, ClaimsKept, Budget["uncaught"] = 0,
           Never({"crash"}), Never({"crash"})', [Next]_vars
    PROVE  ClaimsKept'
<1> USE DEF saleVars, stockVars, provVars, At, Others, Busy, ClaimsKept
<1>0. JobsTyped /\ TypeOK /\ Busy
  BY DEF JobsTyped, Typed, TypeOK
<1>0a. NoSale \notin Sales
  BY ConstantsAssumption
<1>1. ASSUME NEW w \in Workers, SaveCheckout(w)
      PROVE  ClaimsKept'
  <2>1. At(w, "checkout") /\ job[w].sale \in Sales
    BY <1>0, <1>1, BusyOnSale DEF SaveCheckout
  <2>2. /\ Others(w)
        /\ UNCHANGED <<linked, tickets>>
    BY <1>0, <1>1, EachMoves DEF SaveCheckout
  <2>3. \A s \in Sales : status'[s] = "COMPLETED" => status[s] = "COMPLETED"
    BY <1>0, <1>1, <2>1 DEF SaveCheckout, TypeOK
  <2> QED
    BY <1>0, <1>0a, <2>1, <2>2, <2>3
<1>2. ASSUME NEW w \in Workers, CreateHold(w)
      PROVE  ClaimsKept'
  BY <1>0, <1>0a, <1>2, BusyOnSale, BeginMoves DEF CreateHold
<1>3. ASSUME NEW w \in Workers, SaveRef(w)
      PROVE  ClaimsKept'
  BY <1>0, <1>0a, <1>3, BusyOnSale, ReturnMoves DEF SaveRef
<1>4. ASSUME NEW w \in Workers, NEW r \in Rails, OpenPayment(w, r)
      PROVE  ClaimsKept'
  BY <1>0, <1>0a, <1>4, BusyOnSale, BeginMoves DEF OpenPayment
<1>5. ASSUME NEW w \in Workers, AdjustSave(w)
      PROVE  ClaimsKept'
  BY <1>0, <1>0a, <1>5, BusyOnSale, EachMoves DEF AdjustSave
<1>6. ASSUME NEW w \in Workers, NEW t \in Tiers, AdjustRead(w, t)
      PROVE  ClaimsKept'
  BY <1>0, <1>0a, <1>6, BusyOnSale, ReadMoves DEF AdjustRead
<1>7. ASSUME NEW w \in Workers, Ask(w)
      PROVE  ClaimsKept'
  BY <1>0, <1>0a, <1>7, BusyOnSale, BeginMoves, ReturnMoves DEF Ask, Verdict
<1>8. ASSUME NEW w \in Workers, FinalizeYeboPay(w)
      PROVE  ClaimsKept'
  BY <1>0, <1>0a, <1>8, BusyOnSale, BeginMoves, ReturnMoves DEF
     FinalizeYeboPay, Finalizable, Verdict
<1>9. ASSUME NEW w \in Workers, Claim(w)
      PROVE  ClaimsKept'
  <2>1. At(w, "claim") /\ job[w].sale \in Sales
    BY <1>0, <1>9, BusyOnSale DEF Claim
  <2>2. CASE Claimable(job[w].sale)
    <3>1. /\ job'[w].sale = job[w].sale /\ job'[w].pc = "load"
          /\ Others(w)
      BY <1>0, <1>9, <2>2, BeginMoves DEF Claim
    <3>2. /\ \A s \in Sales \ {job[w].sale} : status'[s] = status[s]
          /\ UNCHANGED <<linked, tickets>>
      BY <1>0, <1>9, <2>1, <2>2 DEF Claim, TypeOK
    <3> QED
      BY <1>0, <1>0a, <2>1, <3>1, <3>2
  <2>3. CASE ~Claimable(job[w].sale)
    BY <1>0, <1>0a, <1>9, <2>1, <2>3, ReturnMoves DEF Claim
  <2> QED
    BY <2>2, <2>3
<1>10. ASSUME NEW w \in Workers, LoadEvent(w)
      PROVE  ClaimsKept'
  BY <1>0, <1>0a, <1>10, BusyOnSale, BeginMoves DEF LoadEvent
<1>11. ASSUME NEW w \in Workers, LinkTickets(w)
      PROVE  ClaimsKept'
  <2>1. At(w, "mint") /\ job[w].sale \in Sales
    BY <1>0, <1>11, BusyOnSale DEF LinkTickets
  <2>2. Others(w)
    BY <1>0, <1>11, BeginMoves DEF LinkTickets
  <2>3. /\ \A s \in Sales \ {job[w].sale} : linked'[s] = linked[s]
        /\ UNCHANGED <<tickets, status>>
    BY <1>0, <1>11, <2>1 DEF LinkTickets, TypeOK
  <2>4. tickets[job[w].sale] = order[job[w].sale].cart
    BY <1>11, <2>1 DEF LinkTickets, OneFulfiller
  <2>5. order[job[w].sale].cart # Nothing
    BY <1>0, <2>1, ConstantsAssumption DEF TypeOK, Nothing
  <2> QED
    BY <1>0, <1>0a, <2>1, <2>2, <2>3, <2>4, <2>5
<1>12. ASSUME NEW w \in Workers, SoldSave(w)
      PROVE  ClaimsKept'
  BY <1>0, <1>0a, <1>12, BusyOnSale, EachMoves DEF SoldSave
<1>13. ASSUME NEW w \in Workers, SoldDone(w)
      PROVE  ClaimsKept'
  BY <1>0, <1>0a, <1>13, BusyOnSale, ReturnMoves DEF SoldDone
<1>14. ASSUME NEW w \in Workers, Recount(w)
      PROVE  ClaimsKept'
  BY <1>0, <1>0a, <1>14, BusyOnSale, BeginMoves, ReturnMoves DEF Recount,
     NothingMinted
<1>15. ASSUME NEW w \in Workers, Unclaim(w)
      PROVE  ClaimsKept'
  <2>1. At(w, "unclaim") /\ job[w].sale \in Sales
    BY <1>0, <1>15, BusyOnSale DEF Unclaim
  <2>2. Others(w)
    BY <1>0, <1>15, ReturnMoves DEF Unclaim
  <2>3. /\ \A s \in Sales \ {job[w].sale} : status'[s] = status[s]
        /\ status'[job[w].sale] = "COMPLETED" => linked[job[w].sale]
        /\ UNCHANGED <<linked, tickets>>
    BY <1>0, <1>15, <2>1 DEF Unclaim, TypeOK
  <2> QED
    BY <1>0, <1>0a, <2>1, <2>2, <2>3
<1>16. ASSUME NEW w \in Workers, NEW t \in Tiers, Mint(w, t)
      PROVE  ClaimsKept'
  <2>1. At(w, "mint") /\ job[w].sale \in Sales
    BY <1>0, <1>16, BusyOnSale DEF Mint
  <2>2. Others(w)
    BY <1>0, <1>16, MintMoves
  <2>3. /\ \A s \in Sales \ {job[w].sale} : tickets'[s] = tickets[s]
        /\ tickets'[job[w].sale][t] = tickets[job[w].sale][t] + 1
        /\ tickets[job[w].sale][t] \in Nat
        /\ UNCHANGED <<linked, status>>
    BY <1>0, <1>16, <2>1 DEF Mint, TypeOK
  <2>4. tickets'[job[w].sale] # Nothing
    BY <2>3 DEF Nothing
  <2> QED
    BY <1>0, <1>0a, <2>1, <2>2, <2>3, <2>4
<1>17. ASSUME NEW w \in Workers, NEW t \in Tiers, SoldRead(w, t)
      PROVE  ClaimsKept'
  BY <1>0, <1>0a, <1>17, BusyOnSale, ReadMoves DEF SoldRead
<1>18. ASSUME NEW w \in Workers, FindHold(w)
      PROVE  ClaimsKept'
  BY <1>0, <1>0a, <1>18, BusyOnSale, EachMoves, BeginMoves, ReturnMoves DEF
     FindHold, Settled
<1>19. ASSUME NEW w \in Workers, SaveHold(w)
      PROVE  ClaimsKept'
  BY <1>0, <1>0a, <1>19, BusyOnSale, EachMoves, BeginMoves, ReturnMoves DEF
     SaveHold, Settled
<1>20. ASSUME NEW w \in Workers, FailSale(w)
      PROVE  ClaimsKept'
  <2>1. At(w, "fail") /\ job[w].sale \in Sales
    BY <1>0, <1>20, BusyOnSale DEF FailSale
  <2>2. /\ Others(w)
        /\ UNCHANGED <<linked, tickets>>
    BY <1>0, <1>20, ReturnMoves DEF FailSale
  <2>3. \A s \in Sales : status'[s] = "COMPLETED" => status[s] = "COMPLETED"
    BY <1>0, <1>20, <2>1 DEF FailSale, TypeOK
  <2> QED
    BY <1>0, <1>0a, <2>1, <2>2, <2>3
<1>21. ASSUME NEW w \in Workers, AbandonSale(w)
      PROVE  ClaimsKept'
  <2>1. At(w, "abandon") /\ job[w].sale \in Sales
    BY <1>0, <1>21, BusyOnSale DEF AbandonSale
  <2>2. /\ Others(w)
        /\ UNCHANGED <<linked, tickets>>
    BY <1>0, <1>21, ReturnMoves DEF AbandonSale
  <2>3. \A s \in Sales : status'[s] = "COMPLETED" => status[s] = "COMPLETED"
    BY <1>0, <1>21, <2>1 DEF AbandonSale, TypeOK
  <2> QED
    BY <1>0, <1>0a, <2>1, <2>2, <2>3
<1>22. ASSUME NEW w \in Workers, ExpireSale(w)
      PROVE  ClaimsKept'
  <2>1. At(w, "expire") /\ job[w].sale \in Sales
    BY <1>0, <1>22, BusyOnSale DEF ExpireSale
  <2>2. /\ Others(w)
        /\ UNCHANGED <<linked, tickets>>
    BY <1>0, <1>22, ReturnMoves DEF ExpireSale
  <2>3. \A s \in Sales : status'[s] = "COMPLETED" => status[s] = "COMPLETED"
    BY <1>0, <1>22, <2>1 DEF ExpireSale, TypeOK
  <2> QED
    BY <1>0, <1>0a, <2>1, <2>2, <2>3
<1>23. ASSUME NEW w \in Workers, RequestRefused(w)
      PROVE  ClaimsKept'
  BY <1>0, <1>0a, <1>23, BusyOnSale, BeginMoves, ReturnMoves DEF
     RequestRefused, FailInitiation
<1>24. ASSUME NEW w \in Workers, RequestLost(w)
      PROVE  ClaimsKept'
  BY <1>0, <1>0a, <1>24, BusyOnSale, BeginMoves, ReturnMoves DEF RequestLost,
     FailInitiation
<1>25. ASSUME NEW w \in Workers, PrepareFails(w)
      PROVE  ClaimsKept'
  <2>1. job[w].pc \in {"adjusting", "request"} /\ job[w].sale \in Sales
    BY <1>0, <1>25, BusyOnSale DEF PrepareFails
  <2>2. /\ Others(w)
        /\ UNCHANGED <<linked, tickets>>
    BY <1>0, <1>25, BeginMoves DEF PrepareFails
  <2>3. \A s \in Sales : status'[s] = "COMPLETED" => status[s] = "COMPLETED"
    BY <1>0, <1>25, <2>1 DEF PrepareFails, TypeOK
  <2> QED
    BY <1>0, <1>0a, <2>1, <2>2, <2>3
<1>26. ASSUME NEW w \in Workers, FulfilFails(w)
      PROVE  ClaimsKept'
  <2>1. /\ job[w].sale \in Sales
        /\ \A v \in Workers \ {w} : ~Fulfilling(v, job[w].sale)
    BY <1>0, <1>26, BusyOnSale DEF FulfilFails, OneFulfiller, Fulfilling
  <2>2. /\ job'[w].sale = job[w].sale /\ job'[w].pc = "recount"
        /\ Others(w)
        /\ UNCHANGED <<status, linked, tickets>>
    BY <1>0, <1>26, BeginMoves DEF FulfilFails
  <2> QED
    BY <1>0, <1>0a, <2>1, <2>2
<1>27. ASSUME NEW w \in Workers, FinalizeThrows(w)
      PROVE  ClaimsKept'
  BY <1>0, <1>27, Budget["uncaught"] = 0 DEF FinalizeThrows, Spend, Never, TypeOK, Faults
<1>28. ASSUME NEW w \in Workers, SettleFails(w)
      PROVE  ClaimsKept'
  BY <1>0, <1>0a, <1>28, BusyOnSale, ReturnMoves DEF SettleFails
<1>29. ASSUME NEW w \in Workers, GiveUp(w)
      PROVE  ClaimsKept'
  BY <1>0, <1>0a, <1>29, BusyOnSale, BeginMoves DEF GiveUp
<1>30. ASSUME NEW w \in Workers, NEW s \in Sales, SweepExpired(w, s)
      PROVE  ClaimsKept'
  BY <1>0, <1>0a, <1>30, BusyOnSale, EachMoves DEF SweepExpired, Sweepable
<1>31. ASSUME NEW w \in Workers, NEW s \in Sales, NEW r \in Rails, NEW g \in
   {"poll", "reconcile"}, StartAsking(w, s, r, g)
      PROVE  ClaimsKept'
  BY <1>0, <1>0a, <1>31, BusyOnSale, BeginMoves DEF StartAsking, Finalizable
<1>32. ASSUME NEW w \in Workers, NEW s \in Sales, ResolveCart(w, s)
      PROVE  ClaimsKept'
  BY <1>0, <1>0a, <1>32, BusyOnSale, BeginMoves DEF ResolveCart
<1>33. ASSUME NEW w \in Workers, NEW s \in Sales, NEW a \in {"success",
   "mismatch", "rejected", "pending"}, HearYeboPay(w, s, a)
      PROVE  ClaimsKept'
  BY <1>0, <1>0a, <1>33, BusyOnSale, BeginMoves DEF HearYeboPay
<1>34. ASSUME NEW w \in Workers, NEW s \in Sales, NEW e \in {"success",
   "mismatch", "rejected"}, FinalizeYoco(w, s, e)
      PROVE  ClaimsKept'
  BY <1>0, <1>0a, <1>34, BusyOnSale, BeginMoves, ReturnMoves DEF FinalizeYoco,
     Finalizable, Verdict
<1>35. ASSUME NEW s \in Sales, BuyerPays(s)
      PROVE  ClaimsKept'
  BY <1>0, <1>0a, <1>35 DEF BuyerPays
<1>36. ASSUME NEW s \in Sales, ProviderDeclines(s)
      PROVE  ClaimsKept'
  BY <1>0, <1>0a, <1>36 DEF ProviderDeclines
<1>37. ASSUME NEW s \in Sales, Lapse(s)
      PROVE  ClaimsKept'
  BY <1>0, <1>0a, <1>37 DEF Lapse
<1>38. ASSUME Crash
      PROVE  ClaimsKept'
  BY <1>0, <1>38, Budget["uncaught"] = 0 DEF Crash, Spend, Never, TypeOK, Faults
<1>39. ASSUME UNCHANGED vars PROVE ClaimsKept'
  BY <1>39 DEF vars
<1>40. ASSUME NEW w \in Workers, Continue(w) \/ Fault(w) PROVE ClaimsKept'
  BY ONLY <1>40, <1>1, <1>2, <1>3, <1>4, <1>5, <1>6, <1>7, <1>8, <1>9, <1>10,
     <1>11, <1>12, <1>13, <1>14, <1>15, <1>16, <1>17, <1>18, <1>19, <1>20,
     <1>21, <1>22, <1>23, <1>24, <1>25, <1>26, <1>27, <1>28, <1>29
     DEF Continue, Fault, Checkout, Adjust, Finalize, Fulfil, Settle, Rails,
         RequestMomo, RequestCard, RequestDeltapay, RequestYoco, RequestYeboPay
<1>41. ASSUME NEW w \in Workers, NEW s \in Sales, Timer(w, s) \/ Request(w, s)
       PROVE  ClaimsKept'
  <2>1. events[s] \subseteq {"success", "mismatch", "rejected"}
    BY <1>0 DEF TypeOK
  <2> QED
    BY ONLY <1>41, <2>1, AnswerTyped, <1>30, <1>31, <1>32, <1>33, <1>34
     DEF Timer, Request, ReconcileMomo, FinalizeMomo, FinalizeCard,
         FinalizeDeltapay, Rails, ReconcileYeboPay, ReturnYeboPay,
         WebhookYeboPay
<1> QED
  BY <1>35, <1>36, <1>37, <1>38, <1>39, <1>40, <1>41 DEF Next, World
-----------------------------------------------------------------------------
(* The theorems.                                                              *)

Kept == CreatorAlone /\ Referenced /\ FailsForCause

LEMMA InitKept == Init => Kept
<1> SUFFICES ASSUME Init PROVE Kept
  OBVIOUS
<1> USE DEF Init, Idle, Task, At
<1>1. CreatorAlone
  BY ConstantsAssumption DEF CreatorAlone, Creating
<1>2. Referenced
  BY ConstantsAssumption DEF Referenced, Fulfilling
<1>3. FailsForCause
  BY ConstantsAssumption DEF FailsForCause, Failing, Fulfilling
<1> QED
  BY <1>1, <1>2, <1>3 DEF Kept

(* In every behaviour creators work alone, judged sales have their reference, *)
(* completed ones were paid, and sales with a final answer fail for cause.    *)
THEOREM PromiseInvariant == Spec => [](IInv /\ Kept)
<1>1. IInv /\ Kept /\ [Next]_vars => Kept'
  BY CreatorAloneStep, ReferencedStep, FailsForCauseStep DEF IInv, Kept
<1> QED
  BY <1>1, InitKept, InitIInv, IInvStep, PTL DEF Spec

(* A voucher stays locked while the provider may still collect, on every rail *)
(* with a final answer, whatever is lost, crashes or times out.               *)
THEOREM VoucherStaysLocked == Spec => []CouponStaysLocked
<1>1. Kept => CouponStaysLocked
  BY DEF Kept, FailsForCause, CouponStaysLocked, Refused
<1> QED
  BY <1>1, PromiseInvariant, PTL

(* Faults are counted and never forgotten. *)
LEMMA NeverOnce ==
    ASSUME Typed, [Next]_vars, NEW fs \in SUBSET Faults, Never(fs)'
    PROVE  Never(fs)
<1> DEFINE Grows == \A f \in Faults : spent[f] =< spent'[f]
<1>0. spent \in [Faults -> Nat]
  BY DEF Typed, TypeOK
<1>1. ASSUME UNCHANGED spent PROVE Grows
  BY <1>0, <1>1
<1>2. ASSUME NEW f \in Faults, Spend(f) PROVE Grows
  BY <1>0, <1>2 DEF Spend
<1>3. ASSUME NEW w \in Workers, Continue(w) PROVE UNCHANGED spent
  BY <1>3
     DEF Continue, Checkout, SaveCheckout, CreateHold, SaveRef, RequestMomo,
         RequestCard, RequestDeltapay, RequestYoco, RequestYeboPay,
         OpenPayment, Adjust, AdjustRead, AdjustSave, Finalize, Ask,
         FinalizeYeboPay, Claim, Fulfil, Mint, LoadEvent, LinkTickets,
         SoldRead, SoldSave, SoldDone, Recount, Unclaim, Settle, FindHold,
         SaveHold, FailSale, AbandonSale, ExpireSale
<1>4. ASSUME NEW w \in Workers, Fault(w)
      PROVE  UNCHANGED spent \/ \E f \in Faults : Spend(f)
  BY <1>4
     DEF Fault, RequestRefused, RequestLost, PrepareFails, FulfilFails,
         FinalizeThrows, SettleFails, GiveUp, Faults
<1>5. ASSUME NEW w \in Workers, NEW s \in Sales, Timer(w, s) \/ Request(w, s)
      PROVE  UNCHANGED spent
  BY <1>5
     DEF Timer, SweepExpired, ReconcileMomo, FinalizeCard, FinalizeDeltapay,
         ReconcileYeboPay, StartAsking, Request, ResolveCart, FinalizeMomo,
         ReturnYeboPay, FinalizeYoco, WebhookYeboPay, HearYeboPay
<1>6. ASSUME NEW s \in Sales, World(s) PROVE UNCHANGED spent
  BY <1>6 DEF World, BuyerPays, ProviderDeclines, Lapse
<1>7. ASSUME Crash PROVE \E f \in Faults : Spend(f)
  BY <1>7 DEF Crash, Faults
<1>8. Grows
  <2> HIDE DEF Grows
  <2> QED
    BY <1>1, <1>2, <1>3, <1>4, <1>5, <1>6, <1>7 DEF Next, vars
<1> QED
  BY <1>0, <1>8 DEF Never

(* A MoMo buyer who was debited is never left with a FAILED sale, unless      *)
(* MTN's answer was lost, the process died, or the sale was given up.         *)
THEOREM PaidMomoStands == Spec => []PaidMomoNotFailed
<1> DEFINE M == NoLoss => MomoKept
<1>1. Init => M
  BY ConstantsAssumption
     DEF Init, MomoKept, Failing, Idle, Task, At
<1>2. IInv /\ Kept /\ M /\ [Next]_vars => M'
  <2> SUFFICES ASSUME IInv, Kept, M, [Next]_vars, NoLoss' PROVE MomoKept'
    OBVIOUS
  <2>1. {"lost", "crash", "overdue"} \in SUBSET Faults
    BY DEF Faults
  <2>2. NoLoss
    BY ONLY <2>1, IInv, [Next]_vars, NoLoss', NeverOnce DEF NoLoss, IInv
  <2> QED
    BY <2>2, MomoKeptStep DEF IInv, Kept
<1>3. M => PaidMomoNotFailed
  BY DEF MomoKept, NoLoss, PaidMomoNotFailed, Refused
<1> QED
  BY <1>1, <1>2, <1>3, PromiseInvariant, PTL DEF Spec

(* A claim without tickets has a handler at work on it, unless the process    *)
(* died, if the reads and writes outside the catch of fulfilClaimedSale do    *)
(* not throw.                                                                 *)
THEOREM ClaimsAreFulfilled ==
    ASSUME Budget["uncaught"] = 0
    PROVE  Spec => []NoStrandedClaim
<1> DEFINE C == Never({"crash"}) => ClaimsKept
<1>1. Init => C
  BY DEF Init, ClaimsKept
<1>2. IInv /\ C /\ [Next]_vars => C'
  <2> SUFFICES ASSUME IInv, C, [Next]_vars, Never({"crash"})'
               PROVE  ClaimsKept'
    OBVIOUS
  <2>1. {"crash"} \in SUBSET Faults
    BY DEF Faults
  <2>2. Never({"crash"})
    BY ONLY <2>1, IInv, [Next]_vars, Never({"crash"})', NeverOnce DEF IInv
  <2> QED
    BY <2>2, ClaimsKeptStep, Budget["uncaught"] = 0 DEF IInv
<1>3. C => NoStrandedClaim
  BY DEF ClaimsKept, NoStrandedClaim
<1> QED
  BY <1>1, <1>2, <1>3, Invariance, PTL DEF Spec

-----------------------------------------------------------------------------
(* The checkout implements SaleLifecycle.                                     *)

(* What a step changes of the abstract state. *)
LEMMA HiddenStep ==
    ASSUME UNCHANGED <<order, status, tickets, pay>>
    PROVE  UNCHANGED Lifecycle!vars
BY DEF Lifecycle!vars, FinalAnswer

LEMMA MoveStep ==
    ASSUME NEW s \in Sales, NEW to,
           status' = [status EXCEPT ![s] = to],
           UNCHANGED <<order, tickets, pay>>
    PROVE  Lifecycle!Move(s, status[s], to)
BY DEF Lifecycle!Move, FinalAnswer

LEMMA SettleStep ==
    ASSUME NEW s \in Sales, NEW to \in {"paid", "mismatch", "declined"},
           pay[s] = "open", pay' = [pay EXCEPT ![s] = to],
           UNCHANGED <<order, status, tickets>>
    PROVE  Lifecycle!Settle(s)
BY DEF Lifecycle!Settle, FinalAnswer

LEMMA OpenStep ==
    ASSUME NEW s \in Sales, pay[s] = "none", status[s] = "PENDING",
           pay' = [pay EXCEPT ![s] = "open"],
           UNCHANGED <<order, status, tickets>>
    PROVE  Lifecycle!Settle(s)
BY DEF Lifecycle!Settle, FinalAnswer

(* Failing a sale that has failed changes nothing. *)
LEMMA SameStatus ==
    ASSUME TypeOK, NEW s \in Sales, NEW to, status[s] = to,
           status' = [status EXCEPT ![s] = to]
    PROVE  status' = status
BY DEF TypeOK

(* Every step of the checkout is a step of the life of a sale, or none.       *)
LEMMA LifecycleStep ==
    ASSUME IInv, Kept, [Next]_vars
    PROVE  [Lifecycle!Next]_(Lifecycle!vars)
<1> DEFINE Goal == Lifecycle!Next \/ UNCHANGED Lifecycle!vars
<1> USE DEF saleVars, stockVars, provVars
<1>0. JobsTyped /\ TypeOK /\ OneCreator /\ OneFulfiller /\ PaidFor /\ Typed
      /\ CreatorAlone /\ Referenced /\ FailsForCause
  BY DEF IInv, Kept, Typed, TypeOK, JobsTyped
<1>1. ASSUME NEW s \in Sales,
             \/ Lifecycle!Create(s) \/ Lifecycle!Fail(s)
             \/ Lifecycle!Complete(s) \/ Lifecycle!GiveBack(s)
             \/ Lifecycle!Overturn(s) \/ Lifecycle!Settle(s)
             \/ \E t \in Tiers : Lifecycle!Deliver(s, t)
      PROVE  Goal
  BY <1>1 DEF Lifecycle!Next
<1>2. ASSUME UNCHANGED <<order, status, tickets, pay>> PROVE Goal
  BY <1>2, HiddenStep
<1> HIDE DEF Goal
<1>3. ASSUME NEW w \in Workers, SaveCheckout(w) PROVE Goal
  <2>1. job[w].sale \in Sales /\ status[job[w].sale] = "none"
    BY <1>0, <1>3, BusyOnSale DEF SaveCheckout, At, OneCreator
  <2>2. Lifecycle!Move(job[w].sale, status[job[w].sale], "PENDING")
    BY <1>3, <2>1, MoveStep DEF SaveCheckout
  <2> QED
    BY <1>1, <2>1, <2>2 DEF Lifecycle!Create
<1>4. ASSUME NEW w \in Workers, At(w, "request")
      PROVE  /\ job[w].sale \in Sales /\ status[job[w].sale] = "PENDING"
             /\ pay[job[w].sale] = "none"
  <2>1. job[w].sale \in Sales
    BY <1>0, <1>4, BusyOnSale DEF At
  <2>2. /\ status[job[w].sale] \in {"none", "PENDING"}
        /\ pay[job[w].sale] = "none"
    BY <1>0, <1>4, <2>1, CreatorKnows DEF Creating, At
  <2> QED
    BY <1>0, <1>4, <2>1, <2>2 DEF OneCreator, At
<1>5. ASSUME NEW w \in Workers, NEW r \in Rails,
             OpenPayment(w, r) \/ RequestLost(w)
      PROVE  Goal
  <2>1. At(w, "request")
    BY <1>5 DEF OpenPayment, RequestLost
  <2>2. /\ pay' = [pay EXCEPT ![job[w].sale] = "open"]
        /\ UNCHANGED <<order, status, tickets>>
    BY <1>5 DEF OpenPayment, RequestLost
  <2>3. Lifecycle!Settle(job[w].sale)
    BY ONLY <1>4, <2>1, <2>2, OpenStep, w \in Workers
  <2> QED
    BY <1>1, <1>4, <2>1, <2>3
<1>6. ASSUME NEW s \in Sales, status[s] = "PENDING",
             status' = [status EXCEPT ![s] = "FAILED"],
             UNCHANGED <<order, tickets, pay>>
      PROVE  Goal
  <2>1. Lifecycle!Move(s, "PENDING", "FAILED")
    BY ONLY <1>6, MoveStep
  <2> QED
    BY <1>1, <2>1 DEF Lifecycle!Fail
<1>7. ASSUME NEW w \in Workers, PrepareFails(w) PROVE Goal
  <2>1. /\ job[w].pc \in {"adjusting", "request"} /\ job[w].sale \in Sales
        /\ Creating(w, job[w].sale)
    BY <1>0, <1>7, BusyOnSale DEF PrepareFails, Creating, At
  <2>2. status[job[w].sale] \in {"none", "PENDING"}
    BY <1>0, <2>1, CreatorKnows DEF At
  <2>3. status[job[w].sale] = "PENDING"
    BY <1>0, <2>1, <2>2 DEF OneCreator, At
  <2> QED
    BY <1>6, <1>7, <2>1, <2>3 DEF PrepareFails
<1>8. ASSUME NEW w \in Workers, Claim(w) PROVE Goal
  <2>1. At(w, "claim") /\ job[w].sale \in Sales
    BY <1>0, <1>8, BusyOnSale DEF Claim, At
  <2>2. CASE Claimable(job[w].sale)
    <3>1. Lifecycle!Move(job[w].sale, status[job[w].sale], "COMPLETED")
      BY <1>8, <2>1, <2>2, MoveStep DEF Claim
    <3>2. pay[job[w].sale] = "paid" /\ status[job[w].sale] = "PENDING"
      BY <1>0, <2>1, <2>2 DEF PaidFor, Claimable
    <3> QED
      BY <1>1, <2>1, <3>1, <3>2 DEF Lifecycle!Complete
  <2>3. CASE ~Claimable(job[w].sale)
    BY <1>2, <1>8, <2>3 DEF Claim
  <2> QED
    BY <2>2, <2>3
<1>9. ASSUME NEW w \in Workers, NEW t \in Tiers, Mint(w, t) PROVE Goal
  <2>1. At(w, "mint") /\ job[w].sale \in Sales
    BY <1>0, <1>9, BusyOnSale DEF Mint, At
  <2>2. Fulfilling(w, job[w].sale)
    BY <2>1 DEF Fulfilling, At
  <2>3. status[job[w].sale] \in {"COMPLETED", "FAILED"}
    BY <1>0, <2>1, <2>2 DEF OneFulfiller, TypeOK
  <2>4. FinalAnswer(job[w].sale) => status[job[w].sale] = "COMPLETED"
    BY <1>0, <2>1, <2>2 DEF FailsForCause
  <2>5. tickets[job[w].sale][t] < order[job[w].sale].cart[t]
    BY <1>0, <1>9, <2>1 DEF Mint, OneFulfiller
  <2>6. /\ tickets' = [tickets EXCEPT ![job[w].sale][t] = @ + 1]
        /\ UNCHANGED <<order, status, pay>>
    BY <1>9 DEF Mint
  <2>7. Lifecycle!Deliver(job[w].sale, t)
    BY <2>1, <2>3, <2>4, <2>5, <2>6 DEF Lifecycle!Deliver, FinalAnswer
  <2> QED
    BY <1>1, <2>1, <2>7
<1>10. ASSUME NEW w \in Workers, Unclaim(w) PROVE Goal
  <2>1. /\ At(w, "unclaim") /\ job[w].sale \in Sales
        /\ tickets[job[w].sale] = Nothing
    BY <1>0, <1>10, BusyOnSale DEF Unclaim, At, OneFulfiller
  <2>2. CASE status[job[w].sale] = "COMPLETED" /\ ~linked[job[w].sale]
    <3>1. Lifecycle!Move(job[w].sale, status[job[w].sale], "PENDING")
      BY <1>10, <2>1, <2>2, MoveStep DEF Unclaim
    <3> QED
      BY <1>1, <2>1, <2>2, <3>1 DEF Lifecycle!GiveBack, Lifecycle!Nothing,
         Nothing
  <2>3. CASE ~(status[job[w].sale] = "COMPLETED" /\ ~linked[job[w].sale])
    BY <1>2, <1>10, <2>3 DEF Unclaim
  <2> QED
    BY <2>2, <2>3
<1>11. ASSUME NEW w \in Workers, FailSale(w) PROVE Goal
  <2>1. At(w, "fail") /\ job[w].sale \in Sales
    BY <1>0, <1>11, BusyOnSale DEF FailSale, At
  <2>2. /\ status' = [status EXCEPT ![job[w].sale] = "FAILED"]
        /\ UNCHANGED <<order, tickets, pay>>
    BY <1>11 DEF FailSale
  <2>3. status[job[w].sale] \in {"PENDING", "COMPLETED", "FAILED"}
    BY <1>0, <2>1 DEF TypeOK, OneCreator, At
  <2>4. CASE status[job[w].sale] = "PENDING"
    BY <1>6, <2>1, <2>2, <2>4
  <2>5. CASE status[job[w].sale] = "COMPLETED"
    <3>1. ~FinalAnswer(job[w].sale)
      BY <1>0, <2>1, <2>5 DEF FailsForCause, Failing, Referenced, Refused, At
    <3>2. Lifecycle!Move(job[w].sale, "COMPLETED", "FAILED")
      BY ONLY <2>1, <2>2, <2>5, MoveStep
    <3> QED
      BY <1>1, <2>1, <3>1, <3>2 DEF Lifecycle!Overturn
  <2>6. CASE status[job[w].sale] = "FAILED"
    BY <1>0, <1>2, <2>1, <2>2, <2>6, SameStatus
  <2> QED
    BY <2>3, <2>4, <2>5, <2>6
<1>12. ASSUME NEW w \in Workers, AbandonSale(w) \/ ExpireSale(w) PROVE Goal
  <2>1. job[w].sale \in Sales
    BY <1>0, <1>12, BusyOnSale DEF AbandonSale, ExpireSale, At
  <2>2. /\ \/ UNCHANGED status
           \/ /\ status[job[w].sale] = "PENDING"
              /\ status' = [status EXCEPT ![job[w].sale] = "FAILED"]
        /\ UNCHANGED <<order, tickets, pay>>
    BY <1>12 DEF AbandonSale, ExpireSale
  <2> QED
    BY <1>2, <1>6, <2>1, <2>2
<1>13. ASSUME NEW s \in Sales, BuyerPays(s) \/ ProviderDeclines(s) PROVE Goal
  <2>1. /\ \/ UNCHANGED pay
           \/ /\ pay[s] = "open"
              /\ \E to \in {"paid", "mismatch", "declined"} :
                    pay' = [pay EXCEPT ![s] = to]
        /\ UNCHANGED <<order, status, tickets>>
    BY <1>13 DEF BuyerPays, ProviderDeclines
  <2>2. UNCHANGED pay \/ Lifecycle!Settle(s)
    BY ONLY <2>1, SettleStep, s \in Sales
  <2> QED
    BY <1>1, <1>2, <2>1, <2>2
<1>14. ASSUME NEW w \in Workers, Checkout(w) \/ Adjust(w) \/ Finalize(w)
       PROVE  Goal
  <2>1. ASSUME \/ CreateHold(w) \/ SaveRef(w) \/ Adjust(w)
               \/ Ask(w) \/ FinalizeYeboPay(w)
        PROVE  UNCHANGED <<order, status, tickets, pay>>
    BY <2>1
       DEF CreateHold, SaveRef, Adjust, AdjustRead, AdjustSave, Ask,
           FinalizeYeboPay
  <2> QED
    BY <1>2, <1>3, <1>5, <1>8, <1>14, <2>1
       DEF Checkout, Finalize, RequestMomo, RequestCard, RequestDeltapay,
           RequestYoco, RequestYeboPay, Rails
<1>15. ASSUME NEW w \in Workers, Fulfil(w) \/ Settle(w) PROVE Goal
  <2>1. ASSUME \/ LoadEvent(w) \/ LinkTickets(w) \/ SoldSave(w) \/ SoldDone(w)
               \/ Recount(w) \/ FindHold(w) \/ SaveHold(w)
               \/ \E t \in Tiers : SoldRead(w, t)
        PROVE  UNCHANGED <<order, status, tickets, pay>>
    BY <2>1
       DEF LoadEvent, LinkTickets, SoldSave, SoldDone, Recount, FindHold,
           SaveHold, SoldRead
  <2> QED
    BY <1>2, <1>9, <1>10, <1>11, <1>12, <1>15, <2>1 DEF Fulfil, Settle
<1>16. ASSUME NEW w \in Workers, Fault(w) PROVE Goal
  <2>1. ASSUME \/ RequestRefused(w) \/ FulfilFails(w) \/ FinalizeThrows(w)
               \/ SettleFails(w) \/ GiveUp(w)
        PROVE  UNCHANGED <<order, status, tickets, pay>>
    BY <2>1
       DEF RequestRefused, FulfilFails, FinalizeThrows, SettleFails, GiveUp
  <2> QED
    BY <1>2, <1>5, <1>7, <1>16, <2>1 DEF Fault, Rails
<1>17. ASSUME NEW w \in Workers, NEW s \in Sales, Timer(w, s) \/ Request(w, s)
       PROVE  Goal
  <2>1. UNCHANGED <<order, status, tickets, pay>>
    BY <1>17
       DEF Timer, SweepExpired, ReconcileMomo, FinalizeCard, FinalizeDeltapay,
           ReconcileYeboPay, StartAsking, Request, ResolveCart, FinalizeMomo,
           ReturnYeboPay, FinalizeYoco, WebhookYeboPay, HearYeboPay
  <2> QED
    BY <1>2, <2>1
<1>18. ASSUME \/ Crash \/ UNCHANGED vars \/ \E s \in Sales : Lapse(s)
       PROVE  Goal
  <2>1. UNCHANGED <<order, status, tickets, pay>>
    BY <1>18 DEF Crash, vars, Lapse
  <2> QED
    BY <1>2, <2>1
<1>19. Goal
  BY <1>13, <1>14, <1>15, <1>16, <1>17, <1>18 DEF Next, Continue, World
<1> QED
  BY <1>19 DEF Goal

LEMMA LifecycleStart == ASSUME Init PROVE Lifecycle!Init
BY OrderTyped, InitIInv
   DEF Init, Lifecycle!Init, Lifecycle!Nothing, Nothing, IInv

(* Whatever the handlers, rails and faults do, a sale lives as SaleLifecycle  *)
(* says: completed only when paid, its tickets delivered one by one within    *)
(* its cart, a completion taken back only before the first, FAILED the end.   *)
THEOREM CheckoutImplementsLifecycle == Spec => LifecycleSpec
<1>1. Init => Lifecycle!Init
  BY LifecycleStart
<1>2. IInv /\ Kept /\ [Next]_vars => [Lifecycle!Next]_(Lifecycle!vars)
  BY LifecycleStep
<1> QED
  BY <1>1, <1>2, PromiseInvariant, PTL DEF Spec, LifecycleSpec, Lifecycle!Spec

(* A sale that delivered tickets stays COMPLETED on every rail with a final   *)
(* answer: no give-back and no stale FAILED takes it away.                    *)
THEOREM DeliveredIsKept == Spec => DeliveredStaysCompleted
<1> DEFINE Stays ==
      \A s \in Sales :
         /\ FinalAnswer(s)
         /\ status[s] = "COMPLETED"
         /\ tickets[s] # Nothing
         => status'[s] = "COMPLETED"
<1>1. IInv /\ [Lifecycle!Next]_(Lifecycle!vars) => [Stays]_vars
  <2> SUFFICES ASSUME IInv, [Lifecycle!Next]_(Lifecycle!vars),
                      NEW s \in Sales, FinalAnswer(s),
                      status[s] = "COMPLETED", tickets[s] # Nothing
               PROVE  status'[s] = "COMPLETED"
    OBVIOUS
  <2>1. status \in [Sales -> {"none", "PENDING", "COMPLETED", "FAILED"}]
    BY DEF IInv, Typed, TypeOK
  <2>2. ASSUME NEW x \in Sales, NEW from, NEW to, Lifecycle!Move(x, from, to),
               x # s \/ from # "COMPLETED"
        PROVE  status'[s] = "COMPLETED"
    BY <2>1, <2>2 DEF Lifecycle!Move
  <2>3. ASSUME NEW x \in Sales, Lifecycle!GiveBack(x)
        PROVE  status'[s] = "COMPLETED"
    BY <2>2, <2>3 DEF Lifecycle!GiveBack, Lifecycle!Nothing, Nothing
  <2>4. ASSUME NEW x \in Sales, Lifecycle!Overturn(x)
        PROVE  status'[s] = "COMPLETED"
    BY <2>2, <2>4 DEF Lifecycle!Overturn
  <2>5. ASSUME NEW x \in Sales, Lifecycle!Create(x) \/ Lifecycle!Fail(x)
               \/ Lifecycle!Complete(x)
        PROVE  status'[s] = "COMPLETED"
    BY <2>2, <2>5 DEF Lifecycle!Create, Lifecycle!Fail, Lifecycle!Complete
  <2>6. ASSUME NEW x \in Sales,
               \/ Lifecycle!Settle(x)
               \/ \E t \in Tiers : Lifecycle!Deliver(x, t)
        PROVE  status'[s] = "COMPLETED"
    BY <2>6 DEF Lifecycle!Settle, Lifecycle!Deliver
  <2> QED
    BY <2>3, <2>4, <2>5, <2>6 DEF Lifecycle!Next, Lifecycle!vars
<1>2. IInv /\ Kept /\ [Next]_vars => [Stays]_vars
  BY ONLY <1>1, LifecycleStep
<1> QED
  BY <1>2, PromiseInvariant, PTL DEF Spec, DeliveredStaysCompleted
=============================================================================
