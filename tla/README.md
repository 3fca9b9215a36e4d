# Carrot Tickets API: specifications and proofs

TLA+ models of the Carrot Tickets API (`src/`, a TypeScript Express/Mongoose
service), TLC runs on small instances, and theorems that TLAPS proves for every
value of the constants.  `PROJECT.json` maps each definition to the source lines
it stands for and lists the runs, mutants, findings, hazards and theorems.

## 1. The system

One Node.js process (several replicas in production) over MongoDB.  Every HTTP
request, provider callback, socket message and iteration of a timer is an
asynchronous handler: between two `await`s another handler may run.  Most writes
are single-document saves; only the cashless money paths, stock and a few
decisions use transactions.  Mongoose saves a document *read earlier*, so a
handler may write back a value another handler has changed since.

| Part | State | Operations | What is hard | What makes it correct |
|---|---|---|---|---|
| Ticket checkout (`ticket`, `cart`, `reservation` services) | `TicketSale`, `TicketReservation`, `Event.ticketTypes[].reserved/sold`, `Ticket` | resolveCart, prepareCheckout, initiate*, finalize*, reconcile*, fulfilClaimedSale, sweepExpired | poll, callback, return page and reconciler race; late payments; lost answers; read-modify-write counters; half-done fulfilments | minted once, only when paid; FAILED is final; a debited buyer gets a ticket; counters agree with holds and tickets; no oversell |
| Direct sales, refunds, wristbands (`ticket.service`) | the same | sellTickets, claimFreeTicket, issueWristbandBatch, refundTicket | the same counters, beside running checkouts | sold = minted - refunded |
| Coupons (`eventCoupon.service`) | coupon, its redemptions | create, price, saveCheckout | two checkouts of a single-use coupon; an unlock while a payment may still arrive | one redemption per use; locked while collectable |
| Events (`event.service`) | `Event` | create, update, publish, withdraw, cancel, ticket types | edits of the event document beside counter saves | legal status moves; a tier with seats taken is not removed |
| Gate (`scan.service`) | `Ticket.status`, `TicketScan` | check in, out, bulk | two gates scan one ticket | one admission per ticket |
| Cashless desks (`wallet`, `ledger`, `cashDesk`, `cashier` controller) | `Wallet`, `LedgerEntry`, `WalletTopup`, `WalletWithdrawal`, `CashDeskLock` | topUpAtDesk, withdrawCash, recordWithdrawal, post | a retry that overlaps its original at another desk; one id for two different requests; a split of the balance no validator guards | balance = -sum of its journal legs; cashFunded <= balance; one row per clientTxnId; no false answer |
| Bands (`wallet`, `eventTag`) | `Wallet.bandUid`, `BandBinding`, `EventTag` | register, bind, unbind, reissue, retire | two writes and a compensation; a retire racing a bind | a band is on one wallet; a retired band on none; one open row in the trail per bound band |
| Merchants (`merchant`, `merchantReversal`, `venuePayment`) | `MerchantCharge` | charge, replay, reverse | a double tap that empties the wallet; a reversal racing a cash-out | idempotent; never declined for its own success; reversed at most once |
| Tag withdrawals (`tagWithdrawal`) | `TagWithdrawalRequest`, `Wallet.status` | request, take on, pay, reject | desks that resolved the wallet before it froze; two members of staff | reserved money does not move; paid once or released whole |
| Cash collections (`cashCollection`) | `CashCollection` | create, confirm, reject, cancel | the check at creation is stale at confirmation | never more than the cashier holds; the float is the cash in the drawers |
| Stock and tables (`stock*`, `table`, `venueTable`, `menuOrder`) | `ProductStock`, counts, transfers, `Table` | sell, count, transfer, settle, void | a charge and a count at once | stock conserved; a tab is settled once |
| Settlements and payouts (`settlement`, `eventPayout`, `withdrawal`) | payouts, requests | request, approve, decline, pay | balance changes between request and decision | one open payout per event; never above the balance |
| Guarantees (`guarantee`, `marketplace`) | participation and payment state | request, accept, reject, withdraw, pay | concurrent decisions | the state machines of GUARANTEES.md |
| Transport (`transport/*`) | `Trip`, `Seat`, `Booking` | hold, book, board, cancel | two buyers of one seat; an expired hold that is paid | a seat has one booking |
| Share and earn | referral, points, rewards | track, award, reverse | repeated award, refund races | one reward per sale and milestone, taken back with the sale |
| Accounts (`ticketsAuth`, `buyerAuth`, `otp`, `pinLockout`) | users, tokens, attempts | login, refresh, links, new password, sign-out, lock-out | reuse of a token, a change while a sign-in is in flight, parallel guesses | an accepted session was proven since the last change; a code changes an account at most once; bounded attempts |
| Content and social, messages, plans, reports, notifications, media | documents | CRUD, queries, sockets | little shared state | |

The parts meet at the sale (checkout -> tickets -> gate, wallet, share and earn),
at the event document (counters and organizer edits) and at the ledger (wallets,
merchants, payouts).

## 2. Plan

1. **Checkout** (done): `TicketCheckout` with its abstract specification
   `SaleLifecycle`, the counters `TicketCounters`, and `TicketCheckout_proofs`.
2. **Cashless** (done): `CashlessWallet` (wallets, journal, top-ups, cash-outs,
   charges, reversals, stock, withdrawal requests, collections), its books
   `CashlessBooks`, the abstract `Purse`, two modules of proofs and `SumTheorems`
   for the sums.
3. **Bands** (done): `BandRegister`, proved in `OnSite_proofs`.
4. **Places and money of the trips, the tables and the till** (done):
   `TripBookings` with `TripBookings_proofs`, `VenueTables`, `EventTabs`, and
   `BoxOffice` for direct sales, batches, refunds and the gate, proved in
   `OnSite_proofs`.
5. **Money out and decisions** (done): `EventPayouts`, `CommissionPayouts`,
   `ReferralRewards`, `StallMarket`, `Guarantees` with its abstract
   `GuaranteeLife`, `OneTimeCodes`; proved in `OffSite_proofs`.
6. **Orders ahead and sessions** (done): `MenuOrders`, proved in `OnSite_proofs`;
   `Sessions`, proved in `OffSite_proofs`.
7. **Next**: coupons' redemption count, publication and cancellation of events,
   PIN lock-outs, counts and transfers of stock.  Runs that state what the code
   does not keep, as section 6 does, of a retired tag that is worn, a trip that is
   swept while its payment is asked for, a second live code, a kitchen save over a
   collected order and a password saved over a newer one.
8. **Proofs** (done): every safety and action property of the passing runs, the
   three refinements and the composition (section 5).  Left: the same for the
   components of item 7.

## 3. Modules

### TicketCheckout

A *Worker* is one asynchronous handler in flight.  `job[w]` is its program
counter, its sale, what it is undoing a hold for (`goal`), the lines left
(`todo`), the counter it has read (`tier`, `seen`) and the tickets it has minted
(`made`).  Every step is one database or provider call; a value a handler
remembers across an `await` and writes back is in its job, so lost updates and
stale saves are in the model.

| Code | Model |
|---|---|
| `TicketSale.paymentStatus`, provider reference, `ticketIds` | `status`, `ref`, `linked` |
| `TicketReservation.status`, `expiresAt` in the past | `hold`, `lapsed` |
| `ticketTypes[t].reserved`, `.sold` | `reserved`, `sold` |
| `Ticket` documents of a sale | `tickets[s][t]` |
| the payment at MTN, Peach, DeltaPay, Yoco, YeboPay (external) | `pay`, `events` |
| `resolveCart`, `prepareCheckout`, `ReservationService.reserve` | `ResolveCart`, `SaveCheckout`, `AdjustRead`/`AdjustSave`, `CreateHold`, `PrepareFails` |
| `initiate*Purchase`, `failCheckoutInitiation` | `RequestMomo` ... `RequestYeboPay`, `SaveRef`, `RequestRefused`, `RequestLost` |
| `finalize*Sale` up to the claim | `FinalizeMomo`, `FinalizeCard`, `FinalizeDeltapay`, `Ask`, `FinalizeYoco`, `WebhookYeboPay`, `ReturnYeboPay`, `FinalizeYeboPay`, `Claim` |
| `fulfilClaimedSale`, `mintSettledSaleTickets`, `updateTicketsSold` | `LoadEvent`, `Mint`, `LinkTickets`, `SoldRead`/`SoldSave`/`SoldDone`, `FulfilFails`, `Recount`, `Unclaim`, `FinalizeThrows` |
| `ReservationService.confirm`, `release`, `sweepExpired` | `FindHold`, `AdjustRead`/`AdjustSave`, `SaveHold`, `SettleFails`, `SweepExpired`, `ExpireSale` |
| `startBackgroundTasks` | `Timer`, and the strong fairness of `FairSpec` |

Abstractions: amounts and currencies are "what was asked" or "something else"
(`mismatch`); identities, prices, fees, coupons' arithmetic, notifications and
logging are left out; a coupon is a Boolean of the order; `available` is derived.
A hold's TTL is an event that may happen at any time once the handler that
created it is done (5 to 15 minutes against seconds).  `Budget` bounds the faults
of each kind: a write error where the code catches it, an error outside the try
block of the fulfilment, a lost provider answer, a payment older than
`maxPendingMs`, a crash of the process.

### SaleLifecycle and TicketCounters

`SaleLifecycle` is what the checkout promises of a sale without holds, handlers
or faults; `LifecycleSpec` in `TicketCheckout` is its refinement mapping
(`cart`, and `final`, the rails whose provider answers once).  `TicketCounters`
states what the counters owe the holds and the tickets (`HoldsCovered`,
`NoOversell`): two writers lose an update of `reserved` or `sold`, a late payment
mints without a hold, and the code bounds neither, so these two are checked by
runs that violate them only.

### CashlessWallet

One cashless event, its wallets and one stall.  A *Desk* is one request in
flight: `task[d]` is what it asks for and how far it is ("asked", "checked"
after the look for a row with its clientTxnId, "raced" after the unique index
refused its row), `answer[d]` what it was told.  The client may send one id any
number of times, in parallel, with other contents, and may lose any answer
(`Abandon`).

| Code | Model |
|---|---|
| `Wallet.balance`, `cashFundedBalance`, `bandUid`, `status` | `wallet[w]` |
| sum of `LedgerEntry.delta` per account and float tag | `journal` |
| `WalletTopup`, `WalletWithdrawal`, `MerchantCharge` documents | `topups`, `withdrawals`, `sale` |
| `ProductStock.onHand`, movements that are not sales | `onHand`, `delivered` |
| `TagWithdrawalRequest`, `CashCollection` documents | `payout`, `collection` |
| `topUpAtDesk` | `AskTopUp`, `PreCheck`, `CommitTopUp`, `ReadWinner` |
| `withdrawCash`, `recordWithdrawal`, office refund | `AskCashOut`, `PreCheck`, `CommitCashOut`, `Withdraw`, `ReadWinner` |
| `MerchantService.charge`, `replay` | `AskCharge`, `PreCheck`, `CommitCharge`, `ReplaySale` |
| `MerchantReversalService.reverse` | `Reverse` |
| `StockService.applyMovement` | inside `Sold`, `Reverse`; `MoveStock` |
| `bindBand`, `unbindBand` (the wallet's side) | `ClaimBand`, `ReleaseBand` |
| `TagWithdrawalService.request`, `transition` | `RequestPayout`, `TakeOn`, `PayOut`, `RejectPayout` |
| `CashCollectionService.create`, `resolve`; `CashDeskService.totals` | `AskCollection`, `FileCollection`, `Confirm`, `CallOff`; `CashOnHand` |

Assumptions.  A `withTransaction` is one step: each transaction writes the
wallet it decides on, or the cashier's lock row (`CashDeskService.touch`), so two
of them conflict and the driver repeats the loser on what the winner committed.
Every other database call of a request that matters is a step of its own.
`CashDeskService.totals` outside a transaction is read at once.  One stall sells
one counted product at a fixed price; bundles and several lines price to a sum,
and the stall's commission and the event's surcharge are constants.  Wallets
exist from the start; their creation, the register of tags and the binding trail
are in `BandRegister`.  A transaction that fails for a reason of its own (a write error) is
an `Abandon`: it leaves nothing behind.

### CashlessBooks and Purse

`CashlessBooks` states what the documents must say of each other.  `Purse` is
what the desks promise the holder, without requests, retries, bands or the
journal; `PurseSpec` is its refinement mapping: loads are top-up rows, slips out
are withdrawal rows, a sale shows its payer, its sum and whether it was undone.

### TripBookings

One trip, sold by seat map (`seat`) or by count (`sold`, `aside`).  A booking is
one sale request and its rows: `step[b]` is where the request stands, `job[f]`
where a finalizer stands that found the sale PENDING.

| Code | Model |
|---|---|
| `Trip.soldCount`, `reservedCount`, `Seat` rows | `sold`, `aside`, `seat` |
| booking and sale rows, the hold's expiry | `booking`, `sale`, `lapsed` |
| `claimCapacity`, `releaseBookingClaim` | `ClaimCapacity`, `ReleaseClaim` |
| `sellSeat`, `initiateMomoBooking`, `initiateCardBooking` | `LoadTrip`, `ClaimSeat`, `Recheck`, `SaveRows`; then `StartCharge`, `Charge`, `SavePaid` at the counter, `ProviderAccepts` or `ProviderFails` later, with their failures |
| `finalizeMomoBooking`, `finalizeCardBooking`, `failBookingSale` | `StartFinalize`, `CompleteSale`, `FailSale`, `ConfirmBooking`, `CancelBooking`, `ReleaseSeat`, `CrashFinalizer` |
| `sweepExpiredBookings` | `Sweep`, once a hold has lapsed (`Lapse`) |
| `reserveSeat`, `releaseSeat`, `setReservedCount`, `board` | `ReserveSeat`, `FreeReserved`, `ReadSold` and `SetReservedCount`, `BoardBus` |
| the payer and the provider; an operator who closes the trip (external) | `ProviderSettles`; `CloseTrip` |

`SlowProvider = FALSE` assumes that the request to the provider (seconds) ends
before the hold of its sale (minutes).  With `TRUE` the sweep and the failing
request both release the place, and `PlacesAddUp` is broken: it joins
`ConfirmedHasSeat`, of a trip with a seat map, and `SoldCountExact`, of one that
counts its places.

### StallMarket

One stall opportunity.  Each handler is a snapshot transaction: `txn[h]` is what
it will write, decided from what it read when it began, and a commit to a
document it writes (`Writes`) makes it start over.  What a handler reads and does
not write is *not* protected; that is why an application and a review touch the
opportunity (`opportunity.revision`) and a certificate is written when it is
quoted.  `opp`, `app` and `cert` are the documents.  `BeginApply`/`CommitApply`,
`BeginReview`, `BeginPayment`/`CommitReview`, `BeginEdit`/`CommitEdit`,
`SetStatus`, `UploadCertificate`, `RemoveCertificate` are the routes.  Terms are
opaque; identities, messages and documents are left out.

### Guarantees and GuaranteeLife

One request.  Each route loads the document (`saving[h]`), works, and saves under
the version it loaded (`optimisticConcurrency`): `OthersFail` makes every other
handler that has loaded it fail.  `GuaranteeLife` is the life the platform
promises, one answer and reviews up to a final one.

### BandRegister

A job of a desk is a sequence of single-document writes (`desk[k].at`), any of
which may fail (`failures`, `MaxFailures`): register, retire, bind, unbind,
reissue with the restoring of the old tag, the wallets made for tickets and on a
tap, and the freeze of a wallet.  Jobs of two desks on one wallet interleave at
every write; `MaxJobs` bounds how many ever start.  Two histories name where the
trail may lie.  `gaps` are the wallets for which the code logs that a write of the
trail failed and nothing repeats it.  `crossed` are those released or claimed while
another job still owed them the second of its writes (`Owed`): the undo of one desk
may then close the row that the other opened.  The properties speak of the other
wallets, at every moment at which no write is owed to them.

### EventPayouts and CommissionPayouts

`EventPayouts`: sale rows of one event (`earned`: who holds the money, what was
refunded, whether the reseller has remitted it), the settlement of a reseller,
the payout of a period, the requests, and the transactions in flight (`office`).
The balance is recomputed from the rows (`AvailableBalance`), at the request and
at each decision.  The partial unique index is the guard `OneActive` of the commit of a
request; two decisions on one request conflict, and the first commit makes the
other abort.  `RequestsPaidOnce` is about the requests: what the older payout of a
period sends is an amount of its own, reckoned without a look at the requests
already paid, so the same sales may be sent twice and no property sums the two.
The other way round the code does look (`LegacyCovered`): once a period's payout
covers the event, no request is paid but one whose transaction had begun before,
which `inHand` remembers.

`CommissionPayouts`: the stamp on each sale, the requests and the handler at
each clerk, which may die between the stamp and the flip and be run again.  Any
number of handlers overlap.  `covers` and `paidBefore` remember what a request was
reckoned from and which requests were paid by then: a request never asks again for
the commission of one that was paid before it was reckoned
(`PaidCommissionIsStamped`).  Two requests that were open together may ask for the
same commission, since the look for an open one, the sum and the creation are three
calls and no index refuses the second row: `OneOpenRequest`, which the code's
comment promises, is violated (`commission_twice`).

### VenueTables and EventTabs

A venue table is paid by any number of payments (`payments`) against a running
bill; each payment reads the bill (`till[t]`) and commits a transaction later that
checks revision and paid total.  An event table is settled at once with a tag:
`reader[h]` is a settlement between its reads and its transaction, `answered` who
was told "paid", `elsewhere` what the wallets spent at other tills meanwhile.
Prices of the lines of a venue are 1; of a tab, two units of a stall cost one
(`BundlePrice`).  The order of the stalls' charges inside a transaction is left
out.

### BoxOffice

One tier: tickets, their sales, the `sold` counter, and the handlers that sell,
issue a batch, refund and admit (`counterJob`).  Refund and admission are
transactions that conflict on the ticket; the counter is read and saved outside
the sale's transaction.  A batch has no transaction: it mints its tickets one by
one (`MintOne`), saves the row of the sale (`SaveRow`), puts the sale on the
tickets (`LinkSale`) and counts them, and may die between any two.  Sellers of the
tier overlap, and one may save the event over the other's count.  The live tickets
therefore pass the places by those of batches that died (`lost`) and of sales made
beside another (`crowd`), and by no others.

### MenuOrders

Food and drink ordered ahead.  `menuOrder[o]` is the row (its payment, whether its
MoMo reference is stored, its state in the kitchen), `checkout[o]` where the
request that places it stands, `payer[o]` the payment at the provider, `served[o]`
how often it was handed out and `menuJob[d]` a request between its read and its
write.

| Code | Model |
|---|---|
| `createKeshlessOrder` | `ChargeCard`, `SaveCardOrder` |
| `initiateMomoOrder` | `SaveMomoOrder`, `RequestPayment`, `SaveReference`, `FailCheckout`, `CheckoutDies` |
| `finalizeMomoOrder`, by a poll, the callback or `reconcilePendingMomoOrders` | `LoadPending`, `AskProvider`, `ClaimPaid`, `SaveDeclined` |
| `fulfillmentTransitionRefusal` | `MayMove` |
| `updateOrderFulfillment`, the kitchen screen | `LoadForKitchen`, `SaveKitchen` |
| `collectOrder`, the scanner | `LoadForScanner`, `ClaimCollect` |
| the payer at MTN MoMo (external) | `PayerAnswers` |

The scanner's claim looks at the state it read; the screen's save does not, so it
may write over an order that was collected since it was loaded.  `overwritten`
counts those saves of an order (`MaxOverwrites` bounds them), and `HandedOutOnce`
allows one more handing out for each and none besides.  A checkout that dies, or loses the provider's answer, may leave
a paid order FAILED or without a row; the property excepts it, as the code never
gives such a payment back.

### Sessions

Who may still act for an account: an organizer, sub-users and buyers.
`version[a]` is `authVersion`, `sessions` the pairs of tokens in the order they
were stored, `links` the one-time links to the public site, `authJob[h]` a request
between two database calls.  Each token carries the version it was made with
(`claims`) and is accepted while that is the account's (`Accepted`, which is
`validateSession`).  `changes` and the `proven` of the claims are history: how many
new passwords and sign-outs there were, and how many when the holder last proved
the account.

| Code | Model |
|---|---|
| `login` of organizers, sub-users and buyers | `LoadLogin`, `Issue` |
| `changePassword` | `LoadChange`, `SavePassword` |
| `resetPassword` of organizers and buyers, the hook that raises `authVersion` | `LoadReset`, `SavePassword`, `RevokeAll`, `Issue` |
| `refreshAccessToken`, one transaction | `BeginRenew`, `CommitRenew` |
| `logout`, `revokeRefreshToken` | `BeginLogout`, `RaiseVersion` or `RevokeToken` |
| `mintSocialHandoff`, `exchangeSocialHandoff` | `MintLink`; `BeginExchange`, `SpendLink`, `CheckLink`, `Issue` |

A sign-in that read the account before a change stores its tokens after it: they
carry the old version and are never accepted.  The save of a new password writes
the version it read plus one, whatever the account's version is by then: two
changes may raise it once, and a session opened between them outlives the second,
though its holder may know only the older password.  `overtaken` are the accounts
that happened to, and the property speaks of the others; that a token or a link
opens one session it says of all.  Expiry of tokens, deactivation of
accounts, permissions and rate limits are left out; a code or password that does
not match is `AuthFails`.

### OneTimeCodes

The codes of one destination in the order of their creation (`codes`), the
account changes made with each (`ran`) and the requests (`otpJob`).  A proof finds
the newest live code, reserves a guess and then claims the code and changes the
account in one transaction.  `SlowIssue = FALSE` assumes that the two writes that
issue a code end within the cooldown of the resend quota; with `TRUE` two requests
leave two live codes.

### ReferralRewards

The sales of one promoter: `referral`, `reward`, the points ledger, the promoter's
counters and the handlers at work, each with the promoter document as it loaded it
(`reviewer[v].seen`).  Any write may fail, and the handler then ends; any number of
handlers of the promoter overlap, `MaxReviews` of them in a behaviour.  A promoter
whose buyer is gone has the sale counted and earns nothing, a campaign whose budget
is spent issues nothing and goes on to the milestone (`BudgetSpent`; whether it is
spent is a choice): `unrewarded` are those referrals.  `loose` are the referrals
with a handler that did not finish, or undone while another handler was at work on
them: a refund between the confirmation and its reward finds nothing to take back.
`RewardsFollowSales` says of all that nothing is banked twice, and of the referrals
at rest that are not loose that they have their point while they are confirmed and
only then, but for the unrewarded.

### MCBackOffice

Twelve of these components share no state, so one run takes them all: a behaviour
draws a `scene` and takes that component's steps while the others rest.  The
reachable states are those of each component alone, added up, and every property
is conditional on its scene or holds trivially at rest.  `PayoutsAddUp` joins the
promises of the two kinds of payout (`RequestsPaidOnce`,
`PaidCommissionIsStamped`), `BarAddsUp` those of the two kinds of table and of the
menu orders (`BillAddsUp`, `TabPaidOnce`, `HandedOutOnce`, `PaidInFull`).

## 4. Runs

The checkout runs are on `MCTicketCheckout`; `CHECK_DEADLOCK` is off there
because the system stops when every sale is final.  The cashless runs are on
`MCCashless` and check deadlock.

| Run | Instance | Shows |
|---|---|---|
| `checkout_claim` | 1 sale of two tickets, every rail, with and without coupon, 2 handlers, one fault of each kind | no double mint, minted only if paid, FAILED final, a delivered sale stays COMPLETED, a debited MoMo buyer is not failed, a coupon stays locked, `SaleLifecycle` is implemented |
| `checkout_liveness` | 1 sale, 2 tiers, 2 handlers, one write error and one crash, `FairSpec` | lapsed holds are released, debited MoMo sales minted, no claim stranded |
| `oversell_late` (violation) | 2 sales of one seat | a late MoMo payment oversells |
| `hold_half_applied` (violation) | 2 sales, 2 tiers, one error | a release retried from its first line takes seats another hold has |
| `yebopay_return` (violation) | 1 YeboPay sale | the return page fails a sale that can still be paid |
| `claim_stranded` (violation) | 1 sale, one uncaught error | a claim outside the try block is never given back |
| `cashless_desks` | 2 requests in flight, 1 wallet, 1 band, 1 cashier, 1 transaction id, amounts 1 and 3, price 2, 50 % commission, surcharge 1, cash and card | balances, journal, cash part, statement and stock agree; no till is told "declined" for its own sale; "done" means recorded as asked |
| `cashless_office` | 1 request in flight, 2 withdrawal requests, 2 members of staff, 2 collections | reserved money stays, the float is the cash in the drawers, collections are covered when confirmed, `Purse` is implemented |
| `cashout_declined` (violation) | 2 requests in flight, amount 1 | a repeated cash-out is declined for its own success |
| `trips` | 2 bookings, 1 seat or capacity 1, 2 finalizers, 1 crash, `FairTripSpec` | a confirmed passenger has the seat, places are counted exactly, a paid sale keeps its booking, no sale stays PENDING |
| `back_office` | the twelve components of `MCBackOffice`, two or three handlers in flight in each | capacity and terms of an opportunity, trail of the bands, requests paid once and commission stamped, points follow sales, bills and tabs add up, an order is handed out once for its money, each with the exceptions section 3 names, counter and gate agree, a code opens once, an accepted session was proven, an agreement stays with its provider, an application quotes an active certificate, `GuaranteeLife` is implemented, a reissue keeps a tag |
| `commission_twice` (violation) | 1 sale, 2 withdrawals, 2 handlers, `CommissionPayouts` alone | two requests of one reseller are open for the same commission |

Bounds.  Two handlers suffice for the races of the claim: a third only repeats
one of the roles (creator, finalizer, sweeper), and the claim admits one.  Carts
of two tickets let a fulfilment fail between two mints; two tiers let a hold be
half undone.  One fault of each kind allows every pair of different faults.

Two requests with one transaction id are the least that overlap, and as top-ups,
cash-outs and sales have separate indexes they also let every pair of different
operations race on one wallet; a document for each kind and id bounds the sums.
With amounts 1 and 3, price 2 and surcharge 1 a debit can fall below, on and
above the cash part, and the commission is rounded.  `MaxStock` 1 makes a
basket's second sale out of stock.  Properties of two wallets (a band moved
between them) are not in these runs: every property of the books is about one
wallet at a time, and the theorems hold for any number.  Symmetry: desks, staff,
requests and collections are interchangeable; no liveness property is checked
under symmetry.

`trips`: two buyers of one place is the least that contends, and the second one
takes the place the first gives back; two finalizers and a sweep meet on one
sale.  Deadlock is not checked: the trip ends when every sale is final.

`back_office`: in each component two handlers overlap and a third actor changes
what they read. Capacity 1 lets the second approval be one too many,
`MaxRevision` 3 allows a round, a removal and another round between the reads
and the commit of a payment, three tickets against two places let a batch fail
and a sale follow, two referrals reach a milestone of two, `MaxReviews` 3 lets a
refund meet both confirmations, three withdrawals outnumber what two sales earned,
`MaxAttempts` 2 lets parallel guesses pass one limit, `MaxFailures` 1 is one failed
write per job sequence, and `MaxJobs` 3 lets two jobs cross on a wallet and a third
find what they left.  Three desks let a finalizer, a kitchen screen and a scanner
meet on one order, and `MaxOverwrites` 1 is one save over a state that was not seen.
`MaxVersions` 2 is one new password or sign-out after another, or two beside each
other, `MaxSessions` 2 a session and the one it is exchanged for, `MaxLinks` 1 a
link two requests may spend.  The theorems hold for any
number. Deadlock is not checked: a closed opportunity, a paid tab or a final
guarantee stops. The handlers of every scene bear the same two names and are
interchangeable (`HandlerSymmetry`), and a new row takes the first free id; the
run checks no liveness. `trips` uses no symmetry.

Fairness.  A handler in flight continues (`WF` of its next step): Node runs every
resolved promise.  Each timer of `startBackgroundTasks` returns to each sale it
selects (`SF` per timer and sale: a busy worker pool may disable a turn).  The
buyer, the provider's verdict and faults are not fair.

`FairTripSpec` asks that a hold lapses (time passes), that the sweep, a timer of
`startBackgroundTasks`, goes on taking up a booking it can select, and that a
handler in flight continues.  Buyers, operators, providers and crashes are not
fair.

## 5. Theorems

Every invariant and every action property a passing run checks is also a theorem,
for any number of documents, handlers, amounts and faults but for what the
table of assumptions below says.  The three liveness
properties (`LapsedHoldReleased`, `PaidMomoMinted`, `PendingSettles`) are only
model-checked: liveness under fairness and `ENABLED` are beyond the prover.

| Module | What it is about |
|---|---|
| `SumTheorems` | what a fold over a finite set is |
| `TicketCheckout_proofs` | the checkout and its lifecycle |
| `TripBookings_proofs` | the trips |
| `CashlessWallet_proofs`, `CashlessBooks_proofs` | the journal and `Purse`; the sums over documents |
| `OnSite_proofs` | menu orders, the till, the bands, venue tables, event tabs |
| `OffSite_proofs` | one-time codes, sessions, the marketplace, guarantees, payouts, commissions, rewards |
| `BackOffice_proofs` | the twelve components of `MCBackOffice` side by side |

The `...Assumption` of each module says what its constants are.  Where a theorem
needs more, it says so in its `ASSUME`, and section 3 says what in the code
justifies it; section 7 lists the places where the code relies on it.  Everything assumed beyond
the `...Assumption`s:

| Assumption | Theorem |
|---|---|
| `Budget["uncaught"] = 0`: no failing read or write outside the `try` of the fulfilment (`claim_stranded` shows the other case) | `ClaimsAreFulfilled` |
| `~SlowProvider` | `PlacesAlwaysAddUp` |
| `~SlowIssue`: the two writes that issue a code end within the cooldown of the resend quota | `CodeOpensAnAccountOnce`, `BackOfficeTypeCorrect` |

No theorem assumes that two handlers take turns.  Where the code lets an overlap
break a promise, the property names what the overlap spoils (`gaps`, `crossed`,
`lost`, `crowd`, `overwritten`, `overtaken`, `loose`, `unrewarded`) and the theorem
proves the promise for everything else.

No invariant of this section is the property itself.  A handler between a read
and a write would be free to break it, so each inductive invariant adds what a
handler in flight may still do: what it has read is current while a version
stands, or what it is about to write is still due.

### Checkout

`TicketCheckout_proofs`, from `ConstantsAssumption`:

* `TypeCorrect`: `Spec => []TypeOK`;
* `NeverDoubleMints`: `Spec => []NoDoubleMint`;
* `MintsOnlyPaid`: `Spec => []MintedOnlyIfPaid`;
* `FailedStaysFailed`: `Spec => FailedIsFinal`;
* `VoucherStaysLocked`: `Spec => []CouponStaysLocked`;
* `PaidMomoStands`: `Spec => []PaidMomoNotFailed`;
* `ClaimsAreFulfilled`: `Spec => []NoStrandedClaim`, with `Budget["uncaught"] = 0`;
* `CheckoutImplementsLifecycle`: `Spec => LifecycleSpec`, the refinement;
* `DeliveredIsKept`: `Spec => DeliveredStaysCompleted`.

`IInv` adds to the first properties who may be where:

* `Busy`: a handler that is not idle has a sale, and a tier while it holds a
  counter;
* `OneCreator`: one handler creates a sale, and before the document is saved
  nothing else knows it, so `SaveCheckout` never overwrites a status;
* `OneFulfiller`: at most one handler is between a claim and the end of its
  fulfilment, none while the sale is PENDING; it remembers exactly what was
  minted; `Unclaim` only follows a recount of zero;
* `PaidFor`: a claim, a fulfilment, a "success" event or a ticket implies the
  payment is `paid`.

The promises to the buyer need `Kept` as well:

* `CreatorAlone`: no other handler works on a sale until its creator has saved
  the reference or failed it, and its hold cannot have lapsed by then;
* `Referenced`: whoever judges, claims or fulfils a sale does so after the
  reference was saved, and a completed sale was paid;
* `FailsForCause`: with a final answer, a handler on its way to fail a sale
  follows a refusal, or works on a sale with neither a reference nor a coupon.

`MomoKept` and `ClaimsKept` hold while the faults their properties exclude have not
happened: the first follows a MoMo sale from the request to its saved reference,
the second names the handler that still fulfils or gives back an empty claim.  A
step of `SaleLifecycle` is read off `IInv /\ Kept` action by action; most are
stutters.

There is one step lemma per part of an invariant, with one step per action.

### Trips

`TripBookings_proofs`, from `TripAssumption`: `TripTypeCorrect`,
`PaidBookingStays` (`[]PaidKeepsBooking`), `PassengersHaveSeats`
(`[]ConfirmedHasSeat`) and, with `~SlowProvider`, `PlacesAlwaysAddUp`
(`[]PlacesAddUp`).  `TripInv` adds `RowsAgree` (what booking, sale and payment may
say of each other at each write of a request), `JobsAgree` (the same for a
finalizer), `OneCanceller` (one finalizer gives a place back) and `InTime` (no hold
runs out while the provider is asked).  `SeatsKept` then follows a place from its
seat row; the counted trip compares `sold` with the set of bookings that hold a
place, grown and shrunk by one element.

### Cashless

`CashlessWallet_proofs`, from `CashlessAssumption`, `NoRowAssumption` and
`ViewAssumption`, for any number of wallets, bands, cashiers, desks, ids, requests
and amounts:

* `CashlessTypes`: `Spec => []TypeOK`;
* `BalancesReconcile`: `Spec => []StoredMatchesJournal`;
* `CashFundedIsCovered`: `Spec => []CashWithinBalance`;
* `ReservationsHold`: `Spec => []FrozenIsReserved`;
* `DeclinesAreTrue`: `Spec => DeclineIsTrue`;
* `DoneIsTrue`: `Spec => DoneIsRecorded`;
* `DesksKeepPromise`: `Spec => PurseSpec`, the refinement.

The inductive invariant is `Typed` (`BookTypes`, `OtherTypes`, `DeskTypes`,
`SalesSplit`) and `Books`.
`DeskTypes` says that a request in flight names a real wallet, id and amount and
that a charge carries a band, so that the document it writes has its type;
`SalesSplit` that the net, the fee and the surcharge of a sale add up to its
amount and that its cash part does not exceed it, without which a reversal could
unbalance the journal or lift the cash part above the balance.  `Books` joins the
three invariants with `SlipsPaid`: a withdrawal row that carries the id of a
request exists only when that request is paid, so paying it writes a fresh slip,
which is what `Purse` asks for.  One lemma per transaction keeps the invariant,
and one maps it to a step of `Purse`.

`CashlessBooks_proofs` proves the properties that are sums over documents, also
from `CashierAssumption` (there are finitely many cashiers):

* `StatementsExplain`: `Spec => []StatementExplainsBalance`;
* `CashIsCash`: `Spec => []CashComesFromCash`;
* `ShelfIsExplained`: `Spec => []StockExplained`;
* `DrawersAddUp`: `Spec => []DrawersHoldTheFloat`;
* `CollectionsAreCovered`: `Spec => CollectionsCovered`.

On top of `Typed` and `Books` the invariant is `Summed`: the documents are finitely
many and goods come back only with their money (`Counted`), each balance is the
worth of its documents (`Explained`), the shelf is what was delivered less what is
gone (`Shelved`), each float is its drawer (`Floats`).  `EveryStepMoves` says once
what each transaction does to the documents and to the balances, in one of a few
shapes; each shape then moves each sum by the same amount as the balance.

The sums are folds of the community modules: a recursive function on the subsets
of a set, which takes out the element `CHOOSE` picks.  `SumTheorems` shows that this
recursion has a solution and one only over every finite set, and from it that any
element may be taken out first (`SumSplit`), that a new document adds its field
(`FieldGrows`), one that leaves takes it away (`FieldShrinks`) and one that changes
moves the sum by the difference (`SumChanges`).  An induction theorem would need
an operator as parameter; each of these is instead proved on the smallest subset
that would break it, which exists because a smallest cardinality does.

### On site

`OnSite_proofs`:

* `OrdersHandedOutOnce` and `OrdersPaidInFull`: `MenuSpec => []HandedOutOnce` and
  `MenuSpec => []PaidInFull`.  `MenuInv` ties an order to its payment
  (`CheckoutAgrees`) and to the number of times it was served (`ServedAgrees`: at most
  once more than it was overwritten), and says of each
  finalizer, kitchen screen and scanner what it may still write (`MenuJobDue`).
* `CounterAlwaysAddsUp`: `BoxSpec => []CounterAddsUp`.  Of the tickets the counter
  surely knows (`Sure`: not of a dead batch, a crowd or a seller at work) `BoxInv` says that,
  less the refunds, they are within `tierSold`, and that with those of a seller on
  his own they are within the places (`SellerFits`); two sellers at once are all in
  the crowd.  A refund or an admission in flight still sees the ticket it read
  (`TxnFresh`): any other commit on it aborts it.
* `TrailAlwaysMatches` and `ReissueNeverStrands`: `BandSpec => []TrailMatchesBand`
  and `BandSpec => ReissueKeepsATag`.  `BandInv` says of each wallet without a gap
  that no desk has crossed (`Clean`) which tag it wears and which row is open at
  each write a job still owes it (`JobShaped`, `JobAgrees`), and that one job at
  most owes it one (`OnlyOwedBy`).
* `BillAlwaysAddsUp`: `VenueSpec => []BillAddsUp`.  A payment in flight whose
  revision still stands has read the bill as it is (`TillsCurrent`); the subtotal is
  the lines and the shelves explain them (`Lines`); the money is the payments, and a
  settled bill is paid in full (`Money`).
* `TabsArePaidOnce`: `TabSpec => []TabPaidOnce`.  A tab that is not settled has
  charged nobody; a settled one has charged one wallet the price of its lines and
  told nobody else; `Spent` finds that price on the wallet.

The first attempt at `CounterAlwaysAddsUp` failed for a good reason: a batch that
dies leaves live tickets the counter never counted, so live tickets may pass the
places by them.  `CounterAddsUp` says so.

### Off site

`OffSite_proofs`:

* `CodeOpensAnAccountOnce`: `OtpSpec => []CodeOpensOnce`.  `OtpInv` adds `OneIssuer`
  (one handler issues at a time, under the cooldown, and no code is live when it is
  about to create the next), `SpentIsConsumed` and `JobHasCode`.
* `AcceptedIsProven`: `AuthSpec => []SessionsAreProven`.  `VersionsCount` says of an
  account that was not overtaken that its version is the number of its changes, and
  that every token, link and request in flight carries a version equal to the proof
  it was made with; `OriginsSpent` and `OriginsOnce` that a session opened from
  another one, or from a link, has used it up, alone; `LinksHeldOnce` that a spent
  link still to become a session is in one hand.
* `OrganiserKeepsHerWord`, `NoStaleCertificate`: `MarketSpec => []MarketKeepsItsWord`
  and `MarketSpec => AppliedWithActiveCertificate`.  A transaction decides from its
  snapshot and writes later, so `TxnsStand` says that what it has checked is still
  true.  It survives another commit because that commit makes every transaction that
  writes the same document abort, and each of them writes the opportunity or the
  profile.
* `AgreementNeverCarriesOver`, `GuaranteeImplementsLife`:
  `GuaranteeSpec => []AgreementStaysWithProvider` and the refinement
  `GuaranteeSpec => LifeIsFollowed`.  `SavingIsDue`: what a handler between load and
  save is about to write is one legal step from the document as it is now.
* `RequestsArePaidOnce`: `PayoutSpec => []RequestsPaidOnce`.  One request is active
  (`OneRequest`), and a decision in flight is still due and its money covered by the
  sales Carrot holds (`MovesStand`), since refunds and stamps abort it; what was
  paid is the sum of the requests (`PaidTotal`).  `CutOff` is the half about the
  period's payout.
* `PaidStaysStamped`: `CommissionSpec => []PaidCommissionIsStamped`.  `Reckoned` and
  `Covered` say what a request, and a handler about to create one, was reckoned
  from; `StampedFirst` that a handler about to flip has its sales stamped, so that
  one that dies between the two leaves commission that is unpaid.
* `RewardsAlwaysFollow`: `ReferralSpec => []RewardsFollowSales`.  `BankedOnce`: the
  points of a key and those of handlers about to bank it are one at most, since its
  reward was issued once.  `Orderly` says of a referral that is not loose which of
  its points is still owed, by which handler and at which write (`Fits`), and what
  it has when no handler undoes it (`Resting`).

`BackOffice_proofs` carries these over to the composition the run checks.
`StepsOfAll`: a step of `MCNext` is a step of one component and leaves the others
alone; `EachOfThem`: hence `MCSpec` implies the specification of each.  From it,
`BackOfficeTypeCorrect` (`[]BackOfficeTypeOK`), `PayoutsAlwaysAddUp`
(`[]PayoutsAddUp`) and `BarAlwaysAddsUp` (`[]BarAddsUp`); every other property of the run is a theorem
of its component, and holds of `MCSpec` the same way.

## 6. Findings

Each is a run with `expect: violation`; `PROJECT.json` quotes the comment the
code contradicts.

* `oversell_late`: the sweep frees the seats of MoMo, Yoco and YeboPay sales that
  may still be minted, and the mint does not look at availability.
* `hold_half_applied`: release and confirm are not idempotent over several lines.
* `yebopay_return`: any status but COMPLETED is passed on as `checkout.expired`.
* `claim_stranded`: the event is loaded between the claim and the try block.
* `cashout_declined`: `withdrawCash` does not look for the row of its id again
  inside its transaction, as `charge` does, so the repeat of a cash-out of the
  whole balance is told "insufficient balance".
* `commission_twice`: the look for an open withdrawal, the sum and the creation are
  three calls and no unique index refuses the second row, so two requests at once
  are both opened for the whole balance, and each can be paid.

## 7. Not modelled

`components` in `PROJECT.json` has each part with its reason.  Of the modelled
components: venue payments without a wallet, counts and transfers of stock, the
amounts of period payouts, campaigns, budgets and redemption of rewards, hubs and
pricing of resellers, scan records, publication and cancellation of events,
waiter accounts, registration and PIN lock-outs.  Coupons and event plans are not
modelled yet; the HTTP layer, provider clients, notifications, media,
reports and social reads will stay out (I/O or queries without a protocol between
actors).

Read in the code, and covered by no property yet, beside the hazards that
`PROJECT.json` lists without one:

* `cart.service.ts:88`: the cap on tickets per account is counted in one query and
  used later, so two carts of one account both pass.
* `transport/booking.service.ts:181`: the answer of the provider, or the save of
  its reference, is lost; the sale is FAILED and the payer may still be charged.
  `menuOrder.service.ts:169` does the same.
* `transport/trip.service.ts:183`: `setReservedCount` saves a count decided from a
  `soldCount` it read before; sold plus reserved may exceed the capacity.
* `scan.service.ts:472`: the gate adopts a standalone wallet by saving a document
  it read before the band checks.
* `settlement.service.ts:281` and `:244`: the payout of a period does not look at
  event payouts, so it sends the proceeds of paid requests again; marking a
  settlement paid stamps sales made after its snapshot.
* `reservation.service.ts:6` and `event.service.ts:927`: how far two writers of
  the counters of an event may leave them from its holds and tickets.
* `venueTable.service.ts:41`: a round sent again after its only line was taken off
  is not recognised as a repeat.
* `table.service.ts:874`: charges of the stalls created in one session without
  `ordered: true`.
* `ticket.service.ts:608` and `:1150`: a charge before the mint that nothing gives
  back; a refund that computes `available` without the reserved seats.
* `shareEarn.service.ts:747`: a budget checked against a campaign read earlier; that
  it is spent is a choice of the model, the sums are not in it.
* `ticketsAuth.service.ts:370`: the hook hashes the password of the document it
  saves, so when the transaction of `OtpService.withVerified` is repeated after a
  write conflict the hash may be hashed again, or the document taken as unchanged.
* what the two assumptions of section 3 exclude: `otp.service.ts:56` (`SlowIssue`)
  and `transport/booking.service.ts:174` (`SlowProvider`).

The overlaps at `wallet.service.ts:60`, `event.service.ts:927`,
`shareEarn.service.ts:866`, `menuAdmin.controller.ts:93`, `ticketsAuth.service.ts:858`
and `withdrawal.service.ts:33` are in the models; what they spoil is excepted by
name in the properties (section 5), and no property bounds the damage within it.
