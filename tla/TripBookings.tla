---------------------------- MODULE TripBookings ----------------------------
(***************************************************************************)
(* Seats on one bus trip: the counter sale (sellSeat), the two rails that  *)
(* are paid later (initiateMomoBooking and initiateCardBooking, one        *)
(* protocol), their finalizers and sweeps, the operator's reservations and *)
(* boarding.  Every database access that another handler can come between  *)
(* is a step of its own; a booking b names one sale request and the        *)
(* booking and sale rows it creates.                                       *)
(***************************************************************************)
EXTENDS Integers, FiniteSets

CONSTANTS
    Bookings,       \* sale requests, each with the rows it creates
    Seats,          \* seat rows of a seat-mapped trip
    Capacity,       \* totalSeats
    Finalizers,     \* polls, callbacks, return pages, reconcilers and sweeps
    NoBooking,
    NoSeat,
    SlowProvider,   \* may a payment request outlast the hold of its sale?
    MaxCrashes      \* bound: finalizers that die between two of their writes

ASSUME TripAssumption ==
    /\ IsFiniteSet(Bookings) /\ NoBooking \notin Bookings
    /\ NoSeat \notin Seats
    /\ Capacity \in Nat /\ MaxCrashes \in Nat
    /\ SlowProvider \in BOOLEAN

VARIABLES
    trip,        \* its seat scheme, and whether it is open for sale
    seat,        \* seat rows: who booked it, and whether it is set aside
    sold,        \* soldCount
    aside,       \* reservedCount
    booking,     \* booking rows: status and seat number
    sale,        \* sale rows
    lapsed,      \* reservationExpiresAt is in the past
    pay,         \* what the provider knows of the payment
    step,        \* where each sale request stands
    job,         \* where each finalizer stands
    counter,     \* the soldCount a setReservedCount has read
    crashes

capacity == <<seat, sold, aside>>
rows == <<booking, sale>>
tripVars == <<trip, seat, sold, aside, booking, sale, lapsed, pay, step, job,
              counter, crashes>>

Steps == {"idle", "opened", "taken", "claimed", "asking", "charging", "paid",
          "stuck", "done"}
JobSteps == {"complete", "confirm", "fail", "cancel", "release"}

FreeSeat == [by |-> NoBooking, reserved |-> FALSE]
IdleJob == [at |-> "idle"]
Jobs == {IdleJob} \cup [at : JobSteps, b : Bookings]
NotReading == [reading |-> FALSE, seen |-> 0]

TripTypeOK ==
    /\ trip \in [scheme : {"seats", "count"}, open : BOOLEAN]
    /\ seat \in [Seats -> [by : Bookings \cup {NoBooking}, reserved : BOOLEAN]]
    /\ sold \in Int /\ aside \in Nat
    /\ booking \in [Bookings -> [seat : Seats \cup {NoSeat},
           status : {"none", "pending", "confirmed", "cancelled", "boarded"}]]
    /\ sale \in [Bookings -> [ref : BOOLEAN,
           status : {"none", "pending", "completed", "failed"}]]
    /\ lapsed \in SUBSET Bookings
    /\ pay \in [Bookings -> {"none", "open", "approved", "short", "declined"}]
    /\ step \in [Bookings -> Steps]
    /\ job \in [Finalizers -> Jobs]
    /\ counter \in [reading : BOOLEAN, seen : Int]
    /\ crashes \in 0..MaxCrashes

TripInit ==
    /\ trip \in [scheme : {"seats", "count"}, open : {TRUE}]
    /\ seat = [s \in Seats |-> FreeSeat]
    /\ sold = 0
    /\ aside = 0
    /\ booking = [b \in Bookings |-> [seat |-> NoSeat, status |-> "none"]]
    /\ sale = [b \in Bookings |-> [ref |-> FALSE, status |-> "none"]]
    /\ lapsed = {}
    /\ pay = [b \in Bookings |-> "none"]
    /\ step = [b \in Bookings |-> "idle"]
    /\ job = [f \in Finalizers |-> IdleJob]
    /\ counter = NotReading
    /\ crashes = 0

Mapped == trip.scheme = "seats"

(***************************************************************************)
(* Capacity.                                                               *)
(***************************************************************************)
\* The id alone, where the row should be.
BookBare(b, s) == seat' = [seat EXCEPT ![s] = b]

Book(b, s) == seat' = [seat EXCEPT ![s] = [by |-> b, reserved |-> FALSE]]

\* The conditional claim of a seat row, or of one place of soldCount while the
\* trip is on sale.
ClaimCapacity(b, s) ==
    IF Mapped
    THEN /\ seat[s] = FreeSeat
         /\ Book(b, s)
         /\ UNCHANGED sold
    ELSE /\ trip.open
         /\ sold + aside < Capacity
         /\ sold' = sold + 1
         /\ UNCHANGED seat

\* A seat is freed only by the booking that holds it; a place of soldCount is
\* given back by whoever says so.
ReleaseClaim(b, s) ==
    IF Mapped
    THEN /\ seat' = [x \in Seats |->
                       IF x = s /\ seat[x].by = b THEN FreeSeat ELSE seat[x]]
         /\ UNCHANGED sold
    ELSE /\ sold' = sold - 1
         /\ UNCHANGED seat

(***************************************************************************)
(* A sale request: load the trip, claim, look at the trip again (seats     *)
(* only), then charge at the counter or open a payment.                    *)
(***************************************************************************)
StepTo(b, to) == step' = [step EXCEPT ![b] = to]

LoadTrip(b) ==
    /\ step[b] = "idle"
    /\ trip.open
    /\ StepTo(b, "opened")
    /\ UNCHANGED <<trip, capacity, rows, lapsed, pay, job, counter, crashes>>

ClaimSeat(b, s) ==
    /\ step[b] = "opened"
    /\ s \in IF Mapped THEN Seats ELSE {NoSeat}
    /\ ClaimCapacity(b, s)
    /\ booking' = [booking EXCEPT ![b].seat = s]
    /\ StepTo(b, IF Mapped THEN "taken" ELSE "claimed")
    /\ UNCHANGED <<trip, aside, sale, lapsed, pay, job, counter, crashes>>

\* "Seat is already booked or reserved", "Trip is fully booked".
SeatRefused(b) ==
    /\ step[b] = "opened"
    /\ IF Mapped THEN \E s \in Seats : seat[s] # FreeSeat
                 ELSE ~trip.open \/ sold + aside >= Capacity
    /\ StepTo(b, "done")
    /\ UNCHANGED <<trip, capacity, rows, lapsed, pay, job, counter, crashes>>

Recheck(b) ==
    /\ step[b] = "taken"
    /\ IF trip.open
       THEN StepTo(b, "claimed") /\ UNCHANGED <<seat, sold>>
       ELSE StepTo(b, "done") /\ ReleaseClaim(b, booking[b].seat)
    /\ UNCHANGED <<trip, aside, rows, lapsed, pay, job, counter, crashes>>

\* The rows of a sale that is paid later.
SaveRows(b) ==
    /\ step[b] = "claimed"
    /\ booking' = [booking EXCEPT ![b].status = "pending"]
    /\ sale' = [sale EXCEPT ![b].status = "pending"]
    /\ StepTo(b, "asking")
    /\ UNCHANGED <<trip, capacity, lapsed, pay, job, counter, crashes>>

\* One of the three saves fails: the claim goes back and the booking is
\* cancelled; a sale row that was created stays PENDING for the sweep.
SaveRowsFails(b) ==
    /\ step[b] = "claimed"
    /\ ReleaseClaim(b, booking[b].seat)
    /\ \/ UNCHANGED rows
       \/ /\ booking' = [booking EXCEPT ![b].status = "cancelled"]
          /\ \E made \in {"none", "pending"} :
                sale' = [sale EXCEPT ![b].status = made]
    /\ StepTo(b, "done")
    /\ UNCHANGED <<trip, aside, lapsed, pay, job, counter, crashes>>

\* The provider opened the payment and its reference is stored.
ProviderAccepts(b) ==
    /\ step[b] = "asking"
    /\ pay' = [pay EXCEPT ![b] = "open"]
    /\ sale' = [sale EXCEPT ![b].ref = TRUE]
    /\ StepTo(b, "done")
    /\ UNCHANGED <<trip, capacity, booking, lapsed, job, counter, crashes>>

\* It refused, its answer was lost, or its reference could not be stored: the
\* claim is released and both rows are closed, whatever they say by now.
ProviderFails(b) ==
    /\ step[b] = "asking"
    /\ ReleaseClaim(b, booking[b].seat)
    /\ booking' = [booking EXCEPT ![b].status = "cancelled"]
    /\ sale' = [sale EXCEPT ![b].status = "failed"]
    /\ \E known \in {"none", "open"} : pay' = [pay EXCEPT ![b] = known]
    /\ StepTo(b, "done")
    /\ UNCHANGED <<trip, aside, lapsed, job, counter, crashes>>

\* The counter sale: cash or wallet, charged at once.
StartCharge(b) ==
    /\ step[b] = "claimed"
    /\ StepTo(b, "charging")
    /\ UNCHANGED <<trip, capacity, rows, lapsed, pay, job, counter, crashes>>

Charge(b) ==
    /\ step[b] = "charging"
    /\ \/ /\ StepTo(b, "paid")
          /\ pay' = [pay EXCEPT ![b] = "approved"]
          /\ UNCHANGED <<seat, sold>>
       \/ /\ StepTo(b, "done")
          /\ ReleaseClaim(b, booking[b].seat)
          /\ UNCHANGED pay
    /\ UNCHANGED <<trip, aside, rows, lapsed, job, counter, crashes>>

SavePaid(b) ==
    /\ step[b] = "paid"
    /\ booking' = [booking EXCEPT ![b].status = "confirmed"]
    /\ sale' = [sale EXCEPT ![b].status = "completed"]
    /\ StepTo(b, "done")
    /\ UNCHANGED <<trip, capacity, lapsed, pay, job, counter, crashes>>

\* Money captured, nothing (or only the booking) saved: the claim stays.
SavePaidFails(b) ==
    /\ step[b] = "paid"
    /\ \E s \in {"none", "confirmed"} :
          booking' = [booking EXCEPT ![b].status = s]
    /\ StepTo(b, "stuck")
    /\ UNCHANGED <<trip, capacity, sale, lapsed, pay, job, counter, crashes>>

(***************************************************************************)
(* Finalizers and the sweep of lapsed holds.                               *)
(***************************************************************************)
GoOn(f, j) == job' = [job EXCEPT ![f] = j]
JobAt(f, k) == job[f].at = k

\* The sweep leaves a payment alone that still waits.
VerdictWaits(b, sweep) ==
    CASE sale[b].ref /\ pay[b] = "approved" -> "complete"
      [] sale[b].ref /\ pay[b] \in {"declined", "short"} -> "fail"
      [] OTHER -> "none"

\* The sale is read PENDING and the provider asked: its answer decides the next
\* write.  While it still waits, a poll ends with no write and the sweep fails
\* the sale, as it does for a sale that has no provider reference.
Verdict(b, sweep) ==
    IF sale[b].ref /\ pay[b] = "approved" THEN "complete"
    ELSE IF sweep \/ (sale[b].ref /\ pay[b] \in {"declined", "short"}) THEN "fail"
    ELSE "none"

StartFinalize(f, b, sweep) ==
    /\ JobAt(f, "idle")
    /\ sale[b].status = "pending"
    /\ IF sweep THEN b \in lapsed ELSE sale[b].ref
    /\ Verdict(b, sweep) # "none"
    /\ GoOn(f, [at |-> Verdict(b, sweep), b |-> b])
    /\ UNCHANGED <<trip, capacity, rows, lapsed, pay, step, counter, crashes>>

\* The sale is set whatever it says by now.
ArbitrateBlind(f, to, next) ==
    LET j == job[f] IN
    /\ sale' = [sale EXCEPT ![j.b].status = to]
    /\ GoOn(f, [j EXCEPT !.at = next])
    /\ UNCHANGED <<trip, capacity, booking, lapsed, pay, step, counter, crashes>>

\* The sale is the arbiter: PENDING to COMPLETED here, PENDING to FAILED in
\* FailSale, and only the winner goes on.
Arbitrate(f, to, next) ==
    LET j == job[f] IN
    /\ IF sale[j.b].status = "pending"
       THEN /\ sale' = [sale EXCEPT ![j.b].status = to]
            /\ GoOn(f, [j EXCEPT !.at = next])
       ELSE GoOn(f, IdleJob) /\ UNCHANGED sale
    /\ UNCHANGED <<trip, capacity, booking, lapsed, pay, step, counter, crashes>>

CompleteSale(f) == JobAt(f, "complete") /\ Arbitrate(f, "completed", "confirm")

FailSale(f) == JobAt(f, "fail") /\ Arbitrate(f, "failed", "cancel")

\* The place goes back with a booking that someone else cancelled.
CancelAnyBooking(f) ==
    /\ JobAt(f, "cancel")
    /\ booking' = [booking EXCEPT ![job[f].b].status = "cancelled"]
    /\ GoOn(f, [job[f] EXCEPT !.at = "release"])
    /\ UNCHANGED <<trip, capacity, sale, lapsed, pay, step, counter, crashes>>

ConfirmBooking(f) ==
    /\ JobAt(f, "confirm")
    /\ booking' = [booking EXCEPT ![job[f].b].status = "confirmed"]
    /\ GoOn(f, IdleJob)
    /\ UNCHANGED <<trip, capacity, sale, lapsed, pay, step, counter, crashes>>

CancelBooking(f) ==
    /\ JobAt(f, "cancel")
    /\ LET j == job[f] IN
       IF booking[j.b].status = "pending"
       THEN /\ booking' = [booking EXCEPT ![j.b].status = "cancelled"]
            /\ GoOn(f, [j EXCEPT !.at = "release"])
       ELSE GoOn(f, IdleJob) /\ UNCHANGED booking
    /\ UNCHANGED <<trip, capacity, sale, lapsed, pay, step, counter, crashes>>

ReleaseSeat(f) ==
    /\ JobAt(f, "release")
    /\ ReleaseClaim(job[f].b, booking[job[f].b].seat)
    /\ GoOn(f, IdleJob)
    /\ UNCHANGED <<trip, aside, rows, lapsed, pay, step, counter, crashes>>

\* The process dies between two writes of a finalizer.
CrashFinalizer(f) ==
    /\ job[f] # IdleJob
    /\ crashes < MaxCrashes
    /\ crashes' = crashes + 1
    /\ GoOn(f, IdleJob)
    /\ UNCHANGED <<trip, capacity, rows, lapsed, pay, step, counter>>

(***************************************************************************)
(* The hold runs out; the payer and the provider settle the payment.       *)
(***************************************************************************)
Lapse(b) ==
    /\ sale[b].status = "pending" /\ b \notin lapsed
    /\ step[b] = "asking" => SlowProvider
    /\ lapsed' = lapsed \cup {b}
    /\ UNCHANGED <<trip, capacity, rows, pay, step, job, counter, crashes>>

ProviderSettles(b, how) ==
    /\ pay[b] = "open"
    /\ pay' = [pay EXCEPT ![b] = how]
    /\ UNCHANGED <<trip, capacity, rows, lapsed, step, job, counter, crashes>>

(***************************************************************************)
(* The operator: seats set aside, the reserved count (read, then saved),   *)
(* the end of the sale; the conductor's boarding scan.                     *)
(***************************************************************************)
ReserveSeat(s) ==
    /\ Mapped /\ seat[s] = FreeSeat
    /\ seat' = [seat EXCEPT ![s] = [by |-> NoBooking, reserved |-> TRUE]]
    /\ UNCHANGED <<trip, sold, aside, rows, lapsed, pay, step, job, counter, crashes>>

FreeReserved(s) ==
    /\ Mapped /\ seat[s] = [by |-> NoBooking, reserved |-> TRUE]
    /\ seat' = [seat EXCEPT ![s] = FreeSeat]
    /\ UNCHANGED <<trip, sold, aside, rows, lapsed, pay, step, job, counter, crashes>>

ReadSold ==
    /\ ~Mapped /\ ~counter.reading
    /\ counter' = [reading |-> TRUE, seen |-> sold]
    /\ UNCHANGED <<trip, capacity, rows, lapsed, pay, step, job, crashes>>

SetReservedCount(n) ==
    /\ counter.reading
    /\ aside' = IF n + counter.seen > Capacity THEN aside ELSE n
    /\ counter' = NotReading
    /\ UNCHANGED <<trip, seat, sold, rows, lapsed, pay, step, job, crashes>>

\* Nothing in the code moves a trip out of SCHEDULED: it is done in the
\* database.
CloseTrip ==
    /\ trip.open
    /\ trip' = [trip EXCEPT !.open = FALSE]
    /\ UNCHANGED <<capacity, rows, lapsed, pay, step, job, counter, crashes>>

BoardBus(b) ==
    /\ booking[b].status = "confirmed"
    /\ booking' = [booking EXCEPT ![b].status = "boarded"]
    /\ UNCHANGED <<trip, capacity, sale, lapsed, pay, step, job, counter, crashes>>

(***************************************************************************)
(* Steps of the sale requests, of the finalizers, and of everyone else.    *)
(***************************************************************************)
Sell(b) ==
    \/ LoadTrip(b) \/ (\E s \in Seats \cup {NoSeat} : ClaimSeat(b, s)) \/ SeatRefused(b)
    \/ Recheck(b) \/ SaveRows(b) \/ SaveRowsFails(b)
    \/ ProviderAccepts(b) \/ ProviderFails(b)
    \/ StartCharge(b) \/ Charge(b) \/ SavePaid(b) \/ SavePaidFails(b)

FinalizeStep(f) ==
    \/ CompleteSale(f) \/ FailSale(f) \/ ConfirmBooking(f)
    \/ CancelBooking(f) \/ ReleaseSeat(f)

Sweep(f, b) == StartFinalize(f, b, TRUE)

TripNext ==
    \/ \E b \in Bookings : Sell(b) \/ Lapse(b) \/ BoardBus(b)
    \/ \E b \in Bookings, how \in {"approved", "short", "declined"} :
          ProviderSettles(b, how)
    \/ \E f \in Finalizers, b \in Bookings :
          StartFinalize(f, b, FALSE) \/ Sweep(f, b)
    \/ \E f \in Finalizers : FinalizeStep(f) \/ CrashFinalizer(f)
    \/ \E s \in Seats : ReserveSeat(s) \/ FreeReserved(s)
    \/ ReadSold \/ \E n \in 0..Capacity : SetReservedCount(n)
    \/ CloseTrip

TripSpec == TripInit /\ [][TripNext]_tripVars

\* The timers of backgroundTasks.ts keep sweeping, and a handler that has
\* started goes on; nothing makes the payer or the provider answer.
TripFairness ==
    /\ \A b \in Bookings :
          /\ WF_tripVars(Lapse(b))
          /\ WF_tripVars(\E f \in Finalizers : Sweep(f, b))
    /\ \A f \in Finalizers : WF_tripVars(FinalizeStep(f))

FairTripSpec == TripSpec /\ TripFairness

(***************************************************************************)
(* What the bookings promise.                                              *)
(***************************************************************************)
\* The requests and rows that stand for one place of the trip.
Holding == { b \in Bookings :
    \/ step[b] \in {"taken", "claimed", "asking", "charging", "paid", "stuck"}
    \/ booking[b].status \in {"pending", "confirmed", "boarded"}
    \/ \E f \in Finalizers : JobAt(f, "release") /\ job[f].b = b }

\* A confirmed or boarded passenger has the seat of the booking, whatever the
\* other buyers, the finalizers, the sweep and the operator have done since.
ConfirmedHasSeat ==
    Mapped => \A b \in Bookings :
        booking[b].status \in {"confirmed", "boarded"}
            => seat[booking[b].seat].by = b

\* soldCount is the number of places held: no release is counted twice and none
\* is forgotten; a crash may leave a place unsold, never sell one twice.
SoldCountExact ==
    ~Mapped => /\ Cardinality(Holding) <= sold
               /\ crashes = 0 => sold = Cardinality(Holding)
               /\ sold <= Capacity

\* The places of a trip with a seat map, and of one that counts them.
PlacesAddUp == ConfirmedHasSeat /\ SoldCountExact

\* One arbiter: a sale that ended COMPLETED keeps its booking, and a booking is
\* confirmed or boarded only for money that was taken.
PaidKeepsBooking ==
    \A b \in Bookings :
        /\ sale[b].status = "completed" => booking[b].status # "cancelled"
        /\ booking[b].status \in {"confirmed", "boarded"} => pay[b] = "approved"

\* No sale stays PENDING for ever: the sweep settles it.
PendingSettles ==
    \A b \in Bookings :
        (sale[b].status = "pending" /\ step[b] = "done")
            ~> (sale[b].status # "pending")
=============================================================================
