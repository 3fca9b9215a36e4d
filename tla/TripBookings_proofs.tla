------------------------ MODULE TripBookings_proofs ------------------------
(***************************************************************************)
(* Proofs about TripBookings, for any number of buyers, finalizers, seats  *)
(* and crashes.  The sale row decides: a booking is confirmed only after   *)
(* its sale is COMPLETED and cancelled only after it is FAILED, and the    *)
(* one finalizer that failed the sale is the one that may give the place   *)
(* back.  On a trip that counts places this needs requests that reach the  *)
(* provider within the hold (~SlowProvider); otherwise nothing is assumed. *)
(***************************************************************************)
EXTENDS TripBookings, FiniteSetTheorems, TLAPS

\* Statuses of a booking that keeps its place, and the steps of a request that
\* has one and no booking yet.
Seated == {"pending", "confirmed", "boarded"}
Unsaved == {"taken", "claimed", "charging", "paid", "stuck"}

AtWork(f, b) == job[f] # IdleJob /\ job[f].b = b

\* What the rows of one request may say at each of its steps.
RowsOf(b) ==
    /\ step[b] \in {"idle", "opened", "taken", "claimed", "charging"} =>
          booking[b].status = "none" /\ pay[b] = "none"
    /\ step[b] = "paid" => booking[b].status = "none" /\ pay[b] = "approved"
    /\ step[b] = "stuck" =>
          booking[b].status \in {"none", "confirmed", "boarded"} /\ pay[b] = "approved"
    /\ step[b] = "asking" =>
          /\ sale[b].status \in {"pending", "failed"} /\ ~sale[b].ref
          /\ booking[b].status \in {"pending", "cancelled"} /\ pay[b] = "none"
    /\ sale[b].status # "none" => step[b] \in {"asking", "done"}
    /\ sale[b].ref => sale[b].status # "none" /\ step[b] = "done"
    /\ b \in lapsed => sale[b].status # "none"

\* An open sale still has its booking, and so has a completed one; a passenger
\* is confirmed for money that was taken.
MoneyOf(b) ==
    /\ sale[b].status = "pending" /\ (sale[b].ref \/ step[b] = "asking") =>
          booking[b].status = "pending"
    /\ sale[b].status = "completed" =>
          booking[b].status \in Seated /\ step[b] = "done" /\ pay[b] = "approved"
    /\ booking[b].status \in {"confirmed", "boarded"} => pay[b] = "approved"

\* A finalizer past the arbitration won it.
JobOf(f, b) == AtWork(f, b) =>
    /\ sale[b].status # "none"
    /\ JobAt(f, "complete") => sale[b].ref /\ pay[b] = "approved"
    /\ JobAt(f, "confirm") => sale[b].status = "completed"
    /\ JobAt(f, "cancel") => sale[b].status = "failed"
    /\ JobAt(f, "release") => sale[b].status = "failed" /\ booking[b].status = "cancelled"

RowsAgree == \A b \in Bookings : RowsOf(b) /\ MoneyOf(b)
JobsAgree == \A f \in Finalizers, b \in Bookings : JobOf(f, b)

\* One finalizer at most cancels a booking and gives its place back.
Cancels(f) == job[f].at \in {"cancel", "release"}
OneCanceller ==
    \A f, g \in Finalizers :
        Cancels(f) /\ Cancels(g) /\ job[f].b = job[g].b => f = g

\* No hold runs out, and no finalizer starts, while the request still waits for
\* the provider.
InTime == ~SlowProvider =>
    \A b \in Bookings :
        /\ step[b] = "asking" => b \notin lapsed /\ sale[b].status = "pending"
        /\ \A f \in Finalizers : AtWork(f, b) => step[b] = "done"

TripInv == TripTypeOK /\ RowsAgree /\ JobsAgree /\ OneCanceller /\ InTime

\* A place taken on a trip with a seat map is a seat row that names its booking.
KeepsSeat(b) == step[b] \in Unsaved \/ booking[b].status \in Seated
SeatsKept ==
    /\ \A b \in Bookings : step[b] = "taken" => Mapped
    /\ Mapped => \A b \in Bookings :
          KeepsSeat(b) => booking[b].seat \in Seats /\ seat[booking[b].seat].by = b

Booking == [seat : Seats \cup {NoSeat},
            status : {"none", "pending", "confirmed", "cancelled", "boarded"}]
Sale == [ref : BOOLEAN, status : {"none", "pending", "completed", "failed"}]
SeatRow == [by : Bookings \cup {NoBooking}, reserved : BOOLEAN]

---------------------------------------------------------------------------
\* The places.

LEMMA BookType ==
    ASSUME TripTypeOK, NEW b \in Bookings, NEW s \in Seats \cup {NoSeat},
           ClaimCapacity(b, s), s \in IF Mapped THEN Seats ELSE {NoSeat}
    PROVE  seat' \in [Seats -> SeatRow] /\ sold' \in Int
  <1>1. CASE Mapped
    <2>1. [by |-> b, reserved |-> FALSE] \in SeatRow
      BY DEF SeatRow
    <2>2. seat \in [Seats -> SeatRow] /\ sold \in Int
      BY DEF TripTypeOK, SeatRow
    <2> QED BY <1>1, <2>1, <2>2 DEF ClaimCapacity, Book
  <1>2. CASE ~Mapped
    BY <1>2 DEF TripTypeOK, ClaimCapacity, SeatRow
  <1> QED BY <1>1, <1>2

LEMMA ReleaseType ==
    ASSUME TripTypeOK, NEW b, NEW s, ReleaseClaim(b, s)
    PROVE  seat' \in [Seats -> SeatRow] /\ sold' \in Int
  <1>1. CASE Mapped
    <2>1. FreeSeat \in SeatRow
      BY DEF FreeSeat, SeatRow
    <2>2. \A x \in Seats : seat[x] \in SeatRow
      BY DEF TripTypeOK, SeatRow
    <2>3. seat' \in [Seats -> SeatRow]
      BY <1>1, <2>1, <2>2 DEF ReleaseClaim
    <2> QED BY <1>1, <2>3 DEF TripTypeOK, ReleaseClaim
  <1>2. CASE ~Mapped
    BY <1>2 DEF TripTypeOK, ReleaseClaim, SeatRow
  <1> QED BY <1>1, <1>2

\* What the provider's answer and the hold allow a finalizer to start.
LEMMA VerdictSays ==
    ASSUME NEW b, NEW sweep
    PROVE  /\ Verdict(b, sweep) \in {"complete", "fail", "none"}
           /\ Verdict(b, sweep) = "complete" => sale[b].ref /\ pay[b] = "approved"
  BY DEF Verdict

---------------------------------------------------------------------------
\* The rows, the payments and the finalizers.

Asked == [at : JobSteps, b : Bookings]

\* Rows have their type; a finalizer is idle or on a booking.
LEMMA RowTypes ==
    ASSUME TripTypeOK
    PROVE  /\ booking \in [Bookings -> Booking] /\ sale \in [Bookings -> Sale]
           /\ \A j \in Asked, k \in JobSteps : [j EXCEPT !.at = k] \in Asked
           /\ \A f \in Finalizers : job[f] = IdleJob \/ job[f] \in Asked
           /\ IdleJob.at = "idle" /\ "idle" \notin JobSteps
  BY DEF TripTypeOK, Booking, Sale, Asked, Jobs, IdleJob, JobSteps

Untouched == UNCHANGED <<trip, aside, lapsed, job, counter, crashes>>

LEMMA SellType ==
    ASSUME TripTypeOK, NEW b \in Bookings, Sell(b)
    PROVE  TripTypeOK'
  <1>1. Untouched
    BY DEF Sell, LoadTrip, ClaimSeat, SeatRefused, Recheck, SaveRows, SaveRowsFails,
           ProviderAccepts, ProviderFails, StartCharge, Charge, SavePaid, SavePaidFails,
           Untouched, capacity, rows
  <1>2. \E to \in Steps : StepTo(b, to)
    BY DEF Sell, LoadTrip, ClaimSeat, SeatRefused, Recheck, SaveRows, SaveRowsFails,
           ProviderAccepts, ProviderFails, StartCharge, Charge, SavePaid, SavePaidFails, Steps
  <1>3. step' \in [Bookings -> Steps]
    BY <1>2 DEF TripTypeOK, StepTo
  <1>4. seat' \in [Seats -> SeatRow] /\ sold' \in Int
    <2>1. ASSUME NEW s \in Seats \cup {NoSeat}, ClaimSeat(b, s)
          PROVE  seat' \in [Seats -> SeatRow] /\ sold' \in Int
      BY <2>1, BookType DEF ClaimSeat
    <2>2. CASE UNCHANGED <<seat, sold>>
      BY <2>2 DEF TripTypeOK, SeatRow
    <2>3. CASE ReleaseClaim(b, booking[b].seat)
      BY <2>3, ReleaseType
    <2> QED
      BY <2>1, <2>2, <2>3
      DEF Sell, LoadTrip, SeatRefused, Recheck, SaveRows, SaveRowsFails,
          ProviderAccepts, ProviderFails, StartCharge, Charge, SavePaid, SavePaidFails, capacity
  <1>5. booking' \in [Bookings -> Booking] /\ sale' \in [Bookings -> Sale]
    <2>0. booking \in [Bookings -> Booking] /\ sale \in [Bookings -> Sale]
      BY RowTypes
    <2>1. ASSUME NEW s \in Seats \cup {NoSeat}, ClaimSeat(b, s)
          PROVE  booking' \in [Bookings -> Booking] /\ sale' \in [Bookings -> Sale]
      BY <2>0, <2>1 DEF ClaimSeat, Booking, Sale
    <2>2. CASE SaveRows(b)
      BY <2>0, <2>2 DEF SaveRows, Booking, Sale
    <2>3. CASE SaveRowsFails(b)
      <3>1. booking' \in [Bookings -> Booking]
        BY <2>0, <2>3 DEF SaveRowsFails, rows, Booking
      <3>2. sale' \in [Bookings -> Sale]
        BY <2>0, <2>3 DEF SaveRowsFails, rows, Sale
      <3> QED BY <3>1, <3>2
    <2>4. CASE ProviderAccepts(b)
      BY <2>0, <2>4 DEF ProviderAccepts, Booking, Sale
    <2>5. CASE ProviderFails(b)
      BY <2>0, <2>5 DEF ProviderFails, Booking, Sale
    <2>6. CASE SavePaid(b)
      BY <2>0, <2>6 DEF SavePaid, Booking, Sale
    <2>7. CASE SavePaidFails(b)
      BY <2>0, <2>7 DEF SavePaidFails, Booking, Sale
    <2>8. CASE UNCHANGED rows
      BY <2>0, <2>8 DEF rows, Booking, Sale
    <2> QED BY <2>1, <2>2, <2>3, <2>4, <2>5, <2>6, <2>7, <2>8
        DEF Sell, LoadTrip, SeatRefused, Recheck, StartCharge, Charge
  <1>6. pay' \in [Bookings -> {"none", "open", "approved", "short", "declined"}]
    <2>1. \/ pay' = pay
          \/ \E known \in {"none", "open", "approved"} : pay' = [pay EXCEPT ![b] = known]
      BY DEF Sell, LoadTrip, ClaimSeat, SeatRefused, Recheck, SaveRows, SaveRowsFails,
             ProviderAccepts, ProviderFails, StartCharge, Charge, SavePaid, SavePaidFails
    <2> QED BY <2>1 DEF TripTypeOK
  <1> QED BY <1>1, <1>3, <1>4, <1>5, <1>6
      DEF TripTypeOK, Untouched, SeatRow, Booking, Sale

LEMMA JobType ==
    ASSUME TripTypeOK, NEW f \in Finalizers, NEW j \in Jobs, GoOn(f, j)
    PROVE  job' \in [Finalizers -> Jobs]
  BY DEF TripTypeOK, GoOn

LEMMA FinalizeType ==
    ASSUME TripTypeOK, NEW f \in Finalizers, FinalizeStep(f)
    PROVE  TripTypeOK'
  <1>0. FinalizeStep(f) => job[f] \in Asked
    <2>1. job[f].at \in JobSteps
      BY DEF FinalizeStep, CompleteSale, FailSale, ConfirmBooking, CancelBooking,
             ReleaseSeat, JobAt, JobSteps
    <2> QED BY <2>1, RowTypes
  <1>1. UNCHANGED <<trip, aside, lapsed, pay, step, counter, crashes>>
    BY DEF FinalizeStep, CompleteSale, FailSale, ConfirmBooking, CancelBooking,
           ReleaseSeat, Arbitrate, capacity
  <1>2. job' \in [Finalizers -> Jobs]
    <2>1. \E j \in Jobs : GoOn(f, j)
      BY <1>0, RowTypes DEF FinalizeStep, CompleteSale, FailSale, ConfirmBooking, CancelBooking,
           ReleaseSeat, Arbitrate, Jobs, Asked, JobSteps
    <2> QED BY <2>1, JobType
  <1>3. seat' \in [Seats -> SeatRow] /\ sold' \in Int
    <2>2. CASE UNCHANGED <<seat, sold>>
      BY <2>2 DEF TripTypeOK, SeatRow
    <2>3. CASE ReleaseClaim(job[f].b, booking[job[f].b].seat)
      BY <2>3, ReleaseType
    <2> QED
      BY <2>2, <2>3 DEF FinalizeStep, CompleteSale, FailSale, ConfirmBooking, CancelBooking,
             ReleaseSeat, Arbitrate, capacity
  <1>4. booking' \in [Bookings -> Booking] /\ sale' \in [Bookings -> Sale]
    <2>0. /\ job[f].b \in Bookings
          /\ booking \in [Bookings -> Booking] /\ sale \in [Bookings -> Sale]
      BY <1>0, RowTypes DEF Asked
    <2>1. CASE CompleteSale(f)
      BY <2>0, <2>1 DEF CompleteSale, Arbitrate, Booking, Sale
    <2>2. CASE FailSale(f)
      BY <2>0, <2>2 DEF FailSale, Arbitrate, Booking, Sale
    <2>3. CASE ConfirmBooking(f)
      BY <2>0, <2>3 DEF ConfirmBooking, Booking, Sale
    <2>4. CASE CancelBooking(f)
      BY <2>0, <2>4 DEF CancelBooking, Booking, Sale
    <2>5. CASE UNCHANGED rows
      BY <2>0, <2>5 DEF rows, Booking, Sale
    <2> QED BY <2>1, <2>2, <2>3, <2>4, <2>5 DEF FinalizeStep, ReleaseSeat
  <1> QED BY <1>1, <1>2, <1>3, <1>4
      DEF TripTypeOK, SeatRow, Booking, Sale

\* The other steps: the provider, the hold, the operator, a crash.
LEMMA TripTypeStep ==
    ASSUME TripTypeOK, [TripNext]_tripVars
    PROVE  TripTypeOK'
  <1> USE TripAssumption
  <1>1. ASSUME NEW b \in Bookings, Sell(b) PROVE TripTypeOK'
    BY <1>1, SellType
  <1>2. ASSUME NEW b \in Bookings, Lapse(b) PROVE TripTypeOK'
    BY <1>2 DEF Lapse, TripTypeOK, capacity, rows
  <1>3. ASSUME NEW b \in Bookings, BoardBus(b) PROVE TripTypeOK'
    <2>1. booking' \in [Bookings -> Booking]
      BY <1>3, RowTypes DEF BoardBus, Booking
    <2> QED BY <1>3, <2>1 DEF BoardBus, TripTypeOK, capacity, Booking
  <1>4. ASSUME NEW b \in Bookings, NEW how \in {"approved", "short", "declined"},
               ProviderSettles(b, how)
        PROVE  TripTypeOK'
    BY <1>4 DEF ProviderSettles, TripTypeOK, capacity, rows
  <1>5. ASSUME NEW f \in Finalizers, NEW b \in Bookings, NEW sweep \in BOOLEAN,
               StartFinalize(f, b, sweep)
        PROVE  TripTypeOK'
    <2>1. [at |-> Verdict(b, sweep), b |-> b] \in Jobs
      BY <1>5, VerdictSays DEF StartFinalize, Jobs, JobSteps
    <2>2. job' \in [Finalizers -> Jobs]
      BY <1>5, <2>1, JobType DEF StartFinalize
    <2> QED BY <1>5, <2>2 DEF StartFinalize, TripTypeOK, capacity, rows
  <1>6. ASSUME NEW f \in Finalizers, FinalizeStep(f) PROVE TripTypeOK'
    BY <1>6, FinalizeType
  <1>7. ASSUME NEW f \in Finalizers, CrashFinalizer(f) PROVE TripTypeOK'
    <2>1. job' \in [Finalizers -> Jobs]
      BY <1>7, JobType DEF CrashFinalizer, Jobs
    <2>2. crashes' \in 0..MaxCrashes
      BY <1>7 DEF CrashFinalizer, TripTypeOK
    <2> QED BY <1>7, <2>1, <2>2 DEF CrashFinalizer, TripTypeOK, capacity, rows
  <1>8. ASSUME NEW s \in Seats, ReserveSeat(s) \/ FreeReserved(s) PROVE TripTypeOK'
    <2>1. /\ [by |-> NoBooking, reserved |-> TRUE] \in SeatRow
          /\ FreeSeat \in SeatRow
      BY DEF SeatRow, FreeSeat
    <2>2. seat' \in [Seats -> SeatRow]
      BY ZenonT(30), <1>8, <2>1 DEF TripTypeOK, SeatRow, ReserveSeat, FreeReserved
    <2> QED BY <1>8, <2>2 DEF ReserveSeat, FreeReserved, TripTypeOK, SeatRow, rows
  <1>9. CASE ReadSold
    <2>1. counter' \in [reading : BOOLEAN, seen : Int]
      BY <1>9 DEF ReadSold, TripTypeOK
    <2> QED BY <1>9, <2>1 DEF ReadSold, TripTypeOK, capacity, rows
  <1>10. ASSUME NEW n \in 0..Capacity, SetReservedCount(n) PROVE TripTypeOK'
    <2>1. counter' \in [reading : BOOLEAN, seen : Int] /\ aside' \in Nat
      BY <1>10 DEF SetReservedCount, TripTypeOK, NotReading
    <2> QED BY <1>10, <2>1 DEF SetReservedCount, TripTypeOK, rows
  <1>11. CASE CloseTrip
    <2>1. trip' \in [scheme : {"seats", "count"}, open : BOOLEAN]
      BY <1>11 DEF CloseTrip, TripTypeOK
    <2> QED BY <1>11, <2>1 DEF CloseTrip, TripTypeOK, capacity, rows
  <1>12. CASE UNCHANGED tripVars
    BY <1>12 DEF tripVars, TripTypeOK
  <1> QED BY <1>1, <1>2, <1>3, <1>4, <1>5, <1>6, <1>7, <1>8, <1>9, <1>10, <1>11, <1>12
      DEF TripNext, Sweep

---------------------------------------------------------------------------
\* The rows follow the requests, and the finalizers the sale row.

RowsTyped ==
    /\ booking \in [Bookings -> Booking] /\ sale \in [Bookings -> Sale]
    /\ step \in [Bookings -> Steps] /\ lapsed \in SUBSET Bookings
    /\ pay \in [Bookings -> {"none", "open", "approved", "short", "declined"}]
    /\ job \in [Finalizers -> Jobs]

Rules == RowsAgree /\ JobsAgree /\ OneCanceller /\ InTime

LEMMA TripInitInv == TripInit => TripInv
  <1> SUFFICES ASSUME TripInit PROVE TripInv
    OBVIOUS
  <1>1. TripTypeOK
    <2>1. /\ trip \in [scheme : {"seats", "count"}, open : BOOLEAN]
          /\ seat \in [Seats -> [by : Bookings \cup {NoBooking}, reserved : BOOLEAN]]
          /\ sold \in Int /\ aside \in Nat /\ lapsed \in SUBSET Bookings
      <3>1. trip \in [scheme : {"seats", "count"}, open : BOOLEAN]
        BY DEF TripInit
      <3>2. FreeSeat \in [by : Bookings \cup {NoBooking}, reserved : BOOLEAN]
        BY DEF FreeSeat
      <3> QED BY <3>1, <3>2 DEF TripInit
    <2>2. counter \in [reading : BOOLEAN, seen : Int] /\ crashes \in 0..MaxCrashes
      BY TripAssumption DEF TripInit, NotReading
    <2>3. job \in [Finalizers -> Jobs]
      BY DEF TripInit, Jobs
    <2> QED BY <2>1, <2>2, <2>3 DEF TripInit, TripTypeOK, Steps
  <1>2. RowsAgree
    BY DEF TripInit, RowsAgree, RowsOf, MoneyOf, Seated
  <1>3. JobsAgree /\ OneCanceller /\ InTime
    BY DEF TripInit, JobsAgree, JobOf, AtWork, OneCanceller, Cancels, InTime, IdleJob
  <1> QED BY <1>1, <1>2, <1>3 DEF TripInv

LEMMA SellRules ==
    ASSUME RowsTyped, Rules, NEW b \in Bookings, Sell(b)
    PROVE  Rules'
  <1>1. ASSUME LoadTrip(b) PROVE Rules'
    <2>1. RowsAgree'
      BY <1>1 DEF LoadTrip, RowsTyped, Rules, StepTo, Booking, Sale, rows, RowsAgree, RowsOf, MoneyOf, Seated
    <2>2. JobsAgree' /\ OneCanceller' /\ InTime'
      BY <1>1 DEF LoadTrip, RowsTyped, Rules, StepTo, Booking, Sale, rows, RowsAgree, RowsOf, MoneyOf, Seated, JobsAgree, JobOf, AtWork, JobAt, OneCanceller, Cancels, InTime
    <2> QED BY <2>1, <2>2 DEF Rules
  <1>2. ASSUME NEW s \in Seats \cup {NoSeat}, ClaimSeat(b, s) PROVE Rules'
    <2>1. RowsAgree'
      BY <1>2 DEF ClaimSeat, RowsTyped, Rules, StepTo, Booking, Sale, rows, RowsAgree, RowsOf, MoneyOf, Seated
    <2>2. JobsAgree' /\ OneCanceller' /\ InTime'
      BY <1>2 DEF ClaimSeat, RowsTyped, Rules, StepTo, Booking, Sale, rows, RowsAgree, RowsOf, MoneyOf, Seated, JobsAgree, JobOf, AtWork, JobAt, OneCanceller, Cancels, InTime
    <2> QED BY <2>1, <2>2 DEF Rules
  <1>3. ASSUME SeatRefused(b) PROVE Rules'
    <2>1. RowsAgree'
      BY <1>3 DEF SeatRefused, RowsTyped, Rules, StepTo, Booking, Sale, rows, RowsAgree, RowsOf, MoneyOf, Seated
    <2>2. JobsAgree' /\ OneCanceller' /\ InTime'
      BY <1>3 DEF SeatRefused, RowsTyped, Rules, StepTo, Booking, Sale, rows, RowsAgree, RowsOf, MoneyOf, Seated, JobsAgree, JobOf, AtWork, JobAt, OneCanceller, Cancels, InTime
    <2> QED BY <2>1, <2>2 DEF Rules
  <1>4. ASSUME Recheck(b) PROVE Rules'
    <2>1. RowsAgree'
      BY <1>4 DEF Recheck, RowsTyped, Rules, StepTo, Booking, Sale, rows, RowsAgree, RowsOf, MoneyOf, Seated
    <2>2. JobsAgree' /\ OneCanceller' /\ InTime'
      BY <1>4 DEF Recheck, RowsTyped, Rules, StepTo, Booking, Sale, rows, RowsAgree, RowsOf, MoneyOf, Seated, JobsAgree, JobOf, AtWork, JobAt, OneCanceller, Cancels, InTime
    <2> QED BY <2>1, <2>2 DEF Rules
  <1>5. ASSUME SaveRows(b) PROVE Rules'
    <2>1. RowsAgree'
      BY <1>5 DEF SaveRows, RowsTyped, Rules, StepTo, Booking, Sale, rows, RowsAgree, RowsOf, MoneyOf, Seated
    <2>2. JobsAgree' /\ OneCanceller' /\ InTime'
      BY <1>5 DEF SaveRows, RowsTyped, Rules, StepTo, Booking, Sale, rows, RowsAgree, RowsOf, MoneyOf, Seated, JobsAgree, JobOf, AtWork, JobAt, OneCanceller, Cancels, InTime
    <2> QED BY <2>1, <2>2 DEF Rules
  <1>6. ASSUME SaveRowsFails(b) PROVE Rules'
    <2>1. RowsAgree'
      BY <1>6 DEF SaveRowsFails, RowsTyped, Rules, StepTo, Booking, Sale, rows, RowsAgree, RowsOf, MoneyOf, Seated
    <2>2. /\ \A f \in Finalizers : ~AtWork(f, b) /\ job'[f] = job[f]
          /\ lapsed' = lapsed /\ step'[b] # "asking"
          /\ \A x \in Bookings \ {b} :
                sale'[x] = sale[x] /\ booking'[x] = booking[x] /\ step'[x] = step[x]
          /\ pay' = pay
      BY <1>6 DEF SaveRowsFails, RowsTyped, Rules, StepTo, rows, RowsAgree, RowsOf, JobsAgree, JobOf
    <2>3. JobsAgree' /\ OneCanceller' /\ InTime'
      BY <2>2 DEF Rules, JobsAgree, JobOf, AtWork, JobAt, OneCanceller, Cancels, InTime
    <2> QED BY <2>1, <2>3 DEF Rules
  <1>7. ASSUME ProviderAccepts(b) PROVE Rules'
    <2>1. RowsAgree'
      BY <1>7 DEF ProviderAccepts, RowsTyped, Rules, StepTo, Booking, Sale, rows, RowsAgree, RowsOf, MoneyOf, Seated
    <2>2. JobsAgree' /\ OneCanceller' /\ InTime'
      BY <1>7 DEF ProviderAccepts, RowsTyped, Rules, StepTo, Booking, Sale, rows, RowsAgree, RowsOf, MoneyOf, Seated, JobsAgree, JobOf, AtWork, JobAt, OneCanceller, Cancels, InTime
    <2> QED BY <2>1, <2>2 DEF Rules
  <1>8. ASSUME ProviderFails(b) PROVE Rules'
    <2>1. RowsAgree'
      BY <1>8 DEF ProviderFails, RowsTyped, Rules, StepTo, Booking, Sale, rows, RowsAgree, RowsOf, MoneyOf, Seated
    <2>2. JobsAgree' /\ OneCanceller' /\ InTime'
      BY <1>8 DEF ProviderFails, RowsTyped, Rules, StepTo, Booking, Sale, rows, RowsAgree, RowsOf, MoneyOf, Seated, JobsAgree, JobOf, AtWork, JobAt, OneCanceller, Cancels, InTime
    <2> QED BY <2>1, <2>2 DEF Rules
  <1>9. ASSUME StartCharge(b) PROVE Rules'
    <2>1. RowsAgree'
      BY <1>9 DEF StartCharge, RowsTyped, Rules, StepTo, Booking, Sale, rows, RowsAgree, RowsOf, MoneyOf, Seated
    <2>2. JobsAgree' /\ OneCanceller' /\ InTime'
      BY <1>9 DEF StartCharge, RowsTyped, Rules, StepTo, Booking, Sale, rows, RowsAgree, RowsOf, MoneyOf, Seated, JobsAgree, JobOf, AtWork, JobAt, OneCanceller, Cancels, InTime
    <2> QED BY <2>1, <2>2 DEF Rules
  <1>10. ASSUME Charge(b) PROVE Rules'
    <2>1. RowsAgree'
      BY <1>10 DEF Charge, RowsTyped, Rules, StepTo, Booking, Sale, rows, RowsAgree, RowsOf, MoneyOf, Seated
    <2>2. JobsAgree' /\ OneCanceller' /\ InTime'
      BY <1>10 DEF Charge, RowsTyped, Rules, StepTo, Booking, Sale, rows, RowsAgree, RowsOf, MoneyOf, Seated, JobsAgree, JobOf, AtWork, JobAt, OneCanceller, Cancels, InTime
    <2> QED BY <2>1, <2>2 DEF Rules
  <1>11. ASSUME SavePaid(b) PROVE Rules'
    <2>1. RowsAgree'
      BY <1>11 DEF SavePaid, RowsTyped, Rules, StepTo, Booking, Sale, rows, RowsAgree, RowsOf, MoneyOf, Seated
    <2>2. JobsAgree' /\ OneCanceller' /\ InTime'
      BY <1>11 DEF SavePaid, RowsTyped, Rules, StepTo, Booking, Sale, rows, RowsAgree, RowsOf, MoneyOf, Seated, JobsAgree, JobOf, AtWork, JobAt, OneCanceller, Cancels, InTime
    <2> QED BY <2>1, <2>2 DEF Rules
  <1>12. ASSUME SavePaidFails(b) PROVE Rules'
    <2>1. RowsAgree'
      BY <1>12 DEF SavePaidFails, RowsTyped, Rules, StepTo, Booking, Sale, rows, RowsAgree, RowsOf, MoneyOf, Seated
    <2>2. JobsAgree' /\ OneCanceller' /\ InTime'
      BY <1>12 DEF SavePaidFails, RowsTyped, Rules, StepTo, Booking, Sale, rows, RowsAgree, RowsOf, MoneyOf, Seated, JobsAgree, JobOf, AtWork, JobAt, OneCanceller, Cancels, InTime
    <2> QED BY <2>1, <2>2 DEF Rules
  <1> QED BY <1>1, <1>2, <1>3, <1>4, <1>5, <1>6, <1>7, <1>8, <1>9, <1>10, <1>11, <1>12 DEF Sell

\* A finalizer moves on with the booking it is on, or is done with it.
LEMMA Moves ==
    ASSUME RowsTyped, NEW f \in Finalizers, job[f] \in Asked, NEW to \in JobSteps,
           GoOn(f, [job[f] EXCEPT !.at = to])
    PROVE  /\ job'[f].at = to /\ job'[f].b = job[f].b /\ job'[f] # IdleJob
           /\ \A g \in Finalizers \ {f} : job'[g] = job[g]
  BY DEF RowsTyped, GoOn, Asked, IdleJob, JobSteps

LEMMA Stops ==
    ASSUME RowsTyped, NEW f \in Finalizers, GoOn(f, IdleJob)
    PROVE  /\ job'[f] = IdleJob /\ job'[f].at = "idle"
           /\ \A g \in Finalizers \ {f} : job'[g] = job[g]
  BY DEF RowsTyped, GoOn, IdleJob

\* The rows as they are written, one booking at a time.
SaleSet(b, st) ==
    /\ sale'[b].status = st /\ sale'[b].ref = sale[b].ref
    /\ \A x \in Bookings \ {b} : sale'[x] = sale[x]
BookingSet(b, st) ==
    /\ booking'[b].status = st /\ booking'[b].seat = booking[b].seat
    /\ \A x \in Bookings \ {b} : booking'[x] = booking[x]

LEMMA Writes ==
    ASSUME RowsTyped, NEW b \in Bookings
    PROVE  /\ \A st \in {"completed", "failed"} :
                 sale' = [sale EXCEPT ![b].status = st] => SaleSet(b, st)
           /\ \A st \in {"confirmed", "cancelled", "boarded"} :
                 booking' = [booking EXCEPT ![b].status = st] => BookingSet(b, st)
  BY DEF RowsTyped, SaleSet, BookingSet, Booking, Sale

\* A finalizer that gives up, or has done its last write, leaves the rules as
\* they are.
LEMMA StopKeepsRules ==
    ASSUME RowsTyped, Rules, NEW f \in Finalizers, GoOn(f, IdleJob),
           UNCHANGED <<rows, lapsed, pay, step>>
    PROVE  Rules'
  <1>1. RowsAgree'
    BY DEF Rules, rows, RowsAgree, RowsOf, MoneyOf, Seated
  <1>2. JobsAgree' /\ OneCanceller' /\ InTime'
    BY Stops DEF Rules, rows, JobsAgree, JobOf, AtWork, JobAt, OneCanceller, Cancels, InTime
  <1> QED BY <1>1, <1>2 DEF Rules

LEMMA FinalizeRules ==
    ASSUME RowsTyped, Rules, NEW f \in Finalizers, FinalizeStep(f)
    PROVE  Rules'
  <1> DEFINE b == job[f].b
  <1>0. job[f] \in Asked /\ b \in Bookings /\ AtWork(f, b) /\ JobOf(f, b) /\ UNCHANGED <<lapsed, pay, step>>
    <2>1. job[f].at \in JobSteps /\ UNCHANGED <<lapsed, pay, step>>
      BY DEF FinalizeStep, CompleteSale, FailSale, ConfirmBooking, CancelBooking,
             ReleaseSeat, Arbitrate, JobAt, JobSteps
    <2>2. job[f] \in Asked /\ job[f] # IdleJob
      BY <2>1 DEF RowsTyped, Jobs, Asked, IdleJob, JobSteps
    <2> QED BY <2>1, <2>2 DEF Asked, AtWork, Rules, JobsAgree
  <1>g. GoOn(f, IdleJob) /\ UNCHANGED rows => Rules'
    BY <1>0, StopKeepsRules
  <1>1. ASSUME CompleteSale(f) PROVE Rules'
    <2>1. CASE sale[b].status = "pending"
      <3>1. SaleSet(b, "completed") /\ booking' = booking
        BY <1>1, <1>0, <2>1, Writes DEF CompleteSale, Arbitrate
      <3>2. /\ job'[f].at = "confirm" /\ job'[f].b = b /\ job'[f] # IdleJob
            /\ \A g \in Finalizers \ {f} : job'[g] = job[g]
        BY <1>1, <1>0, <2>1, Moves DEF CompleteSale, Arbitrate, JobSteps
      <3>3. sale[b].ref /\ pay[b] = "approved"
        BY <1>1, <1>0 DEF CompleteSale, JobOf
      <3> HIDE DEF b
      <3>4. RowsAgree'
        BY <1>0, <2>1, <3>1, <3>3 DEF Rules, SaleSet, RowsAgree, RowsOf, MoneyOf, Seated
      <3>5. JobsAgree' /\ OneCanceller' /\ InTime'
        BY <1>0, <2>1, <3>1, <3>2 DEF Rules, SaleSet, JobsAgree, JobOf, AtWork, JobAt, OneCanceller, Cancels, InTime
      <3> QED BY <3>4, <3>5 DEF Rules
    <2>2. CASE sale[b].status # "pending"
      BY <1>1, <2>2, <1>g DEF CompleteSale, Arbitrate, rows
    <2> QED BY <2>1, <2>2
  <1>2. ASSUME FailSale(f) PROVE Rules'
    <2>1. CASE sale[b].status = "pending"
      <3>1. SaleSet(b, "failed") /\ booking' = booking
        BY <1>2, <1>0, <2>1, Writes DEF FailSale, Arbitrate
      <3>2. /\ job'[f].at = "cancel" /\ job'[f].b = b /\ job'[f] # IdleJob
            /\ \A g \in Finalizers \ {f} : job'[g] = job[g]
        BY <1>2, <1>0, <2>1, Moves DEF FailSale, Arbitrate, JobSteps
      <3> HIDE DEF b
      <3>4. RowsAgree'
        BY <1>0, <2>1, <3>1 DEF Rules, SaleSet, RowsAgree, RowsOf, MoneyOf, Seated
      <3>5. \A g \in Finalizers : AtWork(g, b) => ~Cancels(g)
        BY <1>0, <2>1 DEF Rules, JobsAgree, JobOf, JobAt, Cancels
      <3>6. JobsAgree'
        BY <1>0, <2>1, <3>1, <3>2, <3>5 DEF Rules, SaleSet, JobsAgree, JobOf, AtWork, JobAt, OneCanceller, Cancels, InTime
      <3>7. OneCanceller'
        BY <1>0, <3>2, <3>5 DEF Rules, OneCanceller, Cancels, AtWork, IdleJob
      <3>8. InTime'
        BY <1>0, <2>1, <3>1, <3>2 DEF Rules, SaleSet, InTime, AtWork
      <3> QED BY <3>4, <3>6, <3>7, <3>8 DEF Rules
    <2>2. CASE sale[b].status # "pending"
      BY <1>2, <2>2, <1>g DEF FailSale, Arbitrate, rows
    <2> QED BY <2>1, <2>2
  <1>3. ASSUME ConfirmBooking(f) PROVE Rules'
    <2>1. BookingSet(b, "confirmed") /\ sale' = sale
      BY <1>3, <1>0, Writes DEF ConfirmBooking
    <2>2. /\ job'[f] = IdleJob /\ job'[f].at = "idle"
          /\ \A g \in Finalizers \ {f} : job'[g] = job[g]
      BY <1>3, Stops DEF ConfirmBooking
    <2>3. sale[b].status = "completed"
      BY <1>3, <1>0 DEF ConfirmBooking, JobOf
    <2> HIDE DEF b
    <2>4. RowsAgree'
      BY <1>0, <2>1, <2>3 DEF Rules, BookingSet, RowsAgree, RowsOf, MoneyOf, Seated
    <2>5. JobsAgree' /\ OneCanceller' /\ InTime'
      BY <1>0, <2>1, <2>2, <2>3 DEF Rules, BookingSet, JobsAgree, JobOf, AtWork, JobAt, OneCanceller, Cancels, InTime
    <2> QED BY <2>4, <2>5 DEF Rules
  <1>4. ASSUME CancelBooking(f) PROVE Rules'
    <2>1. CASE booking[b].status = "pending"
      <3>1. BookingSet(b, "cancelled") /\ sale' = sale
        BY <1>4, <1>0, <2>1, Writes DEF CancelBooking
      <3>2. /\ job'[f].at = "release" /\ job'[f].b = b /\ job'[f] # IdleJob
            /\ \A g \in Finalizers \ {f} : job'[g] = job[g]
        BY <1>4, <1>0, <2>1, Moves DEF CancelBooking, JobSteps
      <3>3. sale[b].status = "failed" /\ Cancels(f)
        BY <1>4, <1>0 DEF CancelBooking, JobOf, JobAt, Cancels
      <3> HIDE DEF b
      <3>4. RowsAgree'
        BY <1>0, <2>1, <3>1, <3>3 DEF Rules, BookingSet, RowsAgree, RowsOf, MoneyOf, Seated
      <3>5. JobsAgree'
        BY <1>0, <3>1, <3>2, <3>3 DEF Rules, BookingSet, JobsAgree, JobOf, AtWork, JobAt
      <3>6. OneCanceller'
        BY <1>0, <3>2, <3>3 DEF Rules, OneCanceller, Cancels, AtWork
      <3>7. InTime'
        BY <1>0, <3>1, <3>2 DEF Rules, BookingSet, InTime, AtWork
      <3> QED BY <3>4, <3>5, <3>6, <3>7 DEF Rules
    <2>2. CASE booking[b].status # "pending"
      BY <1>4, <2>2, <1>g DEF CancelBooking, rows
    <2> QED BY <2>1, <2>2
  <1>5. ASSUME ReleaseSeat(f) PROVE Rules'
    BY <1>5, <1>g DEF ReleaseSeat
  <1> QED BY <1>1, <1>2, <1>3, <1>4, <1>5 DEF FinalizeStep

\* A step that starts a finalizer, or changes one lapse, one payment or the
\* boarding of one passenger.
LEMMA OtherRules ==
    ASSUME RowsTyped, Rules
    PROVE  /\ \A b \in Bookings : Lapse(b) \/ BoardBus(b) => Rules'
           /\ \A b \in Bookings, how \in {"approved", "short", "declined"} :
                 ProviderSettles(b, how) => Rules'
           /\ \A f \in Finalizers, b \in Bookings, sweep \in BOOLEAN :
                 StartFinalize(f, b, sweep) => Rules'
           /\ \A f \in Finalizers : CrashFinalizer(f) => Rules'
           /\ UNCHANGED <<rows, lapsed, pay, step, job>> => Rules'
  <1>1. ASSUME NEW b \in Bookings, Lapse(b) PROVE Rules'
    BY <1>1 DEF Lapse, Rules, rows, RowsTyped, RowsAgree, RowsOf, MoneyOf, Seated, JobsAgree, JobOf, AtWork, JobAt, OneCanceller, Cancels, InTime
  <1>2. ASSUME NEW b \in Bookings, BoardBus(b) PROVE Rules'
    <2>1. BookingSet(b, "boarded") /\ booking[b].status = "confirmed"
      BY <1>2, Writes DEF BoardBus
    <2>2. UNCHANGED <<sale, lapsed, pay, step, job>>
      BY <1>2 DEF BoardBus
    <2>3. RowsAgree'
      BY <2>1, <2>2 DEF Rules, BookingSet, RowsAgree, RowsOf, MoneyOf, Seated
    <2>4. JobsAgree' /\ OneCanceller' /\ InTime'
      BY <2>1, <2>2 DEF Rules, BookingSet, JobsAgree, JobOf, AtWork, JobAt, OneCanceller, Cancels, InTime
    <2> QED BY <2>3, <2>4 DEF Rules
  <1>3. ASSUME NEW b \in Bookings, NEW how \in {"approved", "short", "declined"},
               ProviderSettles(b, how)
        PROVE  Rules'
    <2>1. RowsAgree'
      BY <1>3 DEF ProviderSettles, Rules, rows, RowsTyped, RowsAgree, RowsOf, MoneyOf, Seated
    <2>2. JobsAgree' /\ OneCanceller' /\ InTime'
      BY <1>3 DEF ProviderSettles, Rules, rows, RowsTyped, JobsAgree, JobOf, AtWork, JobAt, OneCanceller, Cancels, InTime
    <2> QED BY <2>1, <2>2 DEF Rules
  <1>4. ASSUME NEW f \in Finalizers, NEW b \in Bookings, NEW sweep \in BOOLEAN,
               StartFinalize(f, b, sweep)
        PROVE  Rules'
    <2>1. /\ job'[f] = [at |-> Verdict(b, sweep), b |-> b]
          /\ \A g \in Finalizers \ {f} : job'[g] = job[g]
      BY <1>4 DEF StartFinalize, GoOn, RowsTyped
    <2>2. /\ UNCHANGED <<rows, lapsed, pay, step>> /\ sale[b].status = "pending"
          /\ b \in lapsed \/ sale[b].ref
      BY <1>4 DEF StartFinalize
    <2>3. /\ job'[f].at \in {"complete", "fail"} /\ job'[f].b = b
          /\ job'[f].at = "complete" => sale[b].ref /\ pay[b] = "approved"
      BY <1>4, <2>1, VerdictSays DEF StartFinalize
    <2>4. step[b] \in {"asking", "done"} /\ (step[b] = "asking" => SlowProvider \/ b \notin lapsed)
          /\ (sale[b].ref => step[b] = "done")
      BY <2>2 DEF Rules, RowsAgree, RowsOf, InTime
    <2>5. RowsAgree'
      BY <2>2 DEF Rules, rows, RowsAgree, RowsOf, MoneyOf, Seated
    <2>6. JobsAgree' /\ OneCanceller'
      BY <2>1, <2>2, <2>3 DEF Rules, rows, JobsAgree, JobOf, AtWork, JobAt, OneCanceller, Cancels
    <2>7. InTime'
      BY <2>1, <2>2, <2>3, <2>4 DEF Rules, rows, InTime, AtWork
    <2> QED BY <2>5, <2>6, <2>7 DEF Rules
  <1>5. ASSUME NEW f \in Finalizers, CrashFinalizer(f) PROVE Rules'
    BY <1>5, StopKeepsRules DEF CrashFinalizer
  <1>6. ASSUME UNCHANGED <<rows, lapsed, pay, step, job>> PROVE Rules'
    BY <1>6 DEF Rules, rows, RowsAgree, RowsOf, MoneyOf, Seated, JobsAgree, JobOf, AtWork, JobAt, OneCanceller, Cancels, InTime
  <1> QED BY <1>1, <1>2, <1>3, <1>4, <1>5, <1>6

LEMMA TripStepInv == TripInv /\ [TripNext]_tripVars => TripInv'
  <1> SUFFICES ASSUME TripInv, [TripNext]_tripVars PROVE TripInv'
    OBVIOUS
  <1>1. TripTypeOK'
    BY TripTypeStep DEF TripInv
  <1>2. RowsTyped /\ Rules
    BY RowTypes DEF TripInv, TripTypeOK, RowsTyped, Rules
  <1>3. Rules'
    <2>1. ASSUME NEW b \in Bookings, Sell(b) PROVE Rules'
      BY <1>2, <2>1, SellRules
    <2>2. ASSUME NEW f \in Finalizers, FinalizeStep(f) PROVE Rules'
      BY <1>2, <2>2, FinalizeRules
    <2>3. ASSUME NEW s \in Seats, ReserveSeat(s) \/ FreeReserved(s) PROVE Rules'
      BY <1>2, <2>3, OtherRules DEF ReserveSeat, FreeReserved
    <2>4. CASE ReadSold \/ (\E n \in 0..Capacity : SetReservedCount(n)) \/ CloseTrip
      BY <1>2, <2>4, OtherRules DEF ReadSold, SetReservedCount, CloseTrip
    <2>5. CASE UNCHANGED tripVars
      BY <1>2, <2>5, OtherRules DEF tripVars, rows
    <2> QED BY <1>2, <2>1, <2>2, <2>3, <2>4, <2>5, OtherRules DEF TripNext, Sweep
  <1> QED BY <1>1, <1>3 DEF TripInv, Rules

\* Every step of a request, a finalizer, the sweep or the operator keeps the
\* invariant (transport/booking.service.ts, transport/trip.service.ts).
THEOREM TripInvariant == TripSpec => []TripInv
  BY TripInitInv, TripStepInv, PTL DEF TripSpec

\* Every row, request and finalizer keeps its type (models/transport).
THEOREM TripTypeCorrect == TripSpec => []TripTypeOK
  <1>1. TripInv => TripTypeOK
    BY DEF TripInv
  <1> QED BY TripInvariant, <1>1, PTL

\* The arbiter is the sale's status: who completes it confirms the booking, and
\* nobody cancels a booking whose sale is paid (finalizeMomoBooking).
THEOREM PaidBookingStays == TripSpec => []PaidKeepsBooking
  <1>1. TripInv => PaidKeepsBooking
    BY DEF TripInv, RowsAgree, MoneyOf, PaidKeepsBooking, Seated
  <1> QED BY TripInvariant, <1>1, PTL

---------------------------------------------------------------------------
\* Trips with a seat map: nobody takes the row of a seat that a booking keeps.

LEMMA SchemeStays ==
    ASSUME TripTypeOK, [TripNext]_tripVars
    PROVE  trip'.scheme = trip.scheme
  <1>1. trip' = trip \/ CloseTrip
    BY DEF TripNext, Sell, LoadTrip, ClaimSeat, SeatRefused, Recheck, SaveRows, SaveRowsFails,
           ProviderAccepts, ProviderFails, StartCharge, Charge, SavePaid, SavePaidFails,
           Lapse, BoardBus, ProviderSettles, Sweep, StartFinalize, FinalizeStep, CompleteSale,
           FailSale, ConfirmBooking, CancelBooking, ReleaseSeat, Arbitrate, CrashFinalizer,
           ReserveSeat, FreeReserved, ReadSold, SetReservedCount, tripVars
  <1> QED BY <1>1 DEF CloseTrip, TripTypeOK

SeatOf(x) == booking[x].seat \in Seats /\ seat[booking[x].seat].by = x

\* The claim of a free row, or the release of one's own, is not a row that
\* another booking keeps.
LEMMA ClaimSpares ==
    ASSUME TripTypeOK, Mapped, NEW b \in Bookings, NEW s \in Seats, ClaimCapacity(b, s)
    PROVE  /\ seat'[s].by = b
           /\ \A x \in Bookings : SeatOf(x) => seat'[booking[x].seat].by = x
  <1>1. /\ seat' = [seat EXCEPT ![s] = [by |-> b, reserved |-> FALSE]]
        /\ seat[s].by = NoBooking
    BY DEF ClaimCapacity, Book, FreeSeat
  <1>2. seat \in [Seats -> SeatRow]
    BY DEF TripTypeOK, SeatRow
  <1> QED BY <1>1, <1>2, TripAssumption DEF SeatOf

LEMMA ReleaseSpares ==
    ASSUME TripTypeOK, Mapped, NEW b \in Bookings, NEW s, ReleaseClaim(b, s)
    PROVE  \A x \in Bookings \ {b} : SeatOf(x) => seat'[booking[x].seat].by = x
  BY DEF TripTypeOK, ReleaseClaim, SeatOf

\* A step that leaves a booking that keeps its seat the seat, and its row.
LEMMA SparedKeeps ==
    ASSUME SeatsKept, Mapped, Mapped',
           \A x \in Bookings : KeepsSeat(x)' => KeepsSeat(x) /\ booking'[x].seat = booking[x].seat,
           \A x \in Bookings : KeepsSeat(x)' /\ SeatOf(x) => seat'[booking[x].seat].by = x
    PROVE  SeatsKept'
  BY DEF SeatsKept, SeatOf

LEMMA SellSpares ==
    ASSUME TripInv, SeatsKept, NEW b \in Bookings, Sell(b), trip'.scheme = trip.scheme
    PROVE  SeatsKept'
  <1>0. RowsTyped /\ Rules
    BY RowTypes DEF TripInv, TripTypeOK, RowsTyped, Rules
  <1>m. Mapped' <=> Mapped
    BY DEF Mapped
  <1>o. /\ \A x \in Bookings \ {b} : step'[x] = step[x] /\ booking'[x] = booking[x]
        /\ step'[b] = "taken" => Mapped
    BY <1>0 DEF RowsTyped, Booking, StepTo, Sell, LoadTrip, ClaimSeat, SeatRefused, Recheck,
           SaveRows, SaveRowsFails, ProviderAccepts, ProviderFails, StartCharge, Charge,
           SavePaid, SavePaidFails, rows
  <1>t. \A x \in Bookings : step'[x] = "taken" => Mapped'
    BY <1>o, <1>m DEF SeatsKept
  <1>1. CASE ~Mapped
    BY <1>1, <1>m, <1>t DEF SeatsKept
  <1>2. CASE Mapped
    <2>1. ASSUME NEW s \in Seats \cup {NoSeat}, ClaimSeat(b, s) PROVE SeatsKept'
      <3>1. s \in Seats /\ ClaimCapacity(b, s)
        BY <1>2, <2>1 DEF ClaimSeat
      <3>2. /\ seat'[s].by = b
            /\ \A x \in Bookings : SeatOf(x) => seat'[booking[x].seat].by = x
        BY <1>2, <3>1, ClaimSpares DEF TripInv
      <3>3. booking'[b].seat = s
        BY <1>0, <2>1 DEF ClaimSeat, RowsTyped, Booking
      <3>4. \A x \in Bookings \ {b} : KeepsSeat(x)' => KeepsSeat(x) /\ SeatOf(x)
        BY <1>o, <1>2 DEF SeatsKept, KeepsSeat, SeatOf
      <3> QED BY <1>m, <1>o, <1>t, <3>1, <3>2, <3>3, <3>4 DEF SeatsKept, SeatOf
    <2>2. ASSUME ReleaseClaim(b, booking[b].seat), ~KeepsSeat(b)' PROVE SeatsKept'
      <3>1. \A x \in Bookings \ {b} : SeatOf(x) => seat'[booking[x].seat].by = x
        BY <1>2, <2>2, ReleaseSpares DEF TripInv
      <3>2. \A x \in Bookings : KeepsSeat(x)' => x # b /\ KeepsSeat(x) /\ booking'[x].seat = booking[x].seat
        BY <1>o, <2>2 DEF KeepsSeat
      <3> QED BY <1>2, <1>m, <3>1, <3>2, SparedKeeps
    <2>3. ASSUME seat' = seat, KeepsSeat(b)' => KeepsSeat(b), booking'[b].seat = booking[b].seat
          PROVE  SeatsKept'
      <3>1. \A x \in Bookings : KeepsSeat(x)' => KeepsSeat(x) /\ booking'[x].seat = booking[x].seat
        BY <1>o, <2>3 DEF KeepsSeat
      <3>2. \A x \in Bookings : SeatOf(x) => seat'[booking[x].seat].by = x
        BY <2>3 DEF SeatOf
      <3> QED BY <1>2, <1>m, <3>1, <3>2, SparedKeeps
    <2>4. ASSUME Recheck(b) \/ SaveRowsFails(b) \/ ProviderFails(b) \/ Charge(b) PROVE SeatsKept'
      <3>1. \/ ReleaseClaim(b, booking[b].seat) /\ ~KeepsSeat(b)'
            \/ seat' = seat /\ KeepsSeat(b) /\ booking' = booking
        BY <1>0, <2>4 DEF Recheck, SaveRowsFails, ProviderFails, Charge, StepTo, KeepsSeat, Unsaved,
                  Seated, RowsTyped, Rules, RowsAgree, RowsOf, Booking, rows, capacity
      <3> QED BY <3>1, <2>2, <2>3
    <2>5. ASSUME \/ LoadTrip(b) \/ SeatRefused(b) \/ SaveRows(b) \/ ProviderAccepts(b)
                 \/ StartCharge(b) \/ SavePaid(b) \/ SavePaidFails(b)
          PROVE  SeatsKept'
      <3>1. seat' = seat /\ booking'[b].seat = booking[b].seat
        BY <1>0, <2>5 DEF LoadTrip, SeatRefused, SaveRows, ProviderAccepts, StartCharge, SavePaid,
               SavePaidFails, RowsTyped, Booking, rows, capacity
      <3>2. KeepsSeat(b)' => KeepsSeat(b)
        BY <1>0, <2>5 DEF LoadTrip, SeatRefused, SaveRows, ProviderAccepts, StartCharge, SavePaid,
               SavePaidFails, StepTo, KeepsSeat, Unsaved, Seated, RowsTyped, Booking, rows
      <3> QED BY <3>1, <3>2, <2>3
    <2> QED BY <2>1, <2>4, <2>5 DEF Sell
  <1> QED BY <1>1, <1>2

LEMMA SeatsStep == TripInv /\ SeatsKept /\ [TripNext]_tripVars => SeatsKept'
  <1> SUFFICES ASSUME TripInv, SeatsKept, [TripNext]_tripVars PROVE SeatsKept'
    OBVIOUS
  <1>s. trip'.scheme = trip.scheme
    BY SchemeStays DEF TripInv
  <1>m. Mapped' <=> Mapped
    BY <1>s DEF Mapped
  <1>0. RowsTyped /\ Rules /\ SeatsKept
    BY RowTypes DEF TripInv, TripTypeOK, RowsTyped, Rules
  <1>1. ASSUME NEW b \in Bookings, Sell(b) PROVE SeatsKept'
    BY <1>1, <1>s, SellSpares
  <1>2. ASSUME UNCHANGED <<seat, step>>,
               \A x \in Bookings : /\ booking'[x].seat = booking[x].seat
                                   /\ KeepsSeat(x)' => KeepsSeat(x)
        PROVE  SeatsKept'
    <2>1. CASE Mapped
      <3>1. \A x \in Bookings : SeatOf(x) => seat'[booking[x].seat].by = x
        BY <1>2 DEF SeatOf
      <3> QED BY <1>2, <1>m, <2>1, <3>1, SparedKeeps
    <2>2. CASE ~Mapped
      BY <1>2, <1>m, <2>2 DEF SeatsKept
    <2> QED BY <2>1, <2>2
  <1>3. ASSUME UNCHANGED <<seat, step, booking>> PROVE SeatsKept'
    BY <1>2, <1>3 DEF KeepsSeat
  <1>4. ASSUME NEW b \in Bookings, BoardBus(b) PROVE SeatsKept'
    <2>1. BookingSet(b, "boarded") /\ booking[b].status = "confirmed" /\ UNCHANGED <<seat, step>>
      BY <1>4, <1>0, Writes DEF BoardBus, capacity
    <2> QED BY <1>2, <2>1 DEF BookingSet, KeepsSeat, Seated
  <1>5. ASSUME NEW f \in Finalizers, FinalizeStep(f) PROVE SeatsKept'
    <2>1. CASE ReleaseSeat(f)
      <3> DEFINE b == job[f].b
      <3>1. ReleaseClaim(b, booking[b].seat) /\ UNCHANGED <<booking, step>>
        BY <2>1 DEF ReleaseSeat, rows
      <3>2. b \in Bookings /\ booking[b].status = "cancelled" /\ sale[b].status = "failed"
        <4>1. job[f] \in Asked /\ AtWork(f, b) /\ b \in Bookings
          BY <1>0, <2>1 DEF ReleaseSeat, JobAt, RowsTyped, Jobs, Asked, AtWork, IdleJob
        <4> QED BY <4>1, <2>1, <1>0 DEF ReleaseSeat, Rules, JobsAgree, JobOf
      <3>3. ~KeepsSeat(b)
        BY <3>2, <1>0 DEF KeepsSeat, Unsaved, Seated, Rules, RowsAgree, RowsOf
      <3> HIDE DEF b
      <3>4. CASE Mapped
        <4>1. \A x \in Bookings \ {b} : SeatOf(x) => seat'[booking[x].seat].by = x
          BY <3>1, <3>2, <3>4, ReleaseSpares DEF TripInv
        <4>2. \A x \in Bookings : KeepsSeat(x)' => x # b /\ KeepsSeat(x) /\ booking'[x].seat = booking[x].seat
          BY <3>1, <3>3 DEF KeepsSeat
        <4> QED BY <3>4, <1>m, <4>1, <4>2, SparedKeeps
      <3>5. CASE ~Mapped
        BY <3>1, <3>5, <1>m DEF SeatsKept
      <3> QED BY <3>4, <3>5
    <2>2. CASE ConfirmBooking(f)
      <3> DEFINE b == job[f].b
      <3>1. job[f] \in Asked /\ AtWork(f, b) /\ b \in Bookings
        BY <1>0, <2>2 DEF ConfirmBooking, JobAt, RowsTyped, Jobs, Asked, AtWork, IdleJob
      <3>2. BookingSet(b, "confirmed") /\ UNCHANGED <<seat, step>>
        BY <2>2, <3>1, <1>0, Writes DEF ConfirmBooking, capacity
      <3>3. booking[b].status \in Seated
        BY <3>1, <2>2, <1>0 DEF ConfirmBooking, Rules, JobsAgree, JobOf, RowsAgree, MoneyOf
      <3> HIDE DEF b
      <3> QED BY <1>2, <3>1, <3>2, <3>3 DEF BookingSet, KeepsSeat
    <2>3. CASE CancelBooking(f)
      <3> DEFINE b == job[f].b
      <3>1. b \in Bookings
        BY <1>0, <2>3 DEF CancelBooking, JobAt, RowsTyped, Jobs, IdleJob
      <3>2. (BookingSet(b, "cancelled") \/ booking' = booking) /\ UNCHANGED <<seat, step>>
        BY <2>3, <3>1, <1>0, Writes DEF CancelBooking, capacity
      <3> HIDE DEF b
      <3> QED BY <1>2, <1>3, <3>1, <3>2 DEF BookingSet, KeepsSeat, Seated
    <2>4. CASE CompleteSale(f) \/ FailSale(f)
      BY <2>4, <1>3 DEF CompleteSale, FailSale, Arbitrate, capacity
    <2> QED BY <1>5, <2>1, <2>2, <2>3, <2>4 DEF FinalizeStep
  <1>6. ASSUME NEW s \in Seats, ReserveSeat(s) \/ FreeReserved(s) PROVE SeatsKept'
    <2>1. \A x \in Seats : seat[x].by \in Bookings => seat'[x] = seat[x]
      BY <1>6, TripAssumption DEF ReserveSeat, FreeReserved, TripInv, TripTypeOK, FreeSeat
    <2>2. UNCHANGED <<booking, step>> /\ Mapped
      BY <1>6 DEF ReserveSeat, FreeReserved, rows
    <2> QED BY <2>1, <2>2, <1>m DEF SeatsKept, KeepsSeat
  <1>7. CASE UNCHANGED <<seat, step, booking>>
    BY <1>3, <1>7
  <1> QED
    BY <1>1, <1>4, <1>5, <1>6, <1>7
    DEF TripNext, Lapse, ProviderSettles, Sweep, StartFinalize, CrashFinalizer, ReadSold,
        SetReservedCount, CloseTrip, capacity, rows, tripVars

\* Whoever holds a confirmed or boarded booking has its seat, even when a
\* payment request outlasts the hold (transport/booking.service.ts).
THEOREM PassengersHaveSeats == TripSpec => []ConfirmedHasSeat
  <1>1. TripInit => SeatsKept
    BY DEF TripInit, SeatsKept, KeepsSeat, Unsaved, Seated
  <1>2. TripInv /\ TripInv' /\ SeatsKept /\ [TripNext]_tripVars => SeatsKept'
    BY SeatsStep
  <1>3. SeatsKept => ConfirmedHasSeat
    BY DEF SeatsKept, ConfirmedHasSeat, KeepsSeat, Seated
  <1> QED BY <1>1, <1>2, <1>3, TripInvariant, PTL DEF TripSpec

---------------------------------------------------------------------------
\* Trips that count their places: every claim adds one to soldCount and every
\* release takes back the one of a booking that gives up its place just then.

Holds(b) ==
    \/ step[b] \in {"taken", "claimed", "asking", "charging", "paid", "stuck"}
    \/ booking[b].status \in {"pending", "confirmed", "boarded"}
    \/ \E f \in Finalizers : JobAt(f, "release") /\ job[f].b = b

LEMMA HoldingCounted ==
    ASSUME NEW S \in SUBSET Bookings
    PROVE  /\ IsFiniteSet(S) /\ Cardinality(S) \in Nat
           /\ \A b \in Bookings \ S : Cardinality(S \cup {b}) = Cardinality(S) + 1
           /\ \A b \in S : Cardinality(S \ {b}) = Cardinality(S) - 1
           /\ \A T \in SUBSET S : Cardinality(T) <= Cardinality(S)
  <1>1. IsFiniteSet(S)
    BY TripAssumption, FS_Subset
  <1>2. Cardinality(S) \in Nat
    BY <1>1, FS_CardinalityType
  <1>3. ASSUME NEW b \in Bookings \ S PROVE Cardinality(S \cup {b}) = Cardinality(S) + 1
    BY <1>1, FS_AddElement
  <1>4. ASSUME NEW b \in S PROVE Cardinality(S \ {b}) = Cardinality(S) - 1
    BY <1>1, FS_RemoveElement
  <1>5. ASSUME NEW T \in SUBSET S PROVE Cardinality(T) <= Cardinality(S)
    BY <1>1, FS_Subset
  <1> QED BY <1>1, <1>2, <1>3, <1>4, <1>5

\* soldCount and the places held move together, or neither does.
Counted(b) ==
    \/ /\ \A x \in Bookings : Holds(x)' <=> Holds(x)
       /\ UNCHANGED sold
    \/ /\ ~Holds(b) /\ Holds(b)' /\ \A x \in Bookings \ {b} : Holds(x)' <=> Holds(x)
       /\ sold' = sold + 1 /\ sold < Capacity
    \/ /\ Holds(b) /\ ~Holds(b)' /\ \A x \in Bookings \ {b} : Holds(x)' <=> Holds(x)
       /\ sold' = sold - 1

LEMMA CountedKeeps ==
    ASSUME TripTypeOK, ~Mapped, ~Mapped', SoldCountExact, UNCHANGED crashes,
           NEW b \in Bookings, Counted(b)
    PROVE  SoldCountExact'
  <1>1. Holding = {x \in Bookings : Holds(x)} /\ Holding' = {x \in Bookings : Holds(x)'}
    BY DEF Holding, Holds
  <1>2. Holding \in SUBSET Bookings /\ sold \in Int /\ Capacity \in Nat
    BY <1>1, TripAssumption DEF TripTypeOK
  <1>3. /\ Cardinality(Holding) \in Nat
        /\ b \notin Holding => Cardinality(Holding \cup {b}) = Cardinality(Holding) + 1
        /\ b \in Holding => Cardinality(Holding \ {b}) = Cardinality(Holding) - 1
    BY <1>2, HoldingCounted
  <1>4. /\ Cardinality(Holding) <= sold /\ sold <= Capacity
        /\ crashes = 0 => sold = Cardinality(Holding)
    BY DEF SoldCountExact
  <1>5. \/ Holding' = Holding /\ sold' = sold
        \/ b \notin Holding /\ Holding' = Holding \cup {b} /\ sold' = sold + 1 /\ sold < Capacity
        \/ b \in Holding /\ Holding' = Holding \ {b} /\ sold' = sold - 1
    BY <1>1 DEF Counted
  <1>6. /\ Cardinality(Holding') <= sold' /\ sold' <= Capacity
        /\ crashes' = 0 => sold' = Cardinality(Holding')
    <2>1. CASE Holding' = Holding /\ sold' = sold
      BY <1>4, <2>1
    <2>2. CASE b \notin Holding /\ Holding' = Holding \cup {b} /\ sold' = sold + 1 /\ sold < Capacity
      <3>1. Cardinality(Holding') = Cardinality(Holding) + 1
        BY <1>3, <2>2
      <3> QED BY <1>2, <1>3, <1>4, <2>2, <3>1
    <2>3. CASE b \in Holding /\ Holding' = Holding \ {b} /\ sold' = sold - 1
      <3>1. Cardinality(Holding') = Cardinality(Holding) - 1
        BY <1>3, <2>3
      <3> QED BY <1>2, <1>3, <1>4, <2>3, <3>1
    <2> QED BY <1>5, <2>1, <2>2, <2>3
  <1> QED BY <1>6 DEF SoldCountExact

\* What a request does to its place.
LEMMA SellCounts ==
    ASSUME TripInv, SeatsKept, ~SlowProvider, ~Mapped, NEW b \in Bookings, Sell(b)
    PROVE  Counted(b) /\ UNCHANGED crashes
  <1>0. RowsTyped /\ Rules
    BY RowTypes DEF TripInv, TripTypeOK, RowsTyped, Rules
  <1>1. /\ \A x \in Bookings \ {b} : step'[x] = step[x] /\ booking'[x] = booking[x]
        /\ UNCHANGED <<job, crashes>>
    BY <1>0 DEF RowsTyped, Booking, StepTo, Sell, LoadTrip, ClaimSeat, SeatRefused, Recheck,
           SaveRows, SaveRowsFails, ProviderAccepts, ProviderFails, StartCharge, Charge,
           SavePaid, SavePaidFails, rows
  <1>2. \A x \in Bookings \ {b} : Holds(x)' <=> Holds(x)
    BY <1>1 DEF Holds, JobAt
  <1>3. \A f \in Finalizers : JobAt(f, "release") => job[f].b # b
    <2>1. step[b] # "done"
      BY DEF Sell, LoadTrip, ClaimSeat, SeatRefused, Recheck, SaveRows, SaveRowsFails,
             ProviderAccepts, ProviderFails, StartCharge, Charge, SavePaid, SavePaidFails
    <2>2. \A f \in Finalizers : ~AtWork(f, b)
      BY <1>0, <2>1 DEF Rules, InTime
    <2> QED BY <2>2 DEF AtWork, JobAt, IdleJob
  <1>4. /\ Holds(b) <=> step[b] \in {"taken"} \cup {"claimed", "asking", "charging", "paid", "stuck"}
                        \/ booking[b].status \in Seated
        /\ Holds(b)' <=> step'[b] \in {"taken"} \cup {"claimed", "asking", "charging", "paid", "stuck"}
                         \/ booking'[b].status \in Seated
    BY <1>1, <1>3 DEF Holds, JobAt, Seated
  <1>5. step[b] # "taken"
    BY DEF SeatsKept
  <1>6. ASSUME NEW s \in Seats \cup {NoSeat}, ClaimSeat(b, s) PROVE Counted(b)
    <2>1. sold' = sold + 1 /\ sold < Capacity
      BY <1>6, TripAssumption DEF ClaimSeat, ClaimCapacity, TripInv, TripTypeOK
    <2>2. ~Holds(b) /\ Holds(b)'
      BY <1>0, <1>4, <1>6 DEF ClaimSeat, StepTo, RowsTyped, Rules, RowsAgree, RowsOf, Seated
    <2> QED BY <1>2, <2>1, <2>2 DEF Counted
  <1>7. ASSUME SaveRowsFails(b) \/ ProviderFails(b) \/ Charge(b) PROVE Counted(b)
    <2>1. \/ Holds(b) /\ ~Holds(b)' /\ sold' = sold - 1
          \/ Holds(b) /\ Holds(b)' /\ sold' = sold
      BY <1>0, <1>4, <1>7 DEF SaveRowsFails, ProviderFails, Charge, ReleaseClaim, StepTo, rows,
             RowsTyped, Rules, RowsAgree, RowsOf, Booking, Seated
    <2> QED BY <1>2, <2>1 DEF Counted
  <1>8. ASSUME \/ LoadTrip(b) \/ SeatRefused(b) \/ SaveRows(b) \/ ProviderAccepts(b)
               \/ StartCharge(b) \/ SavePaid(b) \/ SavePaidFails(b)
        PROVE  Counted(b)
    <2>1. sold' = sold /\ (Holds(b)' <=> Holds(b))
      BY <1>0, <1>4, <1>8 DEF LoadTrip, SeatRefused, SaveRows, ProviderAccepts, StartCharge,
             SavePaid, SavePaidFails, StepTo, rows, capacity,
             RowsTyped, Rules, RowsAgree, RowsOf, MoneyOf, InTime, Booking, Seated
    <2> QED BY <1>2, <2>1 DEF Counted
  <1> QED BY <1>1, <1>5, <1>6, <1>7, <1>8 DEF Sell, Recheck

\* What a finalizer does to the place of its booking.
LEMMA FinalizeCounts ==
    ASSUME TripInv, ~SlowProvider, ~Mapped, NEW f \in Finalizers, FinalizeStep(f)
    PROVE  (\E b \in Bookings : Counted(b)) /\ UNCHANGED crashes
  <1>0. RowsTyped /\ Rules
    BY RowTypes DEF TripInv, TripTypeOK, RowsTyped, Rules
  <1>b. /\ job[f] \in Asked /\ job[f] # IdleJob /\ job[f].b \in Bookings
        /\ UNCHANGED <<step, crashes>>
    <2>1. job[f].at \in JobSteps /\ UNCHANGED <<step, crashes>>
      BY DEF FinalizeStep, CompleteSale, FailSale, ConfirmBooking, CancelBooking,
             ReleaseSeat, Arbitrate, JobAt, JobSteps
    <2>2. job[f] \in Asked /\ job[f] # IdleJob
      BY <1>0, <2>1 DEF RowsTyped, Jobs, Asked, IdleJob, JobSteps
    <2> QED BY <2>1, <2>2 DEF Asked
  <1>p. PICK b \in Bookings : b = job[f].b
    BY <1>b
  <1>1. AtWork(f, b) /\ step[b] = "done" /\ job[f] \in Asked /\ step' = step
    BY <1>0, <1>b, <1>p DEF AtWork, Rules, InTime
  <1>2. JobOf(f, b) /\ RowsOf(b) /\ MoneyOf(b)
    BY <1>0, <1>1 DEF Rules, JobsAgree, RowsAgree
  <1>3. /\ \A g \in Finalizers \ {f} : job'[g] = job[g]
        /\ job'[f].b = b \/ job'[f].at = "idle"
    BY <1>0, <1>p, <1>1, Moves, Stops DEF FinalizeStep, CompleteSale, FailSale, ConfirmBooking,
             CancelBooking, ReleaseSeat, Arbitrate, JobSteps
  <1>4. \A x \in Bookings \ {b} : booking'[x] = booking[x]
    BY <1>0, <1>p, <1>1, Writes DEF FinalizeStep, CompleteSale, FailSale, ConfirmBooking,
             CancelBooking, ReleaseSeat, Arbitrate, rows, BookingSet
  <1>5. \A x \in Bookings \ {b} : Holds(x)' <=> Holds(x)
    BY <1>1, <1>3, <1>4 DEF Holds, JobAt, AtWork
  <1>6. ASSUME CompleteSale(f) \/ FailSale(f) PROVE Counted(b)
    <2>1. booking' = booking /\ sold' = sold
      BY <1>6 DEF CompleteSale, FailSale, Arbitrate, capacity
    <2>2. ~JobAt(f, "release") /\ ~JobAt(f, "release")'
      BY <1>0, <1>1, <1>6, Moves, Stops
      DEF CompleteSale, FailSale, Arbitrate, JobAt, JobSteps, AtWork
    <2>3. Holds(b)' <=> Holds(b)
      BY <1>1, <1>3, <2>1, <2>2 DEF Holds, JobAt
    <2> QED BY <1>5, <2>1, <2>3 DEF Counted
  <1>7. ASSUME ConfirmBooking(f) PROVE Counted(b)
    <2>1. BookingSet(b, "confirmed") /\ sold' = sold
      BY <1>0, <1>1, <1>7, Writes DEF ConfirmBooking, capacity, AtWork
    <2>2. Holds(b) /\ Holds(b)'
      BY <1>2, <1>1, <1>7, <2>1
      DEF ConfirmBooking, JobOf, MoneyOf, Seated, Holds, BookingSet
    <2> QED BY <1>5, <2>1, <2>2 DEF Counted
  <1>8. ASSUME CancelBooking(f) PROVE Counted(b)
    <2>1. sold' = sold /\ job[f].b = b /\ ~JobAt(f, "release")
      BY <1>1, <1>8 DEF CancelBooking, capacity, AtWork, JobAt
    <2>2. CASE booking[b].status = "pending"
      <3>1. JobAt(f, "release")' /\ job'[f].b = b
        BY <1>0, <1>1, <1>8, <2>1, <2>2, Moves DEF CancelBooking, JobAt, JobSteps
      <3> QED BY <1>5, <2>1, <2>2, <3>1 DEF Counted, Holds
    <2>3. CASE booking[b].status # "pending"
      <3>1. booking' = booking /\ ~JobAt(f, "release")'
        BY <1>0, <1>8, <2>1, <2>3, Stops DEF CancelBooking, JobAt
      <3>2. Holds(b)' <=> Holds(b)
        BY <1>1, <1>3, <2>1, <3>1 DEF Holds, JobAt
      <3> QED BY <1>5, <2>1, <3>2 DEF Counted
    <2> QED BY <2>2, <2>3
  <1>9. ASSUME ReleaseSeat(f) PROVE Counted(b)
    <2>1. sold' = sold - 1 /\ booking' = booking /\ job[f].b = b /\ JobAt(f, "release")
      BY <1>1, <1>9 DEF ReleaseSeat, ReleaseClaim, rows, AtWork
    <2>2. ~JobAt(f, "release")'
      BY <1>0, <1>9, Stops DEF ReleaseSeat, JobAt
    <2>3. \A g \in Finalizers \ {f} : JobAt(g, "release") => job[g].b # b
      BY <1>0, <2>1 DEF Rules, OneCanceller, Cancels, JobAt
    <2>4. Holds(b) /\ ~Holds(b)'
      BY <1>1, <1>2, <1>3, <2>1, <2>2, <2>3 DEF Holds, JobAt, JobOf
    <2> QED BY <1>5, <2>1, <2>4 DEF Counted
  <1> QED BY <1>b, <1>6, <1>7, <1>8, <1>9 DEF FinalizeStep

LEMMA CountStep ==
    ASSUME ~SlowProvider, TripInv, SeatsKept, SoldCountExact, [TripNext]_tripVars
    PROVE  SoldCountExact'
  <1>0. RowsTyped /\ Rules /\ TripTypeOK
    BY RowTypes DEF TripInv, TripTypeOK, RowsTyped, Rules
  <1>m. Mapped' <=> Mapped
    BY SchemeStays DEF TripInv, Mapped
  <1>1. CASE Mapped
    BY <1>1, <1>m DEF SoldCountExact
  <1>2. CASE ~Mapped
    <2>1. ASSUME NEW b \in Bookings, Sell(b) PROVE SoldCountExact'
      BY <1>0, <1>2, <1>m, <2>1, SellCounts, CountedKeeps
    <2>2. ASSUME NEW f \in Finalizers, FinalizeStep(f) PROVE SoldCountExact'
      BY <1>0, <1>2, <1>m, <2>2, FinalizeCounts, CountedKeeps
    <2>3. ASSUME \A x \in Bookings : Holds(x)' <=> Holds(x), UNCHANGED <<sold, crashes>>
          PROVE  SoldCountExact'
      <3>1. Holding' = Holding
        BY <2>3 DEF Holding, Holds
      <3> QED BY <1>2, <2>3, <3>1 DEF SoldCountExact
    <2>4. ASSUME UNCHANGED <<sold, step, booking, job, crashes>> PROVE SoldCountExact'
      BY <2>3, <2>4 DEF Holds, JobAt
    <2>5. ASSUME NEW b \in Bookings, BoardBus(b) PROVE SoldCountExact'
      <3>1. BookingSet(b, "boarded") /\ booking[b].status = "confirmed"
        BY <1>0, <2>5, Writes DEF BoardBus
      <3> QED BY <2>3, <2>5, <3>1 DEF BoardBus, BookingSet, Holds, JobAt, capacity
    <2>6. ASSUME NEW f \in Finalizers, NEW b \in Bookings, NEW sweep \in BOOLEAN,
                 StartFinalize(f, b, sweep)
          PROVE  SoldCountExact'
      <3>1. /\ job[f].at = "idle" /\ job'[f].at # "release"
            /\ \A g \in Finalizers \ {f} : job'[g] = job[g]
        BY <1>0, <2>6, VerdictSays DEF StartFinalize, GoOn, RowsTyped, JobAt
      <3> QED BY <2>3, <2>6, <3>1 DEF StartFinalize, Holds, JobAt, capacity, rows
    <2>7. ASSUME NEW f \in Finalizers, CrashFinalizer(f) PROVE SoldCountExact'
      <3>1. \A x \in Bookings : Holds(x)' => Holds(x)
        BY <1>0, <2>7, Stops DEF CrashFinalizer, Holds, JobAt, rows
      <3>2. Holding' \in SUBSET Holding /\ Holding \in SUBSET Bookings
        BY <3>1 DEF Holding, Holds
      <3>3. Cardinality(Holding') <= Cardinality(Holding)
            /\ Cardinality(Holding) \in Nat /\ Cardinality(Holding') \in Nat
        BY <3>2, HoldingCounted
      <3>4. sold' = sold /\ crashes' # 0 /\ sold \in Int
        BY <1>0, <2>7 DEF CrashFinalizer, capacity, TripTypeOK
      <3> QED BY <1>2, <3>3, <3>4 DEF SoldCountExact
    <2>8. CASE UNCHANGED <<sold, step, booking, job, crashes>>
      BY <2>4, <2>8
    <2> QED
      BY <1>2, <2>1, <2>2, <2>5, <2>6, <2>7, <2>8
      DEF TripNext, Lapse, ProviderSettles, Sweep, ReserveSeat, FreeReserved, ReadSold,
          SetReservedCount, CloseTrip, capacity, rows, tripVars
  <1> QED BY <1>1, <1>2

LEMMA CountInit == TripInit => SoldCountExact
  <1> SUFFICES ASSUME TripInit PROVE SoldCountExact
    OBVIOUS
  <1>1. Holding = {}
    BY DEF TripInit, Holding, JobAt, IdleJob
  <1>2. Cardinality(Holding) = 0
    BY <1>1, FS_EmptySet
  <1> QED BY <1>2, TripAssumption DEF TripInit, SoldCountExact

\* The places of a trip add up, for any number of buyers, finalizers and
\* crashes, when a payment request does not outlast the hold of its sale: a
\* passenger has his seat and soldCount is never below the places held, nor
\* above the capacity (transport/booking.service.ts, transport/capacity.service.ts).
THEOREM PlacesAlwaysAddUp == ASSUME ~SlowProvider PROVE TripSpec => []PlacesAddUp
  <1>1. TripInit => SeatsKept /\ SoldCountExact
    <2>1. TripInit => SeatsKept
      BY DEF TripInit, SeatsKept, KeepsSeat, Unsaved, Seated
    <2> QED BY <2>1, CountInit
  <1>2. TripInv /\ SeatsKept /\ SoldCountExact /\ [TripNext]_tripVars
          => SeatsKept' /\ SoldCountExact'
    BY SeatsStep, CountStep
  <1>3. SeatsKept /\ SoldCountExact => PlacesAddUp
    BY DEF SeatsKept, PlacesAddUp, ConfirmedHasSeat, KeepsSeat, Seated
  <1> QED BY <1>1, <1>2, <1>3, TripInvariant, PTL DEF TripSpec
=============================================================================
