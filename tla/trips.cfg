SPECIFICATION FairTripSpec
CONSTANTS
    Bookings = {b1, b2}
    Seats = {s1}
    Capacity = 1
    Finalizers = {f1, f2}
    NoBooking = NoBooking
    NoSeat = NoSeat
    SlowProvider = FALSE
    MaxCrashes = 1
INVARIANTS TripTypeOK PlacesAddUp PaidKeepsBooking
PROPERTY PendingSettles
CHECK_DEADLOCK FALSE
