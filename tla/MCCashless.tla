---------------------------- MODULE MCCashless ----------------------------
(* Instances of CashlessWallet small enough for TLC.  Desks, staff, payout    *)
(* requests and collections are interchangeable, and no property names one.   *)
EXTENDS CashlessBooks, TLC

CONSTANTS wal1, b1, c1, i1, d1, d2, q1, q2, p1, p2, k1, k2

DeskSymmetry == Permutations({d1, d2})
OfficeSymmetry == Permutations({p1, p2}) \cup Permutations({q1, q2})
                  \cup Permutations({k1, k2})
=============================================================================
