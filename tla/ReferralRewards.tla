--------------------------- MODULE ReferralRewards ---------------------------
(***************************************************************************)
(* Sales attributed to one promoter of a Share&Earn campaign and the       *)
(* points they earn: one reward for each sale, one for a milestone         *)
(* (services/shareEarn).  Confirming and reversing a referral are          *)
(* sequences of single-document reads and writes, behind a catch that only *)
(* logs: whichever fails, those after it are not made, and nothing keeps   *)
(* another handler out meanwhile.                                          *)
(***************************************************************************)
EXTENDS Integers, FiniteSets

CONSTANTS
    Referrals,
    Milestone,      \* the rule, and its reward
    MilestoneAt,    \* confirmed sales that reach it
    Reviewers,      \* handlers in flight
    MaxReviews      \* bound: handlers that ever start

ASSUME ReferralAssumption ==
    /\ IsFiniteSet(Referrals) /\ Milestone \notin Referrals /\ MilestoneAt \in Nat
    /\ MaxReviews \in Nat

VARIABLES
    referral,   \* status of the row of each sale
    reward,     \* status of the reward of a sale, and of the milestone
    points,     \* the ledger, summed for each of them
    promoter,   \* confirmedSalesCount, and whether the milestone is marked
    reviewer,   \* what each handler is at, and the promoter as it holds it
    unrewarded, \* history: referrals confirmed without a buyer or a budget
    loose,      \* history: referrals with a handler that did not finish, or
                \* undone beside another handler at work on them
    reviews     \* handlers started

referralVars == <<referral, reward, points, promoter, reviewer, unrewarded,
                  loose, reviews>>

Rewarded == Referrals \cup {Milestone}
Promoter == [sales : Nat, marked : BOOLEAN]
NoReview == [at |-> "none"]
Confirming == {"confirm", "load", "issue", "bank", "reach", "bankMilestone", "save"}
Undoing == {"drop", "takeBack", "find", "reverse", "debit", "unsave"}

ReferralTypeOK ==
    /\ referral \in [Referrals -> {"none", "pending", "confirmed", "undone"}]
    /\ reward \in [Rewarded -> {"none", "available", "reversed"}]
    /\ points \in [Rewarded -> Int]
    /\ promoter \in Promoter
    /\ reviewer \in [Reviewers -> {NoReview}
          \cup [at : Confirming \cup Undoing, r : Referrals, seen : Promoter]]
    /\ unrewarded \subseteq Referrals /\ loose \subseteq Referrals
    /\ reviews \in 0..MaxReviews

ReferralInit ==
    /\ referral = [r \in Referrals |-> "none"]
    /\ reward = [k \in Rewarded |-> "none"]
    /\ points = [k \in Rewarded |-> 0]
    /\ promoter = [sales |-> 0, marked |-> FALSE]
    /\ reviewer = [v \in Reviewers |-> NoReview]
    /\ unrewarded = {} /\ loose = {} /\ reviews = 0

ReviewAt(v, stages) == reviewer[v] # NoReview /\ reviewer[v].at \in stages
WorksOn(v, r, stages) == ReviewAt(v, stages) /\ reviewer[v].r = r

Reviews(v, j) == reviewer' = [reviewer EXCEPT ![v] = j]
Onward(v, at) == Reviews(v, [reviewer[v] EXCEPT !.at = at])
SetReferral(r, status) == referral' = [referral EXCEPT ![r] = status]

\* A handler takes up referral r at a stage, beside handlers at the stages named.
TakeUp(v, r, at, beside) ==
    /\ reviewer[v] = NoReview
    /\ Reviews(v, [at |-> at, r |-> r, seen |-> promoter])
    /\ loose' = IF \E x \in Reviewers : WorksOn(x, r, beside)
                THEN loose \cup {r} ELSE loose
    /\ reviews < MaxReviews /\ reviews' = reviews + 1

(***************************************************************************)
(* A sale is attributed when it starts; once it is paid for it is          *)
(* confirmed, or held for the organiser when its buyer came back.          *)
(***************************************************************************)
Attribute(r) ==
    /\ referral[r] = "none"
    /\ SetReferral(r, "pending")
    /\ UNCHANGED <<reward, points, promoter, reviewer, unrewarded, loose, reviews>>

\* confirmReferralForSale, or the organiser's approval.
LookToConfirm(v, r) ==
    /\ referral[r] = "pending"
    /\ TakeUp(v, r, "confirm", Undoing)
    /\ UNCHANGED <<referral, reward, points, promoter, unrewarded>>

\* The row is flagged, and pending until the organiser decides.
HoldForReview(v) ==
    /\ ReviewAt(v, {"confirm"})
    /\ \E s \in Referrals \ {reviewer[v].r} : referral[s] = "confirmed"
    /\ Reviews(v, NoReview)
    /\ UNCHANGED <<referral, reward, points, promoter, unrewarded, loose, reviews>>

\* Saved by its id alone, whatever its status is by now.
ConfirmReferral(v) ==
    /\ ReviewAt(v, {"confirm"})
    /\ SetReferral(reviewer[v].r, "confirmed")
    /\ Onward(v, "load")
    /\ UNCHANGED <<reward, points, promoter, unrewarded, loose, reviews>>

Unrewarded(v) == unrewarded' = unrewarded \cup {reviewer[v].r}

\* A promoter whose buyer is gone has the sale counted and earns nothing.
LoadPromoter(v) ==
    /\ ReviewAt(v, {"load"})
    /\ LET seen == [promoter EXCEPT !.sales = @ + 1] IN
       \/ /\ Reviews(v, [reviewer[v] EXCEPT !.at = "issue", !.seen = seen])
          /\ UNCHANGED unrewarded
       \/ /\ Reviews(v, [reviewer[v] EXCEPT !.at = "save", !.seen = seen])
          /\ Unrewarded(v)
    /\ UNCHANGED <<referral, reward, points, promoter, loose, reviews>>

\* No unique index on the rewards.
NotIssuedUnindexed(k) == TRUE

\* The unique index of a referral's reward and of a milestone's: issuing one
\* again is skipped.
NotIssued(k) == reward[k] = "none"

IssueReward(v, k, issued, skipped) ==
    IF NotIssued(k)
    THEN reward' = [reward EXCEPT ![k] = "available"] /\ Onward(v, issued)
    ELSE Onward(v, skipped) /\ UNCHANGED reward

IssueForSale(v) ==
    /\ ReviewAt(v, {"issue"})
    /\ IssueReward(v, reviewer[v].r, "bank", "reach")
    /\ UNCHANGED <<referral, points, promoter, unrewarded, loose, reviews>>

\* The campaign's budget has no room for the reward.
BudgetSpent(v) ==
    /\ ReviewAt(v, {"issue"})
    /\ Onward(v, "reach") /\ Unrewarded(v)
    /\ UNCHANGED <<referral, reward, points, promoter, loose, reviews>>

BankPoints(v, k, at) ==
    /\ points' = [points EXCEPT ![k] = @ + 1]
    /\ Onward(v, at)
    /\ UNCHANGED <<referral, reward, promoter, unrewarded, loose, reviews>>

BankForSale(v) == ReviewAt(v, {"bank"}) /\ BankPoints(v, reviewer[v].r, "reach")

\* By the count the handler loaded and raised; marked also when the budget has no
\* room for it.
ReachMilestone(v) ==
    /\ ReviewAt(v, {"reach"})
    /\ LET seen == reviewer[v].seen
           next(at) == Reviews(v, [reviewer[v] EXCEPT !.at = at, !.seen.marked = TRUE])
       IN IF seen.sales >= MilestoneAt /\ ~seen.marked
          THEN \/ /\ NotIssued(Milestone)
                  /\ reward' = [reward EXCEPT ![Milestone] = "available"]
                  /\ next("bankMilestone")
               \/ next("save") /\ UNCHANGED reward
          ELSE Onward(v, "save") /\ UNCHANGED reward
    /\ UNCHANGED <<referral, points, promoter, unrewarded, loose, reviews>>

BankMilestone(v) == ReviewAt(v, {"bankMilestone"}) /\ BankPoints(v, Milestone, "save")

\* The count as the handler raised it; the mark is pushed.
SavePromoter(v) ==
    /\ ReviewAt(v, {"save"})
    /\ promoter' = [sales |-> reviewer[v].seen.sales,
                    marked |-> promoter.marked \/ reviewer[v].seen.marked]
    /\ Reviews(v, NoReview)
    /\ UNCHANGED <<referral, reward, points, unrewarded, loose, reviews>>

(***************************************************************************)
(* A ticket of the sale is refunded, or the organiser disqualifies it: the *)
(* sale's reward goes back, the milestone's does not.                      *)
(***************************************************************************)
LookToUndo(v, r) ==
    /\ referral[r] \in {"pending", "confirmed"}
    /\ TakeUp(v, r, IF referral[r] = "confirmed" THEN "takeBack" ELSE "drop",
              Confirming \cup Undoing)
    /\ UNCHANGED <<referral, reward, points, promoter, unrewarded>>

UndoReferral(v) ==
    /\ ReviewAt(v, {"drop", "takeBack"})
    /\ SetReferral(reviewer[v].r, "undone")
    /\ IF ReviewAt(v, {"takeBack"}) THEN Onward(v, "find") ELSE Reviews(v, NoReview)
    /\ UNCHANGED <<reward, points, promoter, unrewarded, loose, reviews>>

FindReward(v) ==
    /\ ReviewAt(v, {"find"})
    /\ Reviews(v, [reviewer[v] EXCEPT !.seen = promoter,
          !.at = IF reward[reviewer[v].r] = "available" THEN "reverse" ELSE "unsave"])
    /\ UNCHANGED <<referral, reward, points, promoter, unrewarded, loose, reviews>>

ReverseReward(v) ==
    /\ ReviewAt(v, {"reverse"})
    /\ reward' = [reward EXCEPT ![reviewer[v].r] = "reversed"]
    /\ Onward(v, "debit")
    /\ UNCHANGED <<referral, points, promoter, unrewarded, loose, reviews>>

DebitPoints(v) ==
    /\ ReviewAt(v, {"debit"})
    /\ points' = [points EXCEPT ![reviewer[v].r] = @ - 1]
    /\ Onward(v, "unsave")
    /\ UNCHANGED <<referral, reward, promoter, unrewarded, loose, reviews>>

CutShort(v) == loose' = loose \cup {reviewer[v].r}

\* A debit that cannot be written is logged and left.
DebitLost(v) ==
    /\ ReviewAt(v, {"debit"})
    /\ CutShort(v) /\ Onward(v, "unsave")
    /\ UNCHANGED <<referral, reward, points, promoter, unrewarded, reviews>>

\* A count that stays at zero is not written.
UnsavePromoter(v) ==
    /\ ReviewAt(v, {"unsave"})
    /\ LET n == reviewer[v].seen.sales IN
       promoter' = IF n = 0 THEN promoter ELSE [promoter EXCEPT !.sales = n - 1]
    /\ Reviews(v, NoReview)
    /\ UNCHANGED <<referral, reward, points, unrewarded, loose, reviews>>

ReviewFails(v) ==
    /\ reviewer[v] # NoReview
    /\ CutShort(v) /\ Reviews(v, NoReview)
    /\ UNCHANGED <<referral, reward, points, promoter, unrewarded, reviews>>

ReferralNext ==
    \/ \E r \in Referrals : Attribute(r)
    \/ \E v \in Reviewers, r \in Referrals : LookToConfirm(v, r) \/ LookToUndo(v, r)
    \/ \E v \in Reviewers :
          \/ HoldForReview(v) \/ ConfirmReferral(v) \/ LoadPromoter(v)
          \/ IssueForSale(v) \/ BudgetSpent(v) \/ BankForSale(v)
          \/ ReachMilestone(v) \/ BankMilestone(v) \/ SavePromoter(v)
          \/ UndoReferral(v) \/ FindReward(v) \/ ReverseReward(v)
          \/ DebitPoints(v) \/ DebitLost(v) \/ UnsavePromoter(v) \/ ReviewFails(v)

ReferralSpec == ReferralInit /\ [][ReferralNext]_referralVars

(***************************************************************************)
(* What a promoter is owed.                                                *)
(***************************************************************************)
\* However handlers overlap, fail and are run again, nothing is banked twice, the
\* milestone included; and a referral whose handlers all finished, none undoing it
\* beside another, has points only while it is confirmed, and has them then unless
\* the promoter's buyer was gone or the budget spent.
RewardsFollowSales ==
    /\ \A k \in Rewarded : points[k] <= 1
    /\ \A r \in Referrals \ loose :
          (\A v \in Reviewers : ~WorksOn(v, r, Confirming \cup Undoing)) =>
             IF referral[r] = "confirmed"
             THEN points[r] = 1 \/ r \in unrewarded
             ELSE points[r] = 0
=============================================================================
