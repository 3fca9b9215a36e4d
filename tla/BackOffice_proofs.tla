-------------------------- MODULE BackOffice_proofs --------------------------
(***************************************************************************)
(* The components that share no state, side by side: every step of the     *)
(* composition is a step of one of them that leaves the others alone, so   *)
(* what is proved of each of them alone holds of the composition.          *)
(***************************************************************************)
EXTENDS MCBackOffice, OnSite_proofs, OffSite_proofs

\* A step of the composition is a step of each component, or leaves it alone.
LEMMA StepsOfAll ==
    ASSUME [MCNext]_allVars
    PROVE  /\ [MarketNext]_marketVars /\ [GuaranteeNext]_guaranteeVars
           /\ [BandNext]_bandVars /\ [PayoutNext]_payoutVars
           /\ [CommissionNext]_commissionVars /\ [VenueNext]_venueVars
           /\ [TabNext]_tabVars /\ [BoxNext]_boxVars /\ [OtpNext]_otpVars
           /\ [ReferralNext]_referralVars /\ [AuthNext]_authVars
           /\ [MenuNext]_menuVars
<1>1. CASE MarketStep
  BY <1>1 DEF MarketStep
<1>2. CASE GuaranteeStep
  BY <1>2 DEF GuaranteeStep
<1>3. CASE BandStep
  BY <1>3 DEF BandStep
<1>4. CASE PayoutStep
  BY <1>4 DEF PayoutStep
<1>5. CASE CommissionStep
  BY <1>5 DEF CommissionStep
<1>6. CASE VenueStep
  BY <1>6 DEF VenueStep
<1>7. CASE TabStep
  BY <1>7 DEF TabStep
<1>8. CASE BoxStep
  BY <1>8 DEF BoxStep
<1>9. CASE OtpStep
  BY <1>9 DEF OtpStep
<1>10. CASE ReferralStep
  BY <1>10 DEF ReferralStep
<1>11. CASE AuthStep
  BY <1>11 DEF AuthStep
<1>12. CASE MenuStep
  BY <1>12 DEF MenuStep
<1>13. CASE UNCHANGED allVars
  BY <1>13 DEF allVars
<1> QED
  BY <1>1, <1>2, <1>3, <1>4, <1>5, <1>6, <1>7, <1>8, <1>9, <1>10, <1>11, <1>12, <1>13
     DEF MCNext

\* The composition is a behaviour of each of its components.
LEMMA EachOfThem ==
    MCSpec => /\ MarketSpec /\ GuaranteeSpec /\ BandSpec /\ PayoutSpec
              /\ CommissionSpec /\ VenueSpec /\ TabSpec /\ BoxSpec /\ OtpSpec
              /\ ReferralSpec /\ AuthSpec /\ MenuSpec
<1>1. MCInit => /\ MarketInit /\ GuaranteeInit /\ BandInit /\ PayoutInit
                /\ CommissionInit /\ VenueInit /\ TabInit /\ BoxInit /\ OtpInit
                /\ ReferralInit /\ AuthInit /\ MenuInit
  BY DEF MCInit
<1>2. [MCNext]_allVars =>
           /\ [MarketNext]_marketVars /\ [GuaranteeNext]_guaranteeVars
           /\ [BandNext]_bandVars /\ [PayoutNext]_payoutVars
           /\ [CommissionNext]_commissionVars /\ [VenueNext]_venueVars
           /\ [TabNext]_tabVars /\ [BoxNext]_boxVars /\ [OtpNext]_otpVars
           /\ [ReferralNext]_referralVars /\ [AuthNext]_authVars
           /\ [MenuNext]_menuVars
  BY StepsOfAll
<1> QED
  BY <1>1, <1>2, PTL
     DEF MCSpec, MarketSpec, GuaranteeSpec, BandSpec, PayoutSpec, CommissionSpec,
         VenueSpec, TabSpec, BoxSpec, OtpSpec, ReferralSpec, AuthSpec, MenuSpec

(* Every component of the back office keeps its variables in their types:     *)
(* marketplace/routes, guarantee.route and services/wallet, eventPayout,      *)
(* withdrawal, venueTable, table, ticket, otp, shareEarn, ticketsAuth and     *)
(* menuOrder.                                                                 *)
THEOREM BackOfficeTypeCorrect ==
    ASSUME ~SlowIssue
    PROVE  MCSpec => []BackOfficeTypeOK
<1>1. MarketSpec => []MarketTypeOK
  BY MarketTypeCorrect
<1>2. GuaranteeSpec => []GuaranteeTypeOK
  BY GuaranteeTypeCorrect
<1>3. BandSpec => []BandInv
  BY BandInvariant
<1>4. PayoutSpec => []PayoutInv
  BY PayoutInvariant
<1>5. CommissionSpec => []CommissionInv
  BY CommissionInvariant
<1>6. VenueSpec => []VenueInv
  BY VenueInvariant
<1>7. TabSpec => []TabInv
  BY TabInvariant
<1>8. BoxSpec => []BoxInv
  BY BoxInvariant
<1>9. OtpSpec => []OtpTypeOK
  BY OtpTypeCorrect
<1>10. ReferralSpec => []ReferralInv
  BY ReferralInvariant
<1>11. AuthSpec => []AuthTypeOK
  BY AuthTypeCorrect
<1>12. MenuSpec => []MenuInv
  BY MenuInvariant
<1>13. /\ MarketTypeOK /\ GuaranteeTypeOK /\ BandInv /\ PayoutInv /\ CommissionInv
       /\ VenueInv /\ TabInv /\ BoxInv /\ OtpTypeOK /\ ReferralInv /\ AuthTypeOK
       /\ MenuInv
       => BackOfficeTypeOK
  BY DEF BackOfficeTypeOK, BandInv, PayoutInv, CommissionInv, VenueInv, TabInv, BoxInv,
         ReferralInv, MenuInv
<1> QED
  BY <1>1, <1>2, <1>3, <1>4, <1>5, <1>6, <1>7, <1>8, <1>9, <1>10, <1>11, <1>12, <1>13,
     EachOfThem, PTL

(* PayoutsAddUp: the requests of an event are paid no more than its proceeds, *)
(* and none any more once a period covers it but for one in hand; commission  *)
(* is paid for sales that stay stamped (services/eventPayout, settlement and  *)
(* withdrawal), whatever overlaps.                                            *)
THEOREM PayoutsAlwaysAddUp == MCSpec => []PayoutsAddUp
<1>1. PayoutSpec => []RequestsPaidOnce
  BY RequestsArePaidOnce
<1>2. CommissionSpec => []PaidCommissionIsStamped
  BY PaidStaysStamped
<1>3. RequestsPaidOnce /\ PaidCommissionIsStamped => PayoutsAddUp
  BY DEF PayoutsAddUp
<1> QED
  BY <1>1, <1>2, <1>3, EachOfThem, PTL

(* BarAddsUp: a table pays for its lines, and an order made ahead is paid for *)
(* in full and handed out once, but for what the kitchen's screen saved over  *)
(* (services/venueTable, table and menuOrder).                                *)
THEOREM BarAlwaysAddsUp == MCSpec => []BarAddsUp
<1>1. VenueSpec => []BillAddsUp
  BY BillAlwaysAddsUp
<1>2. TabSpec => []TabPaidOnce
  BY TabsArePaidOnce
<1>3. MenuSpec => []HandedOutOnce
  BY OrdersHandedOutOnce
<1>4. MenuSpec => []PaidInFull
  BY OrdersPaidInFull
<1>5. BillAddsUp /\ TabPaidOnce /\ HandedOutOnce /\ PaidInFull => BarAddsUp
  BY DEF BarAddsUp
<1> QED
  BY <1>1, <1>2, <1>3, <1>4, <1>5, EachOfThem, PTL
=============================================================================
