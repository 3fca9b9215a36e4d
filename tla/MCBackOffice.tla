----------------------------- MODULE MCBackOffice -----------------------------
(***************************************************************************)
(* The components that share no state with each other, side by side in one *)
(* run: a behaviour picks one of them at the start, its scene, and takes   *)
(* only its steps, so that the reachable states are those of each          *)
(* component taken alone, added up.                                        *)
(***************************************************************************)
EXTENDS StallMarket, Guarantees, BandRegister, EventPayouts, CommissionPayouts,
        VenueTables, EventTabs, BoxOffice, OneTimeCodes, ReferralRewards,
        Sessions, MenuOrders, TLC

VARIABLE scene

\* The requests in flight of every scene bear the same names, and nothing
\* tells one of them from another.
HandlerSymmetry == Permutations(Handlers)

MCInit ==
    /\ scene \in {"market", "guarantee", "band", "payout", "commission",
                  "venue", "tab", "box", "otp", "referral", "auth",
                  "menu"}
    /\ MarketInit /\ GuaranteeInit /\ BandInit /\ PayoutInit /\ CommissionInit
    /\ VenueInit /\ TabInit /\ BoxInit /\ OtpInit /\ ReferralInit /\ AuthInit
    /\ MenuInit
    \* The other scenes need not be told apart by it.
    /\ scene # "guarantee" => request.provider = CHOOSE p \in Providers : TRUE

MarketStep == scene = "market" /\ MarketNext
    /\ UNCHANGED <<scene, guaranteeVars, bandVars, payoutVars, commissionVars,
                   venueVars, tabVars, boxVars, otpVars, referralVars,
                   authVars, menuVars>>
GuaranteeStep == scene = "guarantee" /\ GuaranteeNext
    /\ UNCHANGED <<scene, marketVars, bandVars, payoutVars, commissionVars,
                   venueVars, tabVars, boxVars, otpVars, referralVars,
                   authVars, menuVars>>
BandStep == scene = "band" /\ BandNext
    /\ UNCHANGED <<scene, marketVars, guaranteeVars, payoutVars, commissionVars,
                   venueVars, tabVars, boxVars, otpVars, referralVars,
                   authVars, menuVars>>
PayoutStep == scene = "payout" /\ PayoutNext
    /\ UNCHANGED <<scene, marketVars, guaranteeVars, bandVars, commissionVars,
                   venueVars, tabVars, boxVars, otpVars, referralVars,
                   authVars, menuVars>>
CommissionStep == scene = "commission" /\ CommissionNext
    /\ UNCHANGED <<scene, marketVars, guaranteeVars, bandVars, payoutVars,
                   venueVars, tabVars, boxVars, otpVars, referralVars,
                   authVars, menuVars>>
VenueStep == scene = "venue" /\ VenueNext
    /\ UNCHANGED <<scene, marketVars, guaranteeVars, bandVars, payoutVars,
                   commissionVars, tabVars, boxVars, otpVars, referralVars,
                   authVars, menuVars>>
TabStep == scene = "tab" /\ TabNext
    /\ UNCHANGED <<scene, marketVars, guaranteeVars, bandVars, payoutVars,
                   commissionVars, venueVars, boxVars, otpVars, referralVars,
                   authVars, menuVars>>
BoxStep == scene = "box" /\ BoxNext
    /\ UNCHANGED <<scene, marketVars, guaranteeVars, bandVars, payoutVars,
                   commissionVars, venueVars, tabVars, otpVars, referralVars,
                   authVars, menuVars>>
OtpStep == scene = "otp" /\ OtpNext
    /\ UNCHANGED <<scene, marketVars, guaranteeVars, bandVars, payoutVars,
                   commissionVars, venueVars, tabVars, boxVars, referralVars,
                   authVars, menuVars>>
ReferralStep == scene = "referral" /\ ReferralNext
    /\ UNCHANGED <<scene, marketVars, guaranteeVars, bandVars, payoutVars,
                   commissionVars, venueVars, tabVars, boxVars, otpVars, authVars, menuVars>>
AuthStep == scene = "auth" /\ AuthNext
    /\ UNCHANGED <<scene, marketVars, guaranteeVars, bandVars, payoutVars,
                   commissionVars, venueVars, tabVars, boxVars, otpVars,
                   referralVars, menuVars>>
MenuStep == scene = "menu" /\ MenuNext
    /\ UNCHANGED <<scene, marketVars, guaranteeVars, bandVars, payoutVars,
                   commissionVars, venueVars, tabVars, boxVars, otpVars,
                   referralVars, authVars>>

MCNext ==
    \/ MarketStep \/ GuaranteeStep \/ BandStep \/ PayoutStep \/ CommissionStep
    \/ VenueStep \/ TabStep \/ BoxStep \/ OtpStep \/ ReferralStep \/ AuthStep
    \/ MenuStep

allVars == <<scene, marketVars, guaranteeVars, bandVars, payoutVars,
             commissionVars, venueVars, tabVars, boxVars, otpVars, referralVars,
             authVars, menuVars>>

MCSpec == MCInit /\ [][MCNext]_allVars

\* The type invariants; the components beside the scene are as they began.
BackOfficeTypeOK ==
    /\ scene = "market" => MarketTypeOK
    /\ scene = "guarantee" => GuaranteeTypeOK
    /\ scene = "band" => BandTypeOK
    /\ scene = "payout" => PayoutTypeOK
    /\ scene = "commission" => CommissionTypeOK
    /\ scene = "venue" => VenueTypeOK
    /\ scene = "tab" => TabTypeOK
    /\ scene = "box" => BoxTypeOK
    /\ scene = "otp" => OtpTypeOK
    /\ scene = "referral" => ReferralTypeOK
    /\ scene = "auth" => AuthTypeOK
    /\ scene = "menu" => MenuTypeOK

\* What an event's requests and a reseller's withdrawals are paid is paid for
\* proceeds and commission that no earlier payment of the kind covered.
PayoutsAddUp ==
    /\ scene = "payout" => RequestsPaidOnce
    /\ scene = "commission" => PaidCommissionIsStamped

\* A table pays for its lines, at a venue round by round, at an event at once;
\* an order made ahead is paid for in full, and handed out once but for the saves
\* of a kitchen screen over what it did not see.
BarAddsUp ==
    /\ scene = "venue" => BillAddsUp
    /\ scene = "tab" => TabPaidOnce
    /\ scene = "menu" => HandedOutOnce /\ PaidInFull
=============================================================================
