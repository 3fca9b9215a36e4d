---------------------------- MODULE OffSite_proofs ----------------------------
(***************************************************************************)
(* Proofs about what the platform keeps away from the venue: the accounts  *)
(* (OneTimeCodes, Sessions), the marketplace (StallMarket, Guarantees) and *)
(* the money that leaves it (EventPayouts, CommissionPayouts and           *)
(* ReferralRewards).                                                       *)
(*                                                                         *)
(* One-time codes, for handlers that issue a code within the cooldown of   *)
(* its destination: then one of them issues at a time, between retiring    *)
(* the codes there are and creating the next none is live, and a code that *)
(* changed an account is consumed for good.                                *)
(*                                                                         *)
(* Sessions: the version of an account that no password was saved over     *)
(* counts its changes, so does the version of every claim made of it, and  *)
(* a claim of the version of now is one of the last change. A refresh      *)
(* token or a link that opened a session is used up for good, and a link   *)
(* that is about to open one is held by one request.                       *)
(*                                                                         *)
(* The marketplace: every handler that decides on the applications or the  *)
(* terms writes the opportunity, an application its profile too; so what a *)
(* transaction still in flight has checked still holds when it commits,    *)
(* although it was checked on a snapshot.                                  *)
(*                                                                         *)
(* Guarantees: what a handler will save was decided from the request as it *)
(* still stands, because every save makes the others fail; so a save is    *)
(* one step of the life of the request, and keeps the agreement with the   *)
(* provider it was signed for.                                             *)
(*                                                                         *)
(* The payouts: what was paid to requests, and what the open one promises, *)
(* is covered by sales that cannot be counted for another one; once a      *)
(* period is paid, only a request whose transaction had begun still is.    *)
(*                                                                         *)
(* The commission: a request asks for paid sales that its own stamp will   *)
(* reach, and for none that was stamped when it was reckoned.              *)
(*                                                                         *)
(* The referrals: a reward is issued once, and then one handler has its    *)
(* points to bank; what the handlers of a referral find of each other's    *)
(* work, as long as none fails or undoes it beside another.                *)
(***************************************************************************)
EXTENDS OneTimeCodes, Sessions, StallMarket, Guarantees, EventPayouts,
        CommissionPayouts, ReferralRewards, FiniteSetTheorems, SequenceTheorems,
        SumTheorems, TLAPS

-----------------------------------------------------------------------------
(* Lists whose rows are rewritten in place.                                *)

\* Every row rewritten.
LEMMA Rewritten ==
    ASSUME NEW S, NEW q \in Seq(S), NEW f \in [DOMAIN q -> S]
    PROVE  f \in Seq(S) /\ Len(f) = Len(q) /\ DOMAIN f = DOMAIN q
  <1>1. Len(q) \in Nat /\ DOMAIN q = 1..Len(q)
    BY LenProperties
  <1>2. f \in [1..Len(q) -> S]
    BY <1>1
  <1> QED BY <1>1, <1>2, LenProperties, SeqDef

\* One row rewritten.
LEMMA OneRewritten ==
    ASSUME NEW S, NEW q \in Seq(S), NEW i \in DOMAIN q, NEW x \in S
    PROVE  /\ [q EXCEPT ![i] = x] \in Seq(S)
           /\ Len([q EXCEPT ![i] = x]) = Len(q)
           /\ DOMAIN [q EXCEPT ![i] = x] = DOMAIN q
  <1>1. q \in [DOMAIN q -> S]
    BY LenProperties
  <1>2. [q EXCEPT ![i] = x] \in [DOMAIN q -> S]
    BY <1>1
  <1> QED BY <1>2, Rewritten

-----------------------------------------------------------------------------
(* One-time codes.                                                         *)

Code == [consumed : BOOLEAN, expired : BOOLEAN, attempts : 0..MaxAttempts]
Issuing(h) == otpJob[h].at \in {"retire", "create"}

\* One handler issues, under the cooldown, with room for its code; when it is
\* about to create it no other is live.
OneIssuer ==
    \A h \in OtpHandlers : Issuing(h) =>
        /\ cooling /\ Len(codes) < MaxCodes
        /\ \A g \in OtpHandlers : Issuing(g) => g = h
        /\ otpJob[h].at = "create" => \A c \in DOMAIN codes : ~LiveCode(c)

OnlyNewestLives == \A c \in DOMAIN codes : LiveCode(c) => c = Len(codes)

SpentIsConsumed ==
    \A c \in 1..MaxCodes :
        ran[c] = 0 \/ (ran[c] = 1 /\ c \in DOMAIN codes /\ codes[c].consumed)

\* The code that a proof is for exists.
JobHasCode ==
    \A h \in OtpHandlers :
        otpJob[h].at \in {"reserve", "claim"} => otpJob[h].code \in DOMAIN codes

OtpInv == /\ OtpTypeOK /\ Len(codes) <= MaxCodes
          /\ OneIssuer /\ OnlyNewestLives /\ SpentIsConsumed /\ JobHasCode

\* What a job may be.
Jobs == {NoOtpJob} \cup [at : {"retire", "create"}]
          \cup [at : {"reserve", "claim"}, code : 1..MaxCodes, proof : Proofs]

LEMMA OtpInitInv == OtpInit => OtpInv
  <1> SUFFICES ASSUME OtpInit PROVE OtpInv
    OBVIOUS
  <1>1. codes \in Seq(Code) /\ Len(codes) = 0 /\ DOMAIN codes = {}
    BY DEF OtpInit
  <1>2. \A h \in OtpHandlers : otpJob[h] = NoOtpJob
    BY DEF OtpInit
  <1>3. OtpTypeOK /\ Len(codes) <= MaxCodes
    <2>1. cooling \in BOOLEAN /\ ran \in [1..MaxCodes -> Nat]
      BY DEF OtpInit
    <2>2. otpJob \in [OtpHandlers -> Jobs]
      BY DEF OtpInit, Jobs
    <2> QED BY <1>1, <2>1, <2>2, OtpAssumption DEF OtpTypeOK, Code, Jobs
  <1>4. OneIssuer /\ OnlyNewestLives /\ SpentIsConsumed /\ JobHasCode
    BY <1>1, <1>2, OtpAssumption
    DEF OtpInit, OneIssuer, OnlyNewestLives, SpentIsConsumed, JobHasCode, Issuing, NoOtpJob
  <1> QED BY <1>3, <1>4 DEF OtpInv

\* The rows are no more live, and no less consumed, than before.
Duller ==
    /\ codes' \in Seq(Code) /\ Len(codes') = Len(codes) /\ DOMAIN codes' = DOMAIN codes
    /\ \A c \in DOMAIN codes : /\ LiveCode(c)' => LiveCode(c)
                               /\ codes[c].consumed => codes'[c].consumed

\* A step that revives no code, spends none and lets nobody issue keeps the
\* invariant.
LEMMA DullerKeeps ==
    ASSUME OtpInv, Duller, UNCHANGED <<cooling, ran>>, NEW h \in OtpHandlers,
           NEW j \in Jobs, OtpStage(h, j), j.at \in {"none", "reserve", "claim"},
           j.at # "none" => j.code \in DOMAIN codes
    PROVE  OtpInv'
  <1>1. OtpTypeOK' /\ Len(codes') <= MaxCodes
    BY DEF OtpInv, OtpTypeOK, Duller, OtpStage, Jobs, Code
  <1>2. \A g \in OtpHandlers : Issuing(g)' => Issuing(g) /\ otpJob'[g] = otpJob[g]
    BY DEF OtpInv, OtpTypeOK, OtpStage, Issuing
  <1>3. OneIssuer' /\ OnlyNewestLives'
    BY <1>2 DEF OtpInv, OneIssuer, OnlyNewestLives, Duller
  <1>4. SpentIsConsumed' /\ JobHasCode'
    BY DEF OtpInv, OtpTypeOK, SpentIsConsumed, JobHasCode, Duller, OtpStage
  <1> QED BY <1>1, <1>3, <1>4 DEF OtpInv

\* Under the assumption on the issuing handlers every step keeps the invariant.
LEMMA OtpStepInv ==
    ASSUME ~SlowIssue, OtpInv, [OtpNext]_otpVars
    PROVE  OtpInv'
  <1> USE OtpAssumption
  <1>t. /\ codes \in Seq(Code) /\ Len(codes) \in Nat /\ DOMAIN codes = 1..Len(codes)
        /\ otpJob \in [OtpHandlers -> Jobs]
        /\ \A c \in DOMAIN codes : codes[c] \in Code
        /\ DOMAIN codes \subseteq 1..MaxCodes
    <2>1. codes \in Seq(Code) /\ otpJob \in [OtpHandlers -> Jobs]
      BY DEF OtpInv, OtpTypeOK, Code, Jobs
    <2>2. /\ Len(codes) \in Nat /\ codes \in [1..Len(codes) -> Code]
          /\ DOMAIN codes = 1..Len(codes)
      BY <2>1, LenProperties
    <2>3. Len(codes) <= MaxCodes
      BY DEF OtpInv
    <2> QED BY <2>1, <2>2, <2>3
  <1>n. NoOtpJob \in Jobs /\ NoOtpJob.at = "none"
    BY DEF Jobs, NoOtpJob
  <1>k. codes' = codes => Duller
    BY <1>t DEF Duller, LiveCode
  <1>1. ASSUME CooldownEnds PROVE OtpInv'
    BY <1>1 DEF OtpInv, OtpTypeOK, OneIssuer, OnlyNewestLives, SpentIsConsumed, JobHasCode,
                Issuing, LiveCode, CooldownEnds
  <1>2. ASSUME NEW c \in 1..MaxCodes, ExpireCode(c) PROVE OtpInv'
    <2> DEFINE r == [codes[c] EXCEPT !.expired = TRUE]
    <2>1. c \in DOMAIN codes /\ r \in Code /\ codes' = [codes EXCEPT ![c] = r]
      BY <1>2, <1>t DEF ExpireCode, Code
    <2>2. r.consumed = codes[c].consumed /\ r.expired
      BY <2>1, <1>t DEF Code
    <2> HIDE DEF r
    <2>3. /\ codes' \in Seq(Code) /\ Len(codes') = Len(codes)
          /\ DOMAIN codes' = DOMAIN codes
      BY <2>1, <1>t, OneRewritten
    <2>4. \A x \in DOMAIN codes : /\ LiveCode(x)' => LiveCode(x)
                                  /\ codes'[x].consumed = codes[x].consumed
      BY <2>1, <2>2, <1>t DEF LiveCode
    <2> QED BY <1>2, <2>3, <2>4
         DEF OtpInv, OtpTypeOK, OneIssuer, OnlyNewestLives, SpentIsConsumed, JobHasCode,
             Issuing, ExpireCode, Code
  <1>3. ASSUME NEW h \in OtpHandlers, BeginIssue(h) PROVE OtpInv'
    <2>1. Len(codes) < MaxCodes
      <3> DEFINE G == { g \in OtpHandlers : otpJob[g].at \in {"retire", "create"} }
      <3>1. Cardinality(G) \in Nat
        BY FS_Subset, FS_CardinalityType
      <3>2. Len(codes) + Cardinality(G) < MaxCodes
        BY <1>3 DEF BeginIssue
      <3> HIDE DEF G
      <3> QED BY <3>1, <3>2, <1>t
    <2>2. \A g \in OtpHandlers : ~Issuing(g)
      BY <1>3 DEF BeginIssue, OtpInv, OneIssuer
    <2>3. /\ otpJob' = [otpJob EXCEPT ![h] = [at |-> "retire"]]
          /\ cooling' = TRUE /\ codes' = codes /\ ran' = ran
      BY <1>3 DEF BeginIssue, OtpStage
    <2>4. OtpTypeOK'
      BY <2>3 DEF OtpInv, OtpTypeOK
    <2>5. OneIssuer'
      BY <2>1, <2>2, <2>3, <1>t DEF OneIssuer, Issuing
    <2> QED BY <2>3, <2>4, <2>5, <1>t
         DEF OtpInv, OnlyNewestLives, SpentIsConsumed, JobHasCode, LiveCode
  <1>4. ASSUME NEW h \in OtpHandlers, RetireCodes(h) PROVE OtpInv'
    <2> DEFINE f == [c \in DOMAIN codes |-> [codes[c] EXCEPT !.consumed = TRUE]]
    <2>1. f \in [DOMAIN codes -> Code] /\ codes' = f
      BY <1>4, <1>t DEF RetireCodes, Code
    <2>2. \A c \in DOMAIN codes : f[c].consumed
      BY <1>t DEF Code
    <2> HIDE DEF f
    <2>3. /\ codes' \in Seq(Code) /\ Len(codes') = Len(codes)
          /\ DOMAIN codes' = DOMAIN codes
      BY <2>1, <1>t, Rewritten
    <2>4. \A c \in DOMAIN codes : ~LiveCode(c)' /\ codes'[c].consumed
      BY <2>1, <2>2 DEF LiveCode
    <2>5. /\ otpJob' = [otpJob EXCEPT ![h] = [at |-> "create"]]
          /\ Issuing(h) /\ UNCHANGED <<cooling, ran>>
      BY <1>4 DEF RetireCodes, OtpStage, Issuing
    <2>6. OtpTypeOK'
      BY <2>3, <2>5 DEF OtpInv, OtpTypeOK, Code
    <2>7. OneIssuer'
      BY <2>3, <2>4, <2>5, <1>t DEF OtpInv, OneIssuer, Issuing
    <2>8. OnlyNewestLives' /\ SpentIsConsumed' /\ JobHasCode'
      BY <2>3, <2>4, <2>5, <1>t DEF OtpInv, OnlyNewestLives, SpentIsConsumed, JobHasCode
    <2> QED BY <2>3, <2>6, <2>7, <2>8 DEF OtpInv
  <1>5. ASSUME NEW h \in OtpHandlers, CreateCode(h) PROVE OtpInv'
    <2> DEFINE r == [consumed |-> FALSE, expired |-> FALSE, attempts |-> 0]
    <2>1. r \in Code /\ codes' = Append(codes, r)
      BY <1>5 DEF CreateCode, Code
    <2> HIDE DEF r
    <2>2. /\ codes' \in Seq(Code) /\ Len(codes') = Len(codes) + 1
          /\ DOMAIN codes' = 1..(Len(codes) + 1)
          /\ \A c \in DOMAIN codes : codes'[c] = codes[c]
      BY <2>1, <1>t, AppendProperties
    <2>3. /\ otpJob' = [otpJob EXCEPT ![h] = NoOtpJob]
          /\ otpJob[h].at = "create" /\ Issuing(h) /\ UNCHANGED <<cooling, ran>>
      BY <1>5 DEF CreateCode, OtpStage, Issuing
    <2>4. /\ Len(codes) < MaxCodes /\ \A c \in DOMAIN codes : ~LiveCode(c)
          /\ \A g \in OtpHandlers : Issuing(g) => g = h
      BY <2>3 DEF OtpInv, OneIssuer
    <2>5. OtpTypeOK'
      BY <2>2, <2>3 DEF OtpInv, OtpTypeOK, Code
    <2>6. OneIssuer'
      BY <2>3, <2>4, <1>t DEF OneIssuer, Issuing, NoOtpJob
    <2>7. OnlyNewestLives'
      BY <2>2, <2>4, <1>t DEF OnlyNewestLives, LiveCode
    <2>8. SpentIsConsumed' /\ JobHasCode'
      BY SMTT(30), <2>2, <2>3, <1>t DEF OtpInv, SpentIsConsumed, JobHasCode, NoOtpJob
    <2> QED BY <2>2, <2>4, <2>5, <2>6, <2>7, <2>8, <1>t DEF OtpInv
  <1>6. ASSUME NEW h \in OtpHandlers, NEW proof \in Proofs, FindCode(h, proof) PROVE OtpInv'
    <2> DEFINE j == [at |-> "reserve", code |-> Newest(LiveCodes), proof |-> proof]
    <2>1. LiveCodes = {Len(codes)}
      BY <1>6 DEF FindCode, LiveCodes, OtpInv, OnlyNewestLives
    <2>2. Newest(LiveCodes) \in LiveCodes
      BY <2>1, <1>t DEF Newest
    <2>3. Newest(LiveCodes) \in DOMAIN codes
      BY <2>2 DEF LiveCodes
    <2>4. j \in Jobs /\ j.at = "reserve" /\ j.code \in DOMAIN codes
      BY <2>3, <1>t DEF Jobs
    <2>5. OtpStage(h, j) /\ UNCHANGED <<cooling, codes, ran>>
      BY <1>6 DEF FindCode
    <2> HIDE DEF j
    <2> QED BY <2>4, <2>5, <1>k, DullerKeeps
  <1>7. ASSUME NEW h \in OtpHandlers, ReserveGuess(h) PROVE OtpInv'
    <2> DEFINE c == otpJob[h].code
               r == [codes[c] EXCEPT !.attempts = @ + 1]
               j == [otpJob[h] EXCEPT !.at = "claim"]
    <2>0. otpJob[h] \in Jobs /\ otpJob[h].at = "reserve" /\ c \in DOMAIN codes
      BY <1>7, <1>t DEF ReserveGuess, OtpInv, JobHasCode
    <2>1. j \in Jobs /\ j.at = "claim" /\ j.code \in DOMAIN codes
      BY <2>0 DEF Jobs, NoOtpJob
    <2>2. OtpStage(h, j) \/ OtpStage(h, NoOtpJob)
      BY <1>7 DEF ReserveGuess
    <2>3. UNCHANGED <<cooling, ran>>
      BY <1>7 DEF ReserveGuess
    <2>4. Duller
      <3>1. CASE codes[c].attempts < MaxAttempts /\ codes' = [codes EXCEPT ![c] = r]
        <4>1. r \in Code /\ r.consumed = codes[c].consumed /\ r.expired = codes[c].expired
          <5>1. codes[c] \in Code
            BY <2>0, <1>t
          <5>2. codes[c].attempts \in 0..MaxAttempts /\ codes[c].attempts + 1 \in 0..MaxAttempts
            BY <5>1, <3>1 DEF Code
          <5> QED BY <5>1, <5>2 DEF Code
        <4> HIDE DEF r, c
        <4>2. /\ codes' \in Seq(Code) /\ Len(codes') = Len(codes)
              /\ DOMAIN codes' = DOMAIN codes
          BY <3>1, <4>1, <2>0, <1>t, OneRewritten
        <4> QED BY <3>1, <4>1, <4>2, <2>0, <1>t DEF Duller, LiveCode
      <3>2. CASE codes' = codes
        BY <3>2, <1>k
      <3> QED BY <1>7, <3>1, <3>2 DEF ReserveGuess, GuessLeft
    <2> HIDE DEF j, c, r
    <2> QED BY <2>1, <2>2, <2>3, <2>4, <1>n, DullerKeeps
  <1>8. ASSUME NEW h \in OtpHandlers, ClaimAndRun(h) PROVE OtpInv'
    <2> DEFINE c == otpJob[h].code
               r == [codes[c] EXCEPT !.consumed = TRUE]
    <2>0. c \in DOMAIN codes /\ OtpStage(h, NoOtpJob) /\ cooling' = cooling
      BY <1>8 DEF ClaimAndRun, OtpInv, JobHasCode
    <2>1. CASE codes' = codes /\ ran' = ran
      BY <2>0, <2>1, <1>k, <1>n, DullerKeeps
    <2>2. CASE ~codes[c].consumed /\ codes' = [codes EXCEPT ![c] = r]
               /\ ran' = [ran EXCEPT ![c] = @ + 1]
      <3>1. r \in Code /\ r.consumed
        BY <2>0, <1>t DEF Code
      <3>2. ran[c] = 0 /\ ran \in [1..MaxCodes -> Nat] /\ c \in 1..MaxCodes
        BY <2>0, <2>2, <1>t DEF OtpInv, OtpTypeOK, SpentIsConsumed
      <3> HIDE DEF r, c
      <3>3. /\ codes' \in Seq(Code) /\ Len(codes') = Len(codes)
            /\ DOMAIN codes' = DOMAIN codes
        BY <2>2, <3>1, <2>0, <1>t, OneRewritten
      <3>4. /\ \A x \in DOMAIN codes : LiveCode(x)' => LiveCode(x)
            /\ \A x \in DOMAIN codes : codes[x].consumed => codes'[x].consumed
            /\ codes'[c].consumed
        BY <2>2, <3>1, <2>0, <1>t DEF LiveCode
      <3>5. ran'[c] = 1 /\ \A x \in 1..MaxCodes : x # c => ran'[x] = ran[x]
        BY <2>2, <3>2
      <3>6. OtpTypeOK'
        BY <2>0, <2>2, <3>2, <3>3 DEF OtpInv, OtpTypeOK, OtpStage, Code
      <3>7. \A g \in OtpHandlers : Issuing(g)' => Issuing(g) /\ otpJob'[g] = otpJob[g]
        BY <2>0, <1>t DEF OtpStage, Issuing, NoOtpJob
      <3>8. OneIssuer' /\ OnlyNewestLives'
        BY <2>0, <3>3, <3>4, <3>7 DEF OtpInv, OneIssuer, OnlyNewestLives
      <3>9. SpentIsConsumed'
        BY <2>0, <3>3, <3>4, <3>5 DEF OtpInv, SpentIsConsumed
      <3>10. JobHasCode'
        BY <2>0, <3>3, <1>t DEF OtpInv, JobHasCode, OtpStage, NoOtpJob
      <3> QED BY <3>3, <3>6, <3>8, <3>9, <3>10 DEF OtpInv
    <2> QED BY <1>8, <2>1, <2>2 DEF ClaimAndRun, Claimable, LiveCode
  <1>9. ASSUME NEW h \in OtpHandlers, OtpFails(h) PROVE OtpInv'
    BY <1>9, <1>k, <1>n, DullerKeeps DEF OtpFails
  <1>10. CASE UNCHANGED otpVars
    BY <1>10 DEF OtpInv, OtpTypeOK, OneIssuer, OnlyNewestLives, SpentIsConsumed, JobHasCode,
                 Issuing, LiveCode, otpVars
  <1> QED BY <1>1, <1>2, <1>3, <1>4, <1>5, <1>6, <1>7, <1>8, <1>9, <1>10 DEF OtpNext

\* The invariant holds of every behaviour while issuing a code takes no longer
\* than the cooldown of its destination.
LEMMA OtpInvHolds == ASSUME ~SlowIssue PROVE OtpSpec => []OtpInv
  <1>1. OtpInv /\ [OtpNext]_otpVars => OtpInv'
    BY OtpStepInv
  <1> QED BY OtpInitInv, <1>1, PTL DEF OtpSpec

\* The rows, and what the handlers hold of them (models/buyerOtp.model).
THEOREM OtpTypeCorrect == ASSUME ~SlowIssue PROVE OtpSpec => []OtpTypeOK
  <1>1. OtpInv => OtpTypeOK
    BY DEF OtpInv
  <1> QED BY OtpInvHolds, <1>1, PTL

\* A code changes an account at most once and only the newest can be claimed,
\* for any number of handlers, attempts and codes.
THEOREM CodeOpensAnAccountOnce == ASSUME ~SlowIssue PROVE OtpSpec => []CodeOpensOnce
  <1>1. OtpInv => CodeOpensOnce
    BY DEF OtpInv, CodeOpensOnce, SpentIsConsumed, OnlyNewestLives, LiveCodes
  <1> QED BY OtpInvHolds, <1>1, PTL

-----------------------------------------------------------------------------
(* Sessions.                                                               *)

\* Claims whose version counts the changes their holder knew of, of an account
\* that no password was saved over.
TrueClaims == { c \in Claims : c.who \notin overtaken => c.proven = c.version }
TrueSession == [claims : TrueClaims, origin : Origins, renewable : BOOLEAN]
TrueLink == [claims : TrueClaims, spent : BOOLEAN]
Link(l) == [by |-> "link", of |-> l]
AuthJobs ==
    {NoAuthJob}
    \cup [at : {"change", "reset"}, claims : TrueClaims]
    \cup [at : {"revoke"}, claims : TrueClaims, origin : [by : {"proof"}]]
    \cup [at : {"issue"}, claims : TrueClaims,
          origin : [by : {"proof"}] \cup [by : {"link"}, of : Nat]]
    \cup [at : {"renew", "out", "drop"}, claims : TrueClaims, session : Nat]
    \cup [at : {"spend", "check"}, claims : TrueClaims, link : Nat]

VersionsCount ==
    /\ version \in [Accounts -> Nat] /\ changes \in [Accounts -> Nat \ {0}]
    /\ overtaken \subseteq Accounts
    /\ \A a \in Accounts \ overtaken : changes[a] = version[a]
    /\ sessions \in Seq(TrueSession) /\ links \in Seq(TrueLink)
    /\ authJob \in [AuthHandlers -> AuthJobs]

\* A request about to open a session with link l.
Holding(j, l) ==
    \/ j.at = "check" /\ j.link = l
    \/ j.at = "issue" /\ j.origin = Link(l)

\* What a request is about exists.
Grounded(j) ==
    /\ j.at \in {"renew", "drop"} => j.session \in DOMAIN sessions
    /\ j.at \in {"spend", "check"} => j.link \in DOMAIN links

OriginsSpent ==
    \A s \in DOMAIN sessions :
        LET o == sessions[s].origin IN
        /\ o.by = "session" => o.of \in DOMAIN sessions /\ ~sessions[o.of].renewable
        /\ o.by = "link" => o.of \in DOMAIN links /\ links[o.of].spent

OriginsOnce ==
    \A s, t \in DOMAIN sessions :
        sessions[s].origin = sessions[t].origin => s = t \/ sessions[s].origin = Proof

LinksHeldOnce ==
    \A h \in AuthHandlers, l \in Nat : Holding(authJob[h], l) =>
        /\ l \in DOMAIN links /\ links[l].spent
        /\ \A s \in DOMAIN sessions : sessions[s].origin # Link(l)
        /\ \A g \in AuthHandlers : Holding(authJob[g], l) => g = h

AuthInv == /\ VersionsCount /\ OriginsSpent /\ OriginsOnce /\ LinksHeldOnce
           /\ \A h \in AuthHandlers : Grounded(authJob[h])

LEMMA AuthInitInv == AuthInit => AuthInv
  <1> SUFFICES ASSUME AuthInit PROVE AuthInv
    OBVIOUS
  <1>1. /\ sessions \in Seq(TrueSession) /\ DOMAIN sessions = {}
        /\ links \in Seq(TrueLink) /\ DOMAIN links = {}
    BY DEF AuthInit
  <1>2. \A h \in AuthHandlers : authJob[h] = NoAuthJob
    BY DEF AuthInit
  <1>3. authJob \in [AuthHandlers -> AuthJobs]
    BY DEF AuthInit, AuthJobs
  <1>4. VersionsCount
    <2>1. /\ version \in [Accounts -> Nat] /\ changes \in [Accounts -> Nat \ {0}]
          /\ overtaken = {} /\ \A a \in Accounts : changes[a] = version[a]
      BY DEF AuthInit
    <2> QED BY <1>1, <1>3, <2>1 DEF VersionsCount
  <1>5. OriginsSpent /\ OriginsOnce
    BY <1>1 DEF OriginsSpent, OriginsOnce
  <1>6. LinksHeldOnce /\ \A h \in AuthHandlers : Grounded(authJob[h])
    BY <1>2 DEF LinksHeldOnce, Holding, Grounded, NoAuthJob
  <1> QED BY <1>4, <1>5, <1>6 DEF AuthInv

\* The elements of a sequence, and the sequence with one more.
LEMMA Members ==
    ASSUME NEW S, NEW q \in Seq(S)
    PROVE  /\ Len(q) \in Nat /\ DOMAIN q = 1..Len(q)
           /\ \A i \in DOMAIN q : i \in Nat /\ q[i] \in S
  BY LenProperties

LEMMA Appended ==
    ASSUME NEW S, NEW q \in Seq(S), NEW x \in S
    PROVE  /\ Append(q, x) \in Seq(S)
           /\ DOMAIN Append(q, x) = DOMAIN q \cup {Len(q) + 1}
           /\ Len(q) + 1 \notin DOMAIN q /\ Append(q, x)[Len(q) + 1] = x
           /\ \A i \in DOMAIN q : Append(q, x)[i] = q[i]
  BY AppendProperties, LenProperties

\* Rows of a smaller set are rows of a larger one.
LEMMA LargerRows ==
    ASSUME NEW S, NEW T, S \subseteq T, NEW q \in Seq(S)
    PROVE  q \in Seq(T)
  <1>1. Len(q) \in Nat /\ DOMAIN q = 1..Len(q) /\ \A i \in DOMAIN q : q[i] \in S
    BY Members
  <1>2. q \in [1..Len(q) -> T]
    BY <1>1, SeqDef
  <1> QED BY <1>1, <1>2, SeqDef

\* While no password is saved over another, what is true stays what it was.
LEMMA SameTruth ==
    ASSUME overtaken' = overtaken
    PROVE  TrueSession' = TrueSession /\ TrueLink' = TrueLink /\ AuthJobs' = AuthJobs
BY DEF TrueClaims, TrueSession, TrueLink, AuthJobs

\* A step that opens no session and whose requests get hold of no link keeps
\* what the invariant says of origins: tokens are only used up, links spent.
LEMMA NoneOpened ==
    ASSUME AuthInv, VersionsCount',
           DOMAIN sessions' = DOMAIN sessions, DOMAIN links \subseteq DOMAIN links',
           \A s \in DOMAIN sessions :
              /\ sessions'[s].origin = sessions[s].origin
              /\ sessions'[s].renewable => sessions[s].renewable,
           \A l \in DOMAIN links : links[l].spent => links'[l].spent,
           \A h \in AuthHandlers : authJob'[h] = authJob[h]
              \/ /\ Grounded(authJob[h])'
                 /\ \A l \in Nat : Holding(authJob'[h], l) => Holding(authJob[h], l)
    PROVE  AuthInv'
  <1>1. OriginsSpent'
    BY DEF AuthInv, OriginsSpent
  <1>2. OriginsOnce'
    BY DEF AuthInv, OriginsOnce
  <1>3. \A h \in AuthHandlers, l \in Nat :
           Holding(authJob'[h], l) => Holding(authJob[h], l)
    OBVIOUS
  <1>4. LinksHeldOnce'
    BY <1>3 DEF AuthInv, LinksHeldOnce
  <1>5. \A h \in AuthHandlers : Grounded(authJob[h])'
    BY DEF AuthInv, Grounded
  <1> QED BY <1>1, <1>2, <1>4, <1>5 DEF AuthInv

\* A step that only moves one request on.
LEMMA OneMoves ==
    ASSUME AuthInv, UNCHANGED <<version, changes, overtaken, sessions, links>>,
           NEW h \in AuthHandlers, NEW j \in AuthJobs, AuthStage(h, j), Grounded(j),
           \A l \in Nat : Holding(j, l) => Holding(authJob[h], l)
    PROVE  AuthInv'
  <1>1. authJob' \in [AuthHandlers -> AuthJobs]
    BY DEF AuthInv, VersionsCount, AuthStage
  <1>2. authJob'[h] = j /\ \A g \in AuthHandlers : g # h => authJob'[g] = authJob[g]
    BY DEF AuthInv, VersionsCount, AuthStage
  <1>3. VersionsCount'
    BY <1>1, SameTruth DEF AuthInv, VersionsCount
  <1>4. Grounded(authJob[h])'
    BY <1>2 DEF Grounded
  <1>5. \A g \in AuthHandlers : authJob'[g] = authJob[g]
           \/ /\ Grounded(authJob[g])'
              /\ \A l \in Nat : Holding(authJob'[g], l) => Holding(authJob[g], l)
    BY <1>2, <1>4
  <1> QED BY <1>3, <1>5, NoneOpened

\* Claims of the row as it is are true; so are those of whoever changes it.
LEMMA CurrentIsTrue ==
    ASSUME VersionsCount, NEW a \in Accounts
    PROVE  Current(a) \in TrueClaims /\ Current(a).who = a
  BY SessionsAssumption DEF VersionsCount, Current, TrueClaims, Claims

LEMMA RowChanges ==
    ASSUME NEW a, NEW v, NewVersion(a, v)
    PROVE  /\ version' = [version EXCEPT ![a] = v]
           /\ changes' = [changes EXCEPT ![a] = @ + 1]
BY DEF NewVersion

\* A new password, or a sign-out, saved with the version read plus one: over a row
\* that has changed since, the account is overtaken.
LEMMA SaverIsTrue ==
    ASSUME VersionsCount, NEW c \in TrueClaims, NewVersion(c.who, c.version + 1),
           overtaken' = IF Accepted(c) THEN overtaken ELSE overtaken \cup {c.who}
    PROVE  /\ AfterSave(c) \in TrueClaims' /\ overtaken' \subseteq Accounts
           /\ TrueClaims \subseteq TrueClaims'
           /\ version' \in [Accounts -> Nat] /\ changes' \in [Accounts -> Nat \ {0}]
           /\ \A a \in Accounts \ overtaken' : changes'[a] = version'[a]
  <1>1. /\ c.who \in Accounts /\ c.version \in Nat /\ c.proven \in Nat
        /\ c.who \notin overtaken => c.proven = c.version
        /\ changes[c.who] \in Nat \ {0}
    BY DEF TrueClaims, Claims, VersionsCount
  <1>2. /\ version' \in [Accounts -> Nat] /\ changes' \in [Accounts -> Nat \ {0}]
        /\ version'[c.who] = c.version + 1 /\ changes'[c.who] = changes[c.who] + 1
        /\ \A a \in Accounts \ {c.who} : version'[a] = version[a] /\ changes'[a] = changes[a]
    <2>1. /\ version' = [version EXCEPT ![c.who] = c.version + 1]
          /\ changes' = [changes EXCEPT ![c.who] = @ + 1]
      BY RowChanges, Zenon
    <2>2. /\ version \in [Accounts -> Nat] /\ changes \in [Accounts -> Nat \ {0}]
          /\ c.version + 1 \in Nat /\ changes[c.who] + 1 \in Nat \ {0}
      BY <1>1 DEF VersionsCount
    <2> QED BY ONLY <1>1, <2>1, <2>2
  <1>3. c.who \notin overtaken' => changes[c.who] = c.version
    BY <1>1 DEF Accepted, VersionsCount
  <1>4. overtaken' \subseteq Accounts /\ overtaken \subseteq overtaken'
    BY <1>1 DEF VersionsCount
  <1>5. \A a \in Accounts \ overtaken' : changes'[a] = version'[a]
    BY <1>1, <1>2, <1>3, <1>4 DEF VersionsCount
  <1>6. TrueClaims \subseteq TrueClaims'
    BY <1>4 DEF TrueClaims
  <1>7. AfterSave(c) \in TrueClaims'
    <2>1. changes[c.who] + 1 \in Nat /\ c.version + 1 \in Nat
      BY <1>1
    <2>2. c \in [who : Accounts, version : Nat, proven : Nat]
      BY DEF TrueClaims, Claims
    <2>3. AfterSave(c) = [c EXCEPT !.version = c.version + 1,
                                   !.proven = changes[c.who] + 1]
      BY DEF AfterSave
    <2>4. /\ AfterSave(c) \in Claims /\ AfterSave(c).who = c.who
          /\ AfterSave(c).version = c.version + 1
          /\ AfterSave(c).proven = changes[c.who] + 1
      BY <2>1, <2>2, <2>3 DEF Claims
    <2> QED BY <1>3, <2>4 DEF TrueClaims
  <1> QED BY <1>2, <1>4, <1>5, <1>6, <1>7

\* Every step keeps the invariant.
LEMMA AuthStepInv ==
    ASSUME AuthInv, [AuthNext]_authVars
    PROVE  AuthInv'
  <1> USE SessionsAssumption
  <1>v. VersionsCount
    BY DEF AuthInv
  <1>u. overtaken' = overtaken =>
           TrueSession' = TrueSession /\ TrueLink' = TrueLink /\ AuthJobs' = AuthJobs
    BY SameTruth
  <1>s. /\ sessions \in Seq(TrueSession)
        /\ \A s \in DOMAIN sessions : s \in Nat /\ sessions[s] \in TrueSession
                                      /\ sessions[s].claims \in TrueClaims
    <2>1. \A s \in DOMAIN sessions : s \in Nat /\ sessions[s] \in TrueSession
      BY <1>v, Members DEF VersionsCount
    <2> QED BY <2>1, <1>v DEF VersionsCount, TrueSession
  <1>l. /\ links \in Seq(TrueLink)
        /\ \A l \in DOMAIN links : l \in Nat /\ links[l] \in TrueLink
                                   /\ links[l].claims \in TrueClaims
    <2>1. \A l \in DOMAIN links : l \in Nat /\ links[l] \in TrueLink
      BY <1>v, Members DEF VersionsCount
    <2> QED BY <2>1, <1>v DEF VersionsCount, TrueLink
  <1>j. \A h \in AuthHandlers : authJob[h] \in AuthJobs /\ Grounded(authJob[h])
    BY <1>v DEF AuthInv, VersionsCount
  <1>c. \A c \in TrueClaims : c.who \in Accounts
    BY DEF TrueClaims, Claims
  <1>n. NoAuthJob \in AuthJobs /\ Grounded(NoAuthJob)
        /\ \A l \in Nat : ~Holding(NoAuthJob, l)
    BY DEF AuthJobs, NoAuthJob, Grounded, Holding
  <1>1. ASSUME NEW h \in AuthHandlers, NEW a \in Accounts, LoadLogin(h, a) PROVE AuthInv'
    <2> DEFINE j == [at |-> "issue", claims |-> Current(a), origin |-> Proof]
    <2>1. j \in AuthJobs
      BY <1>v, CurrentIsTrue DEF AuthJobs, Proof
    <2>2. Grounded(j) /\ \A l \in Nat : ~Holding(j, l)
      BY DEF Grounded, Holding, Link, Proof
    <2>3. AuthStage(h, j) /\ UNCHANGED <<version, changes, overtaken, sessions, links>>
      BY <1>1 DEF LoadLogin
    <2> HIDE DEF j
    <2> QED BY <2>1, <2>2, <2>3, OneMoves
  <1>2. ASSUME NEW h \in AuthHandlers, NEW s \in 1..MaxSessions, LoadChange(h, s) PROVE AuthInv'
    <2> DEFINE a == sessions[s].claims.who
               j == [at |-> "change", claims |-> Current(a)]
    <2>0. a \in Accounts
      BY <1>2, <1>s, <1>c DEF LoadChange
    <2>1. j \in AuthJobs
      <3>1. Current(a) \in TrueClaims
        BY <1>v, <2>0, CurrentIsTrue
      <3> QED BY <3>1 DEF AuthJobs
    <2>2. Grounded(j) /\ \A l \in Nat : ~Holding(j, l)
      BY DEF Grounded, Holding
    <2>3. AuthStage(h, j) /\ UNCHANGED <<version, changes, overtaken, sessions, links>>
      BY <1>2 DEF LoadChange
    <2> HIDE DEF j
    <2> QED BY <2>1, <2>2, <2>3, OneMoves
  <1>3. ASSUME NEW h \in AuthHandlers, NEW a \in Accounts, LoadReset(h, a) PROVE AuthInv'
    <2> DEFINE j == [at |-> "reset", claims |-> Current(a)]
    <2>1. j \in AuthJobs
      BY <1>v, CurrentIsTrue DEF AuthJobs
    <2>2. Grounded(j) /\ \A l \in Nat : ~Holding(j, l)
      BY DEF Grounded, Holding
    <2>3. AuthStage(h, j) /\ UNCHANGED <<version, changes, overtaken, sessions, links>>
      BY <1>3 DEF LoadReset
    <2> HIDE DEF j
    <2> QED BY <2>1, <2>2, <2>3, OneMoves
  <1>4. ASSUME NEW h \in AuthHandlers, NEW s \in 1..MaxSessions, BeginRenew(h, s) PROVE AuthInv'
    <2> DEFINE j == [at |-> "renew", claims |-> sessions[s].claims, session |-> s]
    <2>1. j \in AuthJobs
      BY <1>4, <1>s DEF BeginRenew, AuthJobs
    <2>2. Grounded(j) /\ \A l \in Nat : ~Holding(j, l)
      BY <1>4 DEF BeginRenew, Grounded, Holding
    <2>3. AuthStage(h, j) /\ UNCHANGED <<version, changes, overtaken, sessions, links>>
      BY <1>4 DEF BeginRenew
    <2> HIDE DEF j
    <2> QED BY <2>1, <2>2, <2>3, OneMoves
  <1>5. ASSUME NEW h \in AuthHandlers, NEW s \in 1..MaxSessions, BeginLogout(h, s) PROVE AuthInv'
    <2> DEFINE at == IF sessions[s].claims.who = Owner THEN "out" ELSE "drop"
               j == [at |-> at, claims |-> sessions[s].claims, session |-> s]
    <2>1. j \in AuthJobs
      BY <1>5, <1>s DEF BeginLogout, AuthJobs
    <2>2. Grounded(j) /\ \A l \in Nat : ~Holding(j, l)
      BY <1>5 DEF BeginLogout, Grounded, Holding
    <2>3. AuthStage(h, j) /\ UNCHANGED <<version, changes, overtaken, sessions, links>>
      BY <1>5 DEF BeginLogout
    <2> HIDE DEF j
    <2> QED BY <2>1, <2>2, <2>3, OneMoves
  <1>6. ASSUME NEW h \in AuthHandlers, NEW l \in 1..MaxLinks, BeginExchange(h, l) PROVE AuthInv'
    <2> DEFINE j == [at |-> "spend", claims |-> links[l].claims, link |-> l]
    <2>1. j \in AuthJobs
      BY <1>6, <1>l DEF BeginExchange, AuthJobs
    <2>2. Grounded(j) /\ \A x \in Nat : ~Holding(j, x)
      BY <1>6 DEF BeginExchange, Grounded, Holding
    <2>3. AuthStage(h, j) /\ UNCHANGED <<version, changes, overtaken, sessions, links>>
      BY <1>6 DEF BeginExchange
    <2> HIDE DEF j
    <2> QED BY <2>1, <2>2, <2>3, OneMoves
  <1>7. ASSUME NEW h \in AuthHandlers, CheckLink(h) PROVE AuthInv'
    <2> DEFINE l == authJob[h].link
               j == [at |-> "issue", claims |-> authJob[h].claims, origin |-> Link(l)]
    <2>0. authJob[h].at = "check" /\ UNCHANGED <<version, changes, overtaken, sessions, links>>
      BY <1>7 DEF CheckLink
    <2>1. authJob[h].claims \in TrueClaims /\ l \in Nat
      BY <2>0, <1>j DEF AuthJobs, NoAuthJob
    <2>2. CASE AuthStage(h, j)
      <3>1. j \in AuthJobs
        BY <2>1 DEF AuthJobs, Link
      <3>2. Grounded(j) /\ \A x \in Nat : Holding(j, x) => Holding(authJob[h], x)
        BY <2>0, <2>1 DEF Grounded, Holding, Link
      <3> HIDE DEF j
      <3> QED BY <2>0, <2>2, <3>1, <3>2, OneMoves
    <2>3. CASE AuthStage(h, NoAuthJob)
      BY <2>0, <2>3, <1>n, OneMoves
    <2> QED BY <1>7, <2>2, <2>3 DEF CheckLink, Link
  <1>8. ASSUME NEW h \in AuthHandlers, AuthFails(h) PROVE AuthInv'
    BY <1>8, <1>n, OneMoves DEF AuthFails
  <1>9. ASSUME NEW h \in AuthHandlers, SavePassword(h) PROVE AuthInv'
    <2> DEFINE c == authJob[h].claims
               d == AfterSave(c)
    <2>1. /\ authJob[h].at \in {"change", "reset"} /\ NewVersion(c.who, c.version + 1)
          /\ overtaken' = (IF Accepted(c) THEN overtaken ELSE overtaken \cup {c.who})
          /\ UNCHANGED <<sessions, links>>
      BY <1>9 DEF SavePassword
    <2>2. c \in TrueClaims
      BY <2>1, <1>j DEF AuthJobs, NoAuthJob
    <2>3. /\ d \in TrueClaims' /\ overtaken' \subseteq Accounts
          /\ TrueClaims \subseteq TrueClaims'
          /\ version' \in [Accounts -> Nat] /\ changes' \in [Accounts -> Nat \ {0}]
          /\ \A a \in Accounts \ overtaken' : changes'[a] = version'[a]
      BY <1>v, <2>1, <2>2, SaverIsTrue
    <2> HIDE DEF d
    <2>4. PICK j \in {NoAuthJob, [at |-> "issue", claims |-> d, origin |-> Proof],
                      [at |-> "revoke", claims |-> d, origin |-> Proof]} : AuthStage(h, j)
      <3>1. authJob[h].at = "change" => AuthStage(h, NoAuthJob)
        BY <1>9 DEF SavePassword
      <3>2. authJob[h].at # "change" =>
               \/ AuthStage(h, [at |-> "issue", claims |-> d, origin |-> Proof])
               \/ AuthStage(h, [at |-> "revoke", claims |-> d, origin |-> Proof])
        BY <1>9 DEF SavePassword, d
      <3> QED BY <3>1, <3>2
    <2>5. j \in AuthJobs'
      <3>1. [at |-> "issue", claims |-> d, origin |-> Proof] \in AuthJobs'
        BY <2>3 DEF AuthJobs, Proof
      <3>2. [at |-> "revoke", claims |-> d, origin |-> Proof] \in AuthJobs'
        BY <2>3 DEF AuthJobs, Proof
      <3>3. NoAuthJob \in AuthJobs'
        BY DEF AuthJobs
      <3> QED BY <3>1, <3>2, <3>3
    <2>6. Grounded(j) /\ \A l \in Nat : ~Holding(j, l)
      BY DEF Grounded, Holding, Link, Proof, NoAuthJob
    <2>7. TrueSession \subseteq TrueSession' /\ TrueLink \subseteq TrueLink'
      BY <2>3 DEF TrueSession, TrueLink
    <2>8. AuthJobs \subseteq AuthJobs'
      BY <2>3 DEF AuthJobs
    <2>9. sessions' \in Seq(TrueSession') /\ links' \in Seq(TrueLink')
      BY ONLY <1>s, <1>l, <2>1, <2>7, LargerRows, Zenon
    <2>10. /\ authJob' \in [AuthHandlers -> AuthJobs'] /\ authJob'[h] = j
           /\ \A g \in AuthHandlers : g # h => authJob'[g] = authJob[g]
      BY <1>v, <2>4, <2>5, <2>8 DEF VersionsCount, AuthStage
    <2>11. VersionsCount'
      BY <2>3, <2>9, <2>10 DEF VersionsCount
    <2>12. Grounded(authJob[h])'
      BY <2>1, <2>6, <2>10 DEF Grounded
    <2> QED BY <2>1, <2>6, <2>10, <2>11, <2>12, NoneOpened
  <1>10. ASSUME NEW h \in AuthHandlers, RaiseVersion(h) PROVE AuthInv'
    <2> DEFINE c == authJob[h].claims
    <2>1. /\ authJob[h].at = "out" /\ AuthStage(h, NoAuthJob)
          /\ UNCHANGED <<sessions, links, overtaken>>
      BY <1>10 DEF RaiseVersion
    <2>2. c \in TrueClaims
      BY <2>1, <1>j DEF AuthJobs, NoAuthJob
    <2>3. /\ version' \in [Accounts -> Nat] /\ changes' \in [Accounts -> Nat \ {0}]
          /\ \A a \in Accounts \ overtaken : changes'[a] = version'[a]
      <3>1. CASE Accepted(c)
        <4>1. NewVersion(c.who, c.version + 1)
          BY <1>10, <3>1 DEF RaiseVersion
        <4>2. overtaken' = IF Accepted(c) THEN overtaken ELSE overtaken \cup {c.who}
          BY <2>1, <3>1
        <4> HIDE DEF c
        <4>3. /\ version' \in [Accounts -> Nat] /\ changes' \in [Accounts -> Nat \ {0}]
              /\ \A a \in Accounts \ overtaken' : changes'[a] = version'[a]
          BY <1>v, <2>2, <4>1, <4>2, SaverIsTrue
        <4> QED BY <2>1, <4>3
      <3>2. CASE ~Accepted(c)
        BY <1>10, <1>v, <3>2 DEF RaiseVersion, VersionsCount
      <3> QED BY <3>1, <3>2
    <2>4. authJob' \in [AuthHandlers -> AuthJobs] /\ authJob'[h] = NoAuthJob
          /\ \A g \in AuthHandlers : g # h => authJob'[g] = authJob[g]
      BY <1>v, <1>n, <2>1 DEF VersionsCount, AuthStage
    <2>5. VersionsCount'
      BY <1>v, <1>u, <2>1, <2>3, <2>4 DEF VersionsCount
    <2>6. Grounded(authJob[h])'
      BY <2>4 DEF Grounded, NoAuthJob
    <2> QED BY <1>n, <2>1, <2>4, <2>5, <2>6, NoneOpened
  <1>k. \A j \in AuthJobs :
           j.at = "issue" => /\ j.claims \in TrueClaims /\ j.origin \in Origins
                             /\ j.origin.by \in {"proof", "link"}
                             /\ j.origin.by = "proof" => j.origin = Proof
                             /\ j.origin.by = "link" =>
                                   j.origin.of \in Nat /\ j.origin = Link(j.origin.of)
    BY DEF AuthJobs, NoAuthJob, Origins, Proof, Link
  <1>11. ASSUME NEW h \in AuthHandlers, RevokeAll(h) PROVE AuthInv'
    <2> DEFINE f == [s \in DOMAIN sessions |-> [sessions[s] EXCEPT !.renewable = FALSE]]
               j == [authJob[h] EXCEPT !.at = "issue"]
    <2>1. /\ authJob[h].at = "revoke" /\ sessions' = f /\ AuthStage(h, j)
          /\ UNCHANGED <<version, changes, overtaken, links>>
      BY <1>11 DEF RevokeAll
    <2>2. f \in Seq(TrueSession) /\ DOMAIN f = DOMAIN sessions
      <3>1. \A s \in DOMAIN sessions :
               [sessions[s] EXCEPT !.renewable = FALSE] \in TrueSession
        BY <1>s DEF TrueSession
      <3>2. f \in [DOMAIN sessions -> TrueSession]
        BY <3>1
      <3> HIDE DEF f
      <3> QED BY <3>2, <1>s, Rewritten
    <2>3. \A s \in DOMAIN sessions :
             sessions'[s].origin = sessions[s].origin /\ ~sessions'[s].renewable
      BY <2>1, <1>s DEF TrueSession
    <2>4. j \in AuthJobs /\ j.at = "issue" /\ \A l \in Nat : ~Holding(j, l)
      BY <2>1, <1>j DEF AuthJobs, NoAuthJob, Holding, Link
    <2> HIDE DEF f, j
    <2>5. authJob' \in [AuthHandlers -> AuthJobs] /\ authJob'[h] = j
          /\ \A g \in AuthHandlers : g # h => authJob'[g] = authJob[g]
      BY <1>v, <2>1, <2>4 DEF VersionsCount, AuthStage
    <2>6. VersionsCount' /\ Grounded(authJob[h])'
      BY <1>v, <1>u, <2>1, <2>2, <2>4, <2>5 DEF VersionsCount, Grounded
    <2> QED BY <2>1, <2>2, <2>3, <2>4, <2>5, <2>6, NoneOpened
  <1>12. ASSUME NEW h \in AuthHandlers, RevokeToken(h) PROVE AuthInv'
    <2> DEFINE i == authJob[h].session
               r == [sessions[i] EXCEPT !.renewable = FALSE]
               f == [sessions EXCEPT ![i] = r]
    <2>1. /\ authJob[h].at = "drop" /\ sessions' = f /\ AuthStage(h, NoAuthJob)
          /\ UNCHANGED <<version, changes, overtaken, links>>
      BY <1>12 DEF RevokeToken
    <2>2. i \in DOMAIN sessions
      BY <2>1, <1>j DEF Grounded
    <2>3. r \in TrueSession /\ r.origin = sessions[i].origin /\ ~r.renewable
      BY <2>2, <1>s DEF TrueSession
    <2> HIDE DEF r, i
    <2>4. f \in Seq(TrueSession) /\ DOMAIN f = DOMAIN sessions
      BY <2>2, <2>3, <1>s, OneRewritten
    <2>5. \A s \in DOMAIN sessions : /\ f[s].origin = sessions[s].origin
                                     /\ f[s].renewable => sessions[s].renewable
      BY <2>2, <2>3
    <2> HIDE DEF f
    <2>6. authJob' \in [AuthHandlers -> AuthJobs] /\ authJob'[h] = NoAuthJob
          /\ \A g \in AuthHandlers : g # h => authJob'[g] = authJob[g]
      BY <1>v, <1>n, <2>1 DEF VersionsCount, AuthStage
    <2>7. VersionsCount' /\ Grounded(authJob[h])'
      BY <1>v, <1>u, <2>1, <2>4, <2>6 DEF VersionsCount, Grounded, NoAuthJob
    <2> QED BY <1>n, <2>1, <2>4, <2>5, <2>6, <2>7, NoneOpened
  <1>13. ASSUME NEW s \in 1..MaxSessions, MintLink(s) PROVE AuthInv'
    <2> DEFINE n == [claims |-> sessions[s].claims, spent |-> FALSE]
    <2>1. /\ s \in DOMAIN sessions /\ links' = Append(links, n)
          /\ UNCHANGED <<version, changes, overtaken, sessions, authJob>>
      BY <1>13 DEF MintLink
    <2>2. n \in TrueLink
      BY <2>1, <1>s DEF TrueLink
    <2> HIDE DEF n
    <2>3. /\ links' \in Seq(TrueLink) /\ DOMAIN links \subseteq DOMAIN links'
          /\ \A l \in DOMAIN links : links'[l] = links[l]
      BY <2>1, <2>2, <1>l, Appended
    <2>4. VersionsCount'
      BY <1>v, <1>u, <2>1, <2>3 DEF VersionsCount
    <2> QED BY <2>1, <2>3, <2>4, NoneOpened
  <1>14. CASE UNCHANGED authVars
    <2>1. VersionsCount'
      BY <1>v, <1>u, <1>14 DEF VersionsCount, authVars
    <2> QED BY <1>14, <2>1, NoneOpened DEF authVars
  <1>15. ASSUME NEW h \in AuthHandlers, SpendLink(h) PROVE AuthInv'
    <2> DEFINE l == authJob[h].link
               r == [links[l] EXCEPT !.spent = TRUE]
               f == [links EXCEPT ![l] = r]
               j == [authJob[h] EXCEPT !.at = "check"]
    <2>1. /\ authJob[h].at = "spend" /\ links' = f
          /\ IF links[l].spent THEN AuthStage(h, NoAuthJob) ELSE AuthStage(h, j)
          /\ UNCHANGED <<version, changes, overtaken, sessions>>
      BY <1>15 DEF SpendLink
    <2>2. l \in DOMAIN links /\ l \in Nat
      BY <2>1, <1>j, <1>l DEF Grounded
    <2>3. r \in TrueLink /\ r.spent
      BY <2>2, <1>l DEF TrueLink
    <2>4. j \in AuthJobs /\ j.at = "check" /\ j.link = l
      BY <2>1, <1>j DEF AuthJobs, NoAuthJob
    <2> HIDE DEF r, l, j
    <2>5. f \in Seq(TrueLink) /\ DOMAIN f = DOMAIN links
      BY <2>2, <2>3, <1>l, OneRewritten
    <2>6. f[l].spent /\ \A x \in DOMAIN links : links[x].spent => f[x].spent
      BY <2>2, <2>3
    <2> HIDE DEF f
    <2>7. CASE links[l].spent
      <3>1. authJob' \in [AuthHandlers -> AuthJobs] /\ authJob'[h] = NoAuthJob
            /\ \A g \in AuthHandlers : g # h => authJob'[g] = authJob[g]
        BY <1>v, <1>n, <2>1, <2>7 DEF VersionsCount, AuthStage
      <3>2. VersionsCount' /\ Grounded(authJob[h])'
        BY <1>v, <1>u, <2>1, <2>5, <3>1 DEF VersionsCount, Grounded, NoAuthJob
      <3> QED BY <1>n, <2>1, <2>5, <2>6, <3>1, <3>2, NoneOpened
    <2>8. CASE ~links[l].spent
      <3>1. authJob' \in [AuthHandlers -> AuthJobs] /\ authJob'[h] = j
            /\ \A g \in AuthHandlers : g # h => authJob'[g] = authJob[g]
        BY <1>v, <2>1, <2>4, <2>8 DEF VersionsCount, AuthStage
      <3>2. VersionsCount'
        BY <1>v, <1>u, <2>1, <2>5, <3>1 DEF VersionsCount
      <3>3. \A x \in Nat : Holding(j, x) <=> x = l
        BY <2>2, <2>4 DEF Holding
      <3>4. /\ \A s \in DOMAIN sessions : sessions[s].origin # Link(l)
            /\ \A g \in AuthHandlers : ~Holding(authJob[g], l)
        BY <2>2, <2>8 DEF AuthInv, OriginsSpent, LinksHeldOnce, Link
      <3>5. LinksHeldOnce'
        <4> SUFFICES ASSUME NEW g \in AuthHandlers, NEW x \in Nat, Holding(authJob'[g], x)
                     PROVE  /\ x \in DOMAIN links' /\ links'[x].spent
                            /\ \A s \in DOMAIN sessions' : sessions'[s].origin # Link(x)
                            /\ \A k \in AuthHandlers : Holding(authJob'[k], x) => k = g
          BY DEF LinksHeldOnce
        <4>1. CASE g = h
          BY <4>1, <2>1, <2>2, <2>5, <2>6, <3>1, <3>3, <3>4
        <4>2. CASE g # h
          <5>1. Holding(authJob[g], x) /\ x # l
            BY <4>2, <3>1, <3>4
          <5>2. /\ x \in DOMAIN links /\ links[x].spent
                /\ \A s \in DOMAIN sessions : sessions[s].origin # Link(x)
                /\ \A k \in AuthHandlers : Holding(authJob[k], x) => k = g
            BY <5>1 DEF AuthInv, LinksHeldOnce
          <5> QED BY <5>1, <5>2, <2>1, <2>5, <2>6, <3>1, <3>3
        <4> QED BY <4>1, <4>2
      <3>6. OriginsSpent' /\ OriginsOnce'
        BY <2>1, <2>5, <2>6 DEF AuthInv, OriginsSpent, OriginsOnce
      <3>7. \A g \in AuthHandlers : Grounded(authJob[g])'
        BY <1>j, <2>1, <2>2, <2>4, <2>5, <3>1 DEF Grounded
      <3> QED BY <3>2, <3>5, <3>6, <3>7 DEF AuthInv
    <2> QED BY <2>7, <2>8
  <1>16. ASSUME NEW h \in AuthHandlers, Issue(h) PROVE AuthInv'
    <2> DEFINE o == authJob[h].origin
               x == Opened(authJob[h].claims, o)
               n == Len(sessions) + 1
    <2>1. /\ authJob[h].at = "issue" /\ sessions' = Append(sessions, x)
          /\ AuthStage(h, NoAuthJob) /\ UNCHANGED <<version, changes, overtaken, links>>
      BY <1>16 DEF Issue
    <2>2. x \in TrueSession /\ x.origin = o /\ (o = Proof \/ (o.of \in Nat /\ o = Link(o.of)))
          /\ (o.by = "link" => o = Link(o.of) /\ o.of \in Nat) /\ o.by # "session"
      BY <2>1, <1>j, <1>k DEF Opened, TrueSession
    <2> HIDE DEF x
    <2>3. /\ sessions' \in Seq(TrueSession) /\ DOMAIN sessions' = DOMAIN sessions \cup {n}
          /\ n \notin DOMAIN sessions /\ sessions'[n] = x
          /\ \A s \in DOMAIN sessions : sessions'[s] = sessions[s]
      BY <2>1, <2>2, <1>s, Appended
    <2> HIDE DEF n
    <2>4. authJob' \in [AuthHandlers -> AuthJobs] /\ authJob'[h] = NoAuthJob
          /\ \A g \in AuthHandlers : g # h => authJob'[g] = authJob[g]
      BY <1>v, <1>n, <2>1 DEF VersionsCount, AuthStage
    <2>5. VersionsCount' /\ \A g \in AuthHandlers : Grounded(authJob[g])'
      <3>1. sessions' \in Seq(TrueSession) /\ DOMAIN sessions \subseteq DOMAIN sessions'
        BY <2>3
      <3>2. VersionsCount'
        BY <1>v, <1>u, <2>1, <3>1, <2>4 DEF VersionsCount
      <3>3. \A g \in AuthHandlers : authJob'[g] = authJob[g] \/ authJob'[g] = NoAuthJob
        BY <2>4
      <3>4. \A g \in AuthHandlers : Grounded(authJob[g])'
        BY <1>j, <2>1, <3>1, <3>3 DEF Grounded, NoAuthJob
      <3> QED BY <3>2, <3>4
    <2>6. \A l \in Nat : o = Link(l) =>
             /\ l \in DOMAIN links /\ links[l].spent
             /\ \A s \in DOMAIN sessions : sessions[s].origin # Link(l)
             /\ \A g \in AuthHandlers : Holding(authJob[g], l) => g = h
      BY <2>1 DEF AuthInv, LinksHeldOnce, Holding
    <2>7. OriginsSpent'
      BY <2>1, <2>2, <2>3, <2>6 DEF AuthInv, OriginsSpent
    <2>8. OriginsOnce'
      <3>1. \A s \in DOMAIN sessions : sessions[s].origin = o => o = Proof
        BY <2>2, <2>6
      <3>2. \A s, t \in DOMAIN sessions :
               sessions[s].origin = sessions[t].origin => s = t \/ sessions[s].origin = Proof
        BY DEF AuthInv, OriginsOnce
      <3> HIDE DEF o
      <3>3. sessions'[n].origin = o
        BY <2>2, <2>3
      <3> QED BY <2>3, <3>1, <3>2, <3>3 DEF OriginsOnce
    <2>9. LinksHeldOnce'
      <3> SUFFICES ASSUME NEW g \in AuthHandlers, NEW l \in Nat, Holding(authJob'[g], l)
                   PROVE  /\ l \in DOMAIN links' /\ links'[l].spent
                          /\ \A s \in DOMAIN sessions' : sessions'[s].origin # Link(l)
                          /\ \A k \in AuthHandlers : Holding(authJob'[k], l) => k = g
        BY DEF LinksHeldOnce
      <3>1. g # h /\ Holding(authJob[g], l)
        BY <1>n, <2>4
      <3>2. /\ l \in DOMAIN links /\ links[l].spent
            /\ \A s \in DOMAIN sessions : sessions[s].origin # Link(l)
            /\ \A k \in AuthHandlers : Holding(authJob[k], l) => k = g
        BY <3>1 DEF AuthInv, LinksHeldOnce
      <3>3. o # Link(l)
        BY <2>6, <3>1
      <3> QED BY <1>n, <2>1, <2>2, <2>3, <2>4, <3>1, <3>2, <3>3
    <2> QED BY <2>5, <2>7, <2>8, <2>9 DEF AuthInv
  <1>17. ASSUME NEW h \in AuthHandlers, CommitRenew(h) PROVE AuthInv'
    <2> DEFINE i == authJob[h].session
               r == [sessions[i] EXCEPT !.renewable = FALSE]
               f == [sessions EXCEPT ![i] = r]
               o == [by |-> "session", of |-> i]
               x == Opened(authJob[h].claims, o)
               n == Len(f) + 1
    <2>1. /\ authJob[h].at = "renew" /\ AuthStage(h, NoAuthJob)
          /\ UNCHANGED <<version, changes, overtaken, links>>
          /\ IF sessions[i].renewable THEN sessions' = Append(f, x)
                                      ELSE sessions' = sessions
      BY <1>17 DEF CommitRenew
    <2>2. i \in DOMAIN sessions /\ i \in Nat
      BY <2>1, <1>j, <1>s DEF Grounded
    <2>3. CASE ~sessions[i].renewable
      BY <2>1, <2>3, <1>n, OneMoves
    <2>4. CASE sessions[i].renewable
      <3>1. r \in TrueSession /\ r.origin = sessions[i].origin /\ ~r.renewable
        BY <2>2, <1>s DEF TrueSession
      <3>2. authJob[h].claims \in TrueClaims
        BY <2>1, <1>j DEF AuthJobs, NoAuthJob
      <3>3. x \in TrueSession /\ x.origin = o
        BY <2>2, <3>2 DEF Opened, TrueSession, Origins
      <3>4. o # Proof /\ o.by = "session" /\ o.of = i /\ \A l \in Nat : o # Link(l)
        BY DEF Proof, Link
      <3>5. \A s \in DOMAIN sessions : sessions[s].origin # o
        BY <2>4, <3>4 DEF AuthInv, OriginsSpent
      <3> HIDE DEF i, r, x, o
      <3>6. f \in Seq(TrueSession) /\ DOMAIN f = DOMAIN sessions
        BY <2>2, <3>1, <1>s, OneRewritten
      <3>7. ~f[i].renewable /\ \A s \in DOMAIN sessions : f[s].origin = sessions[s].origin
        BY <2>2, <3>1
      <3>8. \A s \in DOMAIN sessions : f[s].renewable => sessions[s].renewable
        BY <2>2, <3>1
      <3> HIDE DEF f
      <3>9. /\ sessions' \in Seq(TrueSession) /\ DOMAIN sessions' = DOMAIN sessions \cup {n}
            /\ n \notin DOMAIN sessions /\ sessions'[n].origin = o
        BY <2>1, <2>4, <3>3, <3>6, Appended
      <3>10. \A s \in DOMAIN sessions : sessions'[s] = f[s]
        BY <2>1, <2>4, <3>3, <3>6, Appended
      <3>11. \A s \in DOMAIN sessions : sessions'[s].origin = sessions[s].origin
        BY <3>7, <3>10
      <3>12. \A s \in DOMAIN sessions : sessions'[s].renewable => sessions[s].renewable
        BY <3>8, <3>10
      <3>13. ~sessions'[i].renewable /\ i \in DOMAIN sessions'
        BY <2>2, <3>7, <3>9, <3>10
      <3> HIDE DEF n
      <3>14. authJob' \in [AuthHandlers -> AuthJobs]
             /\ \A g \in AuthHandlers : authJob'[g] = IF g = h THEN NoAuthJob ELSE authJob[g]
        BY <1>v, <1>n, <2>1 DEF VersionsCount, AuthStage
      <3>15. VersionsCount'
        BY <1>v, <1>u, <2>1, <3>9, <3>14 DEF VersionsCount
      <3>16. \A g \in AuthHandlers : Grounded(authJob[g])'
        BY <1>j, <2>1, <3>9, <3>14 DEF Grounded, NoAuthJob
      <3>17. OriginsSpent'
        <4>1. \A s \in DOMAIN sessions' : s = n \/ s \in DOMAIN sessions
          BY <3>9
        <4>2. DOMAIN sessions \subseteq DOMAIN sessions'
          BY <3>9
        <4> QED BY <2>1, <3>4, <3>9, <3>11, <3>12, <3>13, <4>1, <4>2 DEF AuthInv, OriginsSpent
      <3>18. OriginsOnce'
        <4>1. \A s, t \in DOMAIN sessions :
                 sessions[s].origin = sessions[t].origin => s = t \/ sessions[s].origin = Proof
          BY DEF AuthInv, OriginsOnce
        <4> QED BY <3>5, <3>9, <3>11, <4>1 DEF OriginsOnce
      <3>19. LinksHeldOnce'
        <4> SUFFICES ASSUME NEW g \in AuthHandlers, NEW l \in Nat, Holding(authJob'[g], l)
                     PROVE  /\ l \in DOMAIN links' /\ links'[l].spent
                            /\ \A s \in DOMAIN sessions' : sessions'[s].origin # Link(l)
                            /\ \A k \in AuthHandlers : Holding(authJob'[k], l) => k = g
          BY DEF LinksHeldOnce
        <4>1. g # h /\ Holding(authJob[g], l)
          BY <1>n, <3>14
        <4>2. /\ l \in DOMAIN links /\ links[l].spent
              /\ \A s \in DOMAIN sessions : sessions[s].origin # Link(l)
              /\ \A k \in AuthHandlers : Holding(authJob[k], l) => k = g
          BY <4>1 DEF AuthInv, LinksHeldOnce
        <4> QED BY <1>n, <2>1, <3>4, <3>9, <3>11, <3>14, <4>1, <4>2
      <3> QED BY <3>15, <3>16, <3>17, <3>18, <3>19 DEF AuthInv
    <2> QED BY <2>3, <2>4
  <1> QED BY <1>1, <1>2, <1>3, <1>4, <1>5, <1>6, <1>7, <1>8, <1>9, <1>10, <1>11, <1>12,
             <1>13, <1>14, <1>15, <1>16, <1>17 DEF AuthNext

\* The invariant holds of every behaviour.
LEMMA AuthInvHolds == AuthSpec => []AuthInv
  <1>1. AuthInv /\ [AuthNext]_authVars => AuthInv'
    BY AuthStepInv
  <1> QED BY AuthInitInv, <1>1, PTL DEF AuthSpec

\* An accepted session of an account that no password was saved over was opened by
\* someone who proved the account after its last new password and sign-out, and
\* refresh tokens and links open one session each, whatever overlaps: for any
\* number of accounts, requests, sessions and links (services/ticketsAuth,
\* validateSession and all that issue tokens).
THEOREM AcceptedIsProven == AuthSpec => []SessionsAreProven
  <1>1. ASSUME AuthInv PROVE SessionsAreProven
    <2>1. \A s \in DOMAIN sessions :
             /\ sessions[s].claims.who \in Accounts
             /\ sessions[s].claims.who \notin overtaken =>
                   sessions[s].claims.proven = sessions[s].claims.version
      <3>1. \A s \in DOMAIN sessions : sessions[s] \in TrueSession
        BY <1>1, Members DEF AuthInv, VersionsCount
      <3> QED BY <3>1 DEF TrueSession, TrueClaims, Claims
    <2>2. \A a \in Accounts \ overtaken : changes[a] = version[a]
      BY <1>1 DEF AuthInv, VersionsCount
    <2> QED BY <1>1, <2>1, <2>2 DEF AuthInv, OriginsOnce, SessionsAreProven, Accepted
  <1> QED BY AuthInvHolds, <1>1, PTL

\* The variables of services/ticketsAuth keep their types.
THEOREM AuthTypeCorrect == AuthSpec => []AuthTypeOK
  <1>1. ASSUME AuthInv PROVE AuthTypeOK
    <2> USE <1>1 DEF AuthInv, VersionsCount
    <2>1. TrueClaims \subseteq Claims /\ [by : {"proof"}] \subseteq Origins
          /\ [by : {"link"}, of : Nat] \subseteq Origins
      BY DEF TrueClaims, Origins
    <2>2. TrueSession \subseteq [claims : Claims, origin : Origins, renewable : BOOLEAN]
      BY <2>1 DEF TrueSession
    <2>3. TrueLink \subseteq [claims : Claims, spent : BOOLEAN]
      BY <2>1 DEF TrueLink
    <2>4. sessions \in Seq([claims : Claims, origin : Origins, renewable : BOOLEAN])
          /\ links \in Seq([claims : Claims, spent : BOOLEAN])
      BY ZenonT(30), <2>2, <2>3, LargerRows
    <2>5. \A h \in AuthHandlers : authJob[h] \in
             {NoAuthJob}
             \cup [at : {"change", "reset"}, claims : Claims]
             \cup [at : {"revoke", "issue"}, claims : Claims, origin : Origins]
             \cup [at : {"renew", "out", "drop"}, claims : Claims, session : Nat]
             \cup [at : {"spend", "check"}, claims : Claims, link : Nat]
      <3> TAKE h \in AuthHandlers
      <3>1. authJob[h] \in AuthJobs
        OBVIOUS
      <3> QED BY <2>1, <3>1 DEF AuthJobs
    <2> QED BY <2>4, <2>5 DEF AuthTypeOK
  <1> QED BY AuthInvHolds, <1>1, PTL

-----------------------------------------------------------------------------
(* The marketplace and the guarantees.                                         *)

Keys == Profiles \X Dates

\* What the transaction t has checked, of the state as it is now.
ApplyStands(t) ==
    /\ t.new.status = "pending" /\ t.new.terms = opp.terms
    /\ cert[t.p] = [id |-> t.new.cert, active |-> TRUE]
ReviewStands(t) ==
    LET k == <<t.p, t.d>> IN
    /\ Standing(k) /\ t.new.terms = app[k].terms
    /\ t.new.status = "approved" => app[k].status = "approved" \/ ~Full(t.d)
EditStands(t) == Permitted(t.places, t.terms)

TxnsStand ==
    \A h \in Handlers :
        /\ txn[h].op = "apply" => ApplyStands(txn[h])
        /\ txn[h].op = "review" => ReviewStands(txn[h])
        /\ txn[h].op = "edit" => EditStands(txn[h])

\* A certificate that is active was uploaded.
ActiveHasId == \A p \in Profiles : cert[p].active => cert[p].id # 0

MarketInv == MarketTypeOK /\ CapacityRespected /\ TermsStand /\ TxnsStand /\ ActiveHasId

-----------------------------------------------------------------------------
LEMMA ApprovedIsFinite ==
    ASSUME NEW d \in Dates
    PROVE  IsFiniteSet(Approved(d)) /\ Cardinality(Approved(d)) \in Nat
  <1>1. Approved(d) \subseteq Profiles
    BY DEF Approved
  <1> QED BY <1>1, MarketAssumption, FS_Subset, FS_CardinalityType

LEMMA OneMore ==
    ASSUME NEW S, IsFiniteSet(S), NEW x
    PROVE  /\ IsFiniteSet(S \cup {x}) /\ Cardinality(S \cup {x}) \in Nat
           /\ Cardinality(S \cup {x}) <= Cardinality(S) + 1
  <1>1. Cardinality(S) \in Nat
    BY FS_CardinalityType
  <1>2. /\ IsFiniteSet(S \cup {x})
        /\ Cardinality(S \cup {x}) = Cardinality(S)
           \/ Cardinality(S \cup {x}) = Cardinality(S) + 1
    BY FS_AddElement
  <1> QED BY <1>1, <1>2

LEMMA MarketInitInv == MarketInit => MarketInv
  <1> SUFFICES ASSUME MarketInit PROVE MarketInv
    OBVIOUS
  <1> USE MarketAssumption
  <1>1. opp.places \in Places /\ opp.terms \in Terms
    BY DEF MarketInit
  <1>2. \A k \in Keys : app[k] = None
    BY DEF MarketInit, Keys
  <1>3. MarketTypeOK
    <2>1. opp \in [status : {"draft", "published", "paused", "closed"},
                   places : Places, terms : Terms, open : BOOLEAN]
      BY <1>1 DEF MarketInit
    <2>2. app \in [Keys -> Application \cup {None}]
      BY DEF MarketInit, Keys
    <2>3. cert \in [Profiles -> [id : 0..MaxUploads, active : BOOLEAN]]
      BY DEF MarketInit
    <2>4. txn \in [Handlers -> Txn]
      BY DEF MarketInit, Txn, NoTxn
    <2> QED BY <2>1, <2>2, <2>3, <2>4 DEF MarketTypeOK, Keys
  <1>4. \A d \in Dates : Approved(d) = {}
    BY <1>2 DEF Approved, Keys, None
  <1>5. CapacityRespected
    <2>1. opp.places \in Nat
      BY <1>1
    <2>2. \A d \in Dates : Cardinality(Approved(d)) = 0
      BY <1>4, FS_EmptySet
    <2> QED BY <2>1, <2>2 DEF CapacityRespected
  <1>6. TermsStand
    BY <1>2 DEF TermsStand, Keys, Standing, None
  <1>7. TxnsStand
    BY DEF MarketInit, TxnsStand, NoTxn
  <1>8. ActiveHasId
    BY DEF MarketInit, ActiveHasId
  <1> QED BY <1>3, <1>5, <1>6, <1>7, <1>8 DEF MarketInv

-----------------------------------------------------------------------------
\* The documents of each kind of transaction.
LEMMA WritesOf ==
    ASSUME NEW t \in Txn
    PROVE  /\ t.op = "none" => Writes(t) = {}
           /\ t.op = "apply" => Writes(t) = {Opp, t.p}
           /\ t.op \in {"review", "edit"} => Writes(t) = {Opp}
           /\ t.op \in {"none", "apply", "review", "edit"}
           /\ t.op = "none" => t = NoTxn
  BY DEF Txn, Writes, NoTxn

\* A committed write of the opportunity leaves nothing in flight.
LEMMA TouchOpp ==
    ASSUME MarketTypeOK, NEW docs, Opp \in docs, NEW h \in Handlers
    PROVE  Touch(docs)[h] = NoTxn
  <1>1. txn[h] \in Txn
    BY DEF MarketTypeOK
  <1>2. txn[h].op = "none" \/ Opp \in Writes(txn[h])
    BY <1>1, WritesOf
  <1> QED BY <1>1, <1>2, WritesOf DEF Touch

\* A write of a profile leaves no application of that profile in flight.
LEMMA TouchProfile ==
    ASSUME MarketTypeOK, NEW p \in Profiles, NEW h \in Handlers
    PROVE  /\ Touch({p})[h] \in {NoTxn, txn[h]}
           /\ Touch({p})[h].op = "apply" => Touch({p})[h].p # p
  <1>1. txn[h] \in Txn
    BY DEF MarketTypeOK
  <1>2. txn[h].op = "apply" /\ txn[h].p = p => Touch({p})[h] = NoTxn
    BY <1>1, WritesOf DEF Touch
  <1> QED BY <1>1, <1>2 DEF Touch, NoTxn

\* A step after which nothing is in flight has only to keep the word.
LEMMA ClearKeeps ==
    ASSUME \A h \in Handlers : txn'[h] = NoTxn
    PROVE  TxnsStand'
  BY DEF TxnsStand, NoTxn

\* Transactions dropped from a state that stands otherwise.
LEMMA FewerStand ==
    ASSUME TxnsStand, UNCHANGED <<opp, app, cert>>,
           \A g \in Handlers : txn'[g] \in {txn[g], NoTxn}
    PROVE  TxnsStand'
  <1>1. ASSUME NEW g \in Handlers
        PROVE  /\ txn'[g].op = "apply" => ApplyStands(txn'[g])
               /\ txn'[g].op = "review" => ReviewStands(txn'[g])
               /\ txn'[g].op = "edit" => EditStands(txn'[g])
    BY DEF TxnsStand, NoTxn
  <1> QED BY <1>1 DEF TxnsStand, ApplyStands, ReviewStands, EditStands, Permitted, Applied,
                      Standing, Full, Approved

\* A commit that writes the opportunity clears the handlers.
LEMMA CommitClears ==
    ASSUME MarketTypeOK, NEW h \in Handlers, txn[h].op \in {"apply", "review", "edit"},
           CommitTxn(h)
    PROVE  /\ \A g \in Handlers : txn'[g] = NoTxn
           /\ txn' \in [Handlers -> Txn]
  <1>1. txn[h] \in Txn
    BY DEF MarketTypeOK
  <1>2. Opp \in Writes(txn[h])
    BY <1>1, WritesOf
  <1>3. \A g \in Handlers : Touch(Writes(txn[h]))[g] = NoTxn
    BY <1>2, TouchOpp
  <1>4. DOMAIN Touch(Writes(txn[h])) = Handlers
    BY DEF Touch
  <1>5. txn' = [Touch(Writes(txn[h])) EXCEPT ![h] = NoTxn]
    BY DEF CommitTxn
  <1>6. \A g \in Handlers : txn'[g] = NoTxn
    BY <1>3, <1>4, <1>5
  <1>7. txn' = [g \in Handlers |-> NoTxn]
    BY <1>3, <1>4, <1>5 DEF Touch
  <1> QED BY <1>6, <1>7 DEF Txn

-----------------------------------------------------------------------------
\* What stands is a matter of the applications, the terms, the capacity and the
\* certificates of the profile.
LEMMA BeginKeeps ==
    ASSUME MarketInv, NEW h \in Handlers, NEW t \in Txn, BeginTxn(h, t),
           t.op = "apply" => ApplyStands(t),
           t.op = "review" => ReviewStands(t),
           t.op = "edit" => EditStands(t)
    PROVE  MarketInv'
  <1>1. UNCHANGED <<opp, app, cert>> /\ txn' = [txn EXCEPT ![h] = t]
    BY DEF BeginTxn
  <1>2. MarketTypeOK'
    BY <1>1 DEF MarketInv, MarketTypeOK
  <1>3. CapacityRespected' /\ TermsStand'
    BY <1>1 DEF MarketInv, CapacityRespected, TermsStand, Approved, Standing
  <1>4. ASSUME NEW g \in Handlers
        PROVE  /\ txn'[g].op = "apply" => ApplyStands(txn'[g])
               /\ txn'[g].op = "review" => ReviewStands(txn'[g])
               /\ txn'[g].op = "edit" => EditStands(txn'[g])
    BY <1>1 DEF MarketInv, MarketTypeOK, TxnsStand
  <1>5. TxnsStand'
    BY SMTT(30), <1>1, <1>4 DEF TxnsStand, ApplyStands, ReviewStands, EditStands, Permitted, Applied,
                      Standing, Full, Approved
  <1>6. ActiveHasId'
    BY <1>1 DEF MarketInv, ActiveHasId
  <1> QED BY <1>2, <1>3, <1>5, <1>6 DEF MarketInv

\* A provider applies.
LEMMA ApplyKeeps ==
    ASSUME MarketInv, NEW h \in Handlers
    PROVE  /\ \A p \in Profiles, d \in Dates : BeginApply(h, p, d) => MarketInv'
           /\ CommitApply(h) => MarketInv'
  <1> USE MarketAssumption
  <1>1. ASSUME NEW p \in Profiles, NEW d \in Dates, BeginApply(h, p, d) PROVE MarketInv'
    <2> DEFINE new == [status |-> "pending", paid |-> "not_due",
                       terms |-> opp.terms, cert |-> cert[p].id]
               t == [op |-> "apply", p |-> p, d |-> d, new |-> new]
    <2>1. cert[p] \in [id : 0..MaxUploads, active : BOOLEAN] /\ cert[p].active
          /\ opp.terms \in Terms
      BY <1>1 DEF BeginApply, MarketInv, MarketTypeOK
    <2>2. cert[p] = [id |-> cert[p].id, active |-> TRUE]
      BY <2>1
    <2>3. cert[p].id \in 1..MaxUploads
      <3>1. cert[p].id # 0
        BY <2>1 DEF MarketInv, ActiveHasId
      <3>2. cert[p].id \in 0..MaxUploads
        BY <2>1
      <3> QED BY <3>1, <3>2
    <2>4. new \in Application
      BY <2>1, <2>3 DEF Application
    <2>5. t \in Txn /\ BeginTxn(h, t)
      BY <1>1, <2>4 DEF Txn, BeginApply
    <2>6. ApplyStands(t)
      BY <2>2 DEF ApplyStands
    <2>7. t.op = "apply"
      OBVIOUS
    <2> HIDE DEF t, new
    <2> QED BY <2>5, <2>6, <2>7, BeginKeeps
  <1>2. ASSUME CommitApply(h) PROVE MarketInv'
    <2> DEFINE t == txn[h]
               k == <<t.p, t.d>>
    <2>1. t \in Txn /\ t.op = "apply" /\ ApplyStands(t)
      BY <1>2 DEF CommitApply, MarketInv, MarketTypeOK, TxnsStand
    <2>2. t.p \in Profiles /\ t.d \in Dates /\ t.new \in Application /\ k \in Keys
      BY <2>1 DEF Txn, NoTxn, Keys
    <2>3. /\ app' = [app EXCEPT ![k] = t.new] /\ ~Standing(k)
          /\ UNCHANGED <<opp, cert>> /\ CommitTxn(h)
      BY <1>2 DEF CommitApply
    <2>4. app \in [Keys -> Application \cup {None}]
      BY DEF MarketInv, MarketTypeOK, Keys
    <2>5. (\A g \in Handlers : txn'[g] = NoTxn) /\ txn' \in [Handlers -> Txn]
      BY <2>1, <2>3, CommitClears DEF MarketInv
    <2>6. app'[k] = t.new /\ \A x \in Keys : x # k => app'[x] = app[x]
      BY <2>2, <2>3, <2>4
    <2>7. MarketTypeOK'
      BY <2>2, <2>3, <2>4, <2>5 DEF MarketInv, MarketTypeOK, Keys
    <2>8. \A d \in Dates : Approved(d)' = Approved(d)
      BY <2>1, <2>2, <2>3, <2>6 DEF Approved, ApplyStands, Standing, Keys
    <2>9. CapacityRespected'
      BY <2>3, <2>8 DEF MarketInv, CapacityRespected
    <2>10. TermsStand'
      BY <2>1, <2>3, <2>6 DEF MarketInv, TermsStand, Standing, ApplyStands, Keys
    <2>11. ActiveHasId'
      BY <2>3 DEF MarketInv, ActiveHasId
    <2> QED BY <2>5, <2>7, <2>9, <2>10, <2>11, ClearKeeps DEF MarketInv
  <1> QED BY <1>1, <1>2

\* The organiser decides, or notes a payment: one more approval at most, and only
\* where there was room.
LEMMA ReviewKeeps ==
    ASSUME MarketInv, NEW h \in Handlers
    PROVE  /\ \A p \in Profiles, d \in Dates, e \in {"approved", "declined"} :
                 BeginReview(h, p, d, e) => MarketInv'
           /\ \A p \in Profiles, d \in Dates, e \in {"due", "settled"} :
                 BeginPayment(h, p, d, e) => MarketInv'
           /\ CommitReview(h) => MarketInv'
  <1> USE MarketAssumption
  <1>0. app \in [Keys -> Application \cup {None}]
    BY DEF MarketInv, MarketTypeOK, Keys
  <1>1. ASSUME NEW p \in Profiles, NEW d \in Dates, NEW e \in {"approved", "declined"},
               BeginReview(h, p, d, e)
        PROVE  MarketInv'
    <2> DEFINE k == <<p, d>>
               t == [op |-> "review", p |-> p, d |-> d, new |-> Decided(k, e)]
    <2>1. k \in Keys /\ app[k].status = "pending" /\ (e = "approved" => ~Full(d))
      BY <1>1 DEF BeginReview, Keys
    <2>2. app[k] \in Application
      BY <1>0, <2>1 DEF None
    <2>3. Decided(k, e) \in Application /\ Decided(k, e).terms = app[k].terms
          /\ Decided(k, e).status = e
      BY <2>2 DEF Decided, Application
    <2>4. t \in Txn /\ BeginTxn(h, t) /\ t.op = "review"
      BY <1>1, <2>3 DEF Txn, BeginReview
    <2>5. ReviewStands(t)
      BY <2>1, <2>3 DEF ReviewStands, Standing
    <2> HIDE DEF t
    <2> QED BY <2>4, <2>5, BeginKeeps
  <1>2. ASSUME NEW p \in Profiles, NEW d \in Dates, NEW e \in {"due", "settled"},
               BeginPayment(h, p, d, e)
        PROVE  MarketInv'
    <2> DEFINE k == <<p, d>>
               new == [app[k] EXCEPT !.paid = e]
               t == [op |-> "review", p |-> p, d |-> d, new |-> new]
    <2>1. k \in Keys /\ app[k].status = "approved"
      BY <1>2 DEF BeginPayment, Keys
    <2>2. app[k] \in Application
      BY <1>0, <2>1 DEF None
    <2>3. new \in Application /\ new.terms = app[k].terms /\ new.status = "approved"
      BY <2>1, <2>2 DEF Application
    <2>4. t \in Txn /\ BeginTxn(h, t) /\ t.op = "review"
      BY <1>2, <2>3 DEF Txn, BeginPayment
    <2>5. ReviewStands(t)
      BY <2>1, <2>3 DEF ReviewStands, Standing
    <2> HIDE DEF t
    <2> QED BY <2>4, <2>5, BeginKeeps
  <1>3. ASSUME CommitReview(h) PROVE MarketInv'
    <2> DEFINE t == txn[h]
               k == <<t.p, t.d>>
    <2>1. t \in Txn /\ t.op = "review" /\ ReviewStands(t)
      BY <1>3 DEF CommitReview, MarketInv, MarketTypeOK, TxnsStand
    <2>2. t.p \in Profiles /\ t.d \in Dates /\ t.new \in Application /\ k \in Keys
      BY <2>1 DEF Txn, NoTxn, Keys
    <2>3. /\ app' = [app EXCEPT ![k] = t.new]
          /\ UNCHANGED <<opp, cert>> /\ CommitTxn(h)
      BY <1>3 DEF CommitReview
    <2>5. (\A g \in Handlers : txn'[g] = NoTxn) /\ txn' \in [Handlers -> Txn]
      BY <2>1, <2>3, CommitClears DEF MarketInv
    <2>6. app'[k] = t.new /\ \A x \in Keys : x # k => app'[x] = app[x]
      BY <1>0, <2>2, <2>3
    <2>7. MarketTypeOK'
      BY <1>0, <2>2, <2>3, <2>5 DEF MarketInv, MarketTypeOK, Keys
    <2>8. CapacityRespected'
      <3> SUFFICES ASSUME opp.places # 0, NEW d \in Dates
                   PROVE  Cardinality(Approved(d)') <= opp.places
        BY <2>3 DEF CapacityRespected
      <3>0. opp.places \in Nat /\ Cardinality(Approved(d)) <= opp.places
        BY DEF MarketInv, MarketTypeOK, CapacityRespected
      <3>1. IsFiniteSet(Approved(d)) /\ Cardinality(Approved(d)) \in Nat
        BY ApprovedIsFinite
      <3>2. CASE d = t.d /\ t.new.status = "approved" /\ app[k].status # "approved"
        <4>1. Cardinality(Approved(d)) + 1 <= opp.places
          BY <2>1, <3>0, <3>1, <3>2 DEF ReviewStands, Full
        <4>2. Approved(d)' \subseteq Approved(d) \cup {t.p}
          BY <2>2, <2>6 DEF Approved, Keys
        <4>3. /\ IsFiniteSet(Approved(d) \cup {t.p})
              /\ Cardinality(Approved(d) \cup {t.p}) \in Nat
              /\ Cardinality(Approved(d) \cup {t.p}) <= Cardinality(Approved(d)) + 1
          BY <3>1, OneMore
        <4>4. /\ Cardinality(Approved(d)') <= Cardinality(Approved(d) \cup {t.p})
              /\ IsFiniteSet(Approved(d)')
          BY <4>2, <4>3, FS_Subset
        <4>5. Cardinality(Approved(d)') \in Nat
          BY <4>4, FS_CardinalityType
        <4> QED BY <3>0, <3>1, <4>1, <4>3, <4>4, <4>5
      <3>3. CASE ~(d = t.d /\ t.new.status = "approved" /\ app[k].status # "approved")
        <4>1. Approved(d)' \subseteq Approved(d)
          BY <2>2, <2>6, <3>3 DEF Approved, Keys
        <4>2. /\ Cardinality(Approved(d)') <= Cardinality(Approved(d))
              /\ IsFiniteSet(Approved(d)')
          BY <3>1, <4>1, FS_Subset
        <4>3. Cardinality(Approved(d)') \in Nat
          BY <4>2, FS_CardinalityType
        <4> QED BY <3>0, <3>1, <4>2, <4>3
      <3> QED BY <3>2, <3>3
    <2>9. TermsStand'
      BY <2>1, <2>3, <2>6 DEF MarketInv, TermsStand, Standing, ReviewStands, Keys
    <2>10. ActiveHasId'
      BY <2>3 DEF MarketInv, ActiveHasId
    <2> QED BY <2>5, <2>7, <2>8, <2>9, <2>10, ClearKeeps DEF MarketInv
  <1> QED BY <1>1, <1>2, <1>3

\* The organiser edits.
LEMMA EditKeeps ==
    ASSUME MarketInv, NEW h \in Handlers
    PROVE  /\ \A n \in Places, c \in Terms, o \in BOOLEAN :
                 BeginEdit(h, n, c, o) => MarketInv'
           /\ CommitEdit(h) => MarketInv'
  <1> USE MarketAssumption
  <1>1. ASSUME NEW n \in Places, NEW c \in Terms, NEW o \in BOOLEAN, BeginEdit(h, n, c, o)
        PROVE  MarketInv'
    <2> DEFINE t == [op |-> "edit", places |-> n, terms |-> c, open |-> o]
    <2>1. t \in Txn /\ BeginTxn(h, t) /\ t.op = "edit"
      BY <1>1 DEF Txn, BeginEdit
    <2>2. EditStands(t)
      BY <1>1 DEF EditStands, BeginEdit
    <2> HIDE DEF t
    <2> QED BY <2>1, <2>2, BeginKeeps
  <1>2. ASSUME CommitEdit(h) PROVE MarketInv'
    <2> DEFINE t == txn[h]
    <2>1. t \in Txn /\ t.op = "edit" /\ EditStands(t)
      BY <1>2 DEF CommitEdit, MarketInv, MarketTypeOK, TxnsStand
    <2>2. t.places \in Places /\ t.terms \in Terms /\ t.open \in BOOLEAN
      BY <2>1 DEF Txn, NoTxn
    <2>3. /\ opp' = [opp EXCEPT !.places = t.places, !.terms = t.terms, !.open = t.open]
          /\ UNCHANGED <<app, cert>> /\ CommitTxn(h)
      BY <1>2 DEF CommitEdit
    <2>4. opp \in [status : {"draft", "published", "paused", "closed"},
                   places : Places, terms : Terms, open : BOOLEAN]
      BY DEF MarketInv, MarketTypeOK
    <2>5. (\A g \in Handlers : txn'[g] = NoTxn) /\ txn' \in [Handlers -> Txn]
      BY <2>1, <2>3, CommitClears DEF MarketInv
    <2>6. opp'.places = t.places /\ opp'.terms = t.terms
      BY <2>3, <2>4
    <2>7. opp' \in [status : {"draft", "published", "paused", "closed"},
                    places : Places, terms : Terms, open : BOOLEAN]
      BY <2>2, <2>3, <2>4
    <2>8. MarketTypeOK'
      BY <2>3, <2>5, <2>7 DEF MarketInv, MarketTypeOK
    <2>9. \A d \in Dates : Approved(d)' = Approved(d)
      BY <2>3 DEF Approved
    <2>10. CapacityRespected'
      <3>1. CASE Applied
        BY <2>1, <2>6, <2>9, <3>1 DEF EditStands, Permitted, CapacityRespected
      <3>2. CASE ~Applied
        <4>1. \A d \in Dates : Approved(d) = {}
          BY <3>2 DEF Approved, Applied, None
        <4>2. t.places \in Nat
          BY <2>2
        <4>3. \A d \in Dates : Cardinality(Approved(d)') = 0
          BY <2>9, <4>1, FS_EmptySet
        <4> QED BY <2>6, <4>2, <4>3 DEF CapacityRespected
      <3> QED BY <3>1, <3>2
    <2>11. TermsStand'
      BY <2>1, <2>3, <2>6
      DEF MarketInv, TermsStand, Standing, EditStands, Permitted, Applied, None
    <2>12. ActiveHasId'
      BY <2>3 DEF MarketInv, ActiveHasId
    <2> QED BY <2>5, <2>8, <2>10, <2>11, <2>12, ClearKeeps DEF MarketInv
  <1> QED BY <1>1, <1>2

\* The status changes, the deadline passes, a handler gives up.
LEMMA OpportunityKeeps ==
    ASSUME MarketInv
    PROVE  /\ \A s \in {"published", "paused", "closed"} : SetStatus(s) => MarketInv'
           /\ DeadlinePasses => MarketInv'
           /\ \A h \in Handlers : AbortTxn(h) => MarketInv'
  <1>0. /\ opp \in [status : {"draft", "published", "paused", "closed"},
                    places : Places, terms : Terms, open : BOOLEAN]
        /\ txn \in [Handlers -> Txn]
    BY DEF MarketInv, MarketTypeOK
  <1>1. ASSUME NEW s \in {"published", "paused", "closed"}, SetStatus(s) PROVE MarketInv'
    <2>1. /\ opp' = [opp EXCEPT !.status = s] /\ txn' = Touch({Opp})
          /\ UNCHANGED <<app, cert>>
      BY <1>1 DEF SetStatus
    <2>2. opp'.places = opp.places /\ opp'.terms = opp.terms
      BY <1>0, <2>1
    <2>3. \A h \in Handlers : txn'[h] = NoTxn
      BY <2>1, TouchOpp DEF MarketInv
    <2>4. txn' \in [Handlers -> Txn]
      BY <2>1, <1>0 DEF Touch, Txn
    <2>5. opp' \in [status : {"draft", "published", "paused", "closed"},
                    places : Places, terms : Terms, open : BOOLEAN]
      BY <1>0, <2>1
    <2>6. MarketTypeOK'
      BY <2>1, <2>4, <2>5 DEF MarketInv, MarketTypeOK
    <2>7. CapacityRespected' /\ TermsStand' /\ ActiveHasId'
      BY <2>1, <2>2
      DEF MarketInv, CapacityRespected, TermsStand, ActiveHasId, Approved, Standing
    <2> QED BY <2>3, <2>6, <2>7, ClearKeeps DEF MarketInv
  <1>2. ASSUME DeadlinePasses PROVE MarketInv'
    <2>1. opp' = [opp EXCEPT !.open = FALSE] /\ UNCHANGED <<app, cert, txn>>
      BY <1>2 DEF DeadlinePasses
    <2>2. opp'.places = opp.places /\ opp'.terms = opp.terms
      BY <1>0, <2>1
    <2>3. opp' \in [status : {"draft", "published", "paused", "closed"},
                    places : Places, terms : Terms, open : BOOLEAN]
      BY <1>0, <2>1
    <2>4. MarketTypeOK'
      BY <2>1, <2>3 DEF MarketInv, MarketTypeOK
    <2>5. CapacityRespected' /\ TermsStand' /\ ActiveHasId'
      BY <2>1, <2>2
      DEF MarketInv, CapacityRespected, TermsStand, ActiveHasId, Approved, Standing
    <2>6. TxnsStand'
      BY <2>1, <2>2 DEF MarketInv, TxnsStand, ApplyStands, ReviewStands, EditStands,
                        Permitted, Applied, Standing, Full, Approved
    <2> QED BY <2>4, <2>5, <2>6 DEF MarketInv
  <1>3. ASSUME NEW h \in Handlers, AbortTxn(h) PROVE MarketInv'
    <2>1. txn' = [txn EXCEPT ![h] = NoTxn] /\ UNCHANGED <<opp, app, cert>>
      BY <1>3 DEF AbortTxn
    <2>2. \A g \in Handlers : txn'[g] \in {txn[g], NoTxn}
      BY <1>0, <2>1
    <2>3. MarketTypeOK'
      BY <1>0, <2>1 DEF MarketInv, MarketTypeOK, Txn
    <2>4. CapacityRespected' /\ TermsStand' /\ ActiveHasId'
      BY <2>1 DEF MarketInv, CapacityRespected, TermsStand, ActiveHasId, Approved, Standing
    <2>5. TxnsStand'
      BY <2>1, <2>2, FewerStand DEF MarketInv
    <2> QED BY <2>3, <2>4, <2>5 DEF MarketInv
  <1> QED BY <1>1, <1>2, <1>3

\* A certificate is uploaded or removed: no application of its profile is in
\* flight afterwards.
LEMMA CertificatesKeep ==
    ASSUME MarketInv, NEW p \in Profiles
    PROVE  /\ UploadCertificate(p) => MarketInv'
           /\ RemoveCertificate(p) => MarketInv'
  <1>0. /\ cert \in [Profiles -> [id : 0..MaxUploads, active : BOOLEAN]]
        /\ txn \in [Handlers -> Txn] /\ MaxUploads \in Nat
    BY MarketAssumption DEF MarketInv, MarketTypeOK
  <1>1. ASSUME NEW c \in [id : 0..MaxUploads, active : BOOLEAN],
               cert' = [cert EXCEPT ![p] = c], c.active => c.id # 0,
               txn' = Touch({p}), UNCHANGED <<opp, app>>
        PROVE  MarketInv'
    <2>0. \A h \in Handlers : txn'[h] = NoTxn \/ txn'[h] = txn[h]
      BY <1>1, TouchProfile DEF MarketInv
    <2>1. \A h \in Handlers : txn'[h].op = "apply" => txn'[h].p # p
      BY <1>1, TouchProfile DEF MarketInv
    <2>2. txn' \in [Handlers -> Txn]
      BY <1>0, <1>1 DEF Touch, Txn
    <2>3. cert' \in [Profiles -> [id : 0..MaxUploads, active : BOOLEAN]]
      BY <1>0, <1>1
    <2>4. \A q \in Profiles : q # p => cert'[q] = cert[q]
      BY <1>0, <1>1
    <2>5. MarketTypeOK'
      BY <1>1, <2>2, <2>3 DEF MarketInv, MarketTypeOK
    <2>6. CapacityRespected' /\ TermsStand'
      BY <1>1 DEF MarketInv, CapacityRespected, TermsStand, Approved, Standing
    <2>7. ActiveHasId'
      <3>1. cert'[p] = c
        BY <1>0, <1>1
      <3> QED BY <1>1, <2>4, <3>1 DEF MarketInv, ActiveHasId
    <2>8. ASSUME NEW h \in Handlers, txn'[h].op # "none"
          PROVE  txn'[h] = txn[h] /\ txn[h] \in Txn
      <3>1. txn[h] \in Txn
        BY <1>0
      <3>2. NoTxn.op = "none"
        BY DEF NoTxn
      <3>3. txn'[h] # NoTxn
        BY <2>8, <3>2
      <3> QED BY <2>0, <3>1, <3>3
    <2>9. ASSUME NEW h \in Handlers, txn'[h].op = "apply"
          PROVE  /\ txn'[h].new.status = "pending" /\ txn'[h].new.terms = opp.terms
                 /\ cert'[txn'[h].p] = [id |-> txn'[h].new.cert, active |-> TRUE]
      <3>1. txn'[h] = txn[h] /\ txn[h] \in Txn
        BY <2>8, <2>9
      <3>2. txn[h].p \in Profiles /\ txn[h].p # p /\ ApplyStands(txn[h])
        BY <2>1, <2>9, <3>1 DEF Txn, NoTxn, MarketInv, TxnsStand
      <3> QED BY <2>4, <3>1, <3>2 DEF ApplyStands
    <2>10. ASSUME NEW h \in Handlers
           PROVE  /\ txn'[h].op = "review" => ReviewStands(txn'[h])
                  /\ txn'[h].op = "edit" => EditStands(txn'[h])
      BY <2>8 DEF MarketInv, TxnsStand
    <2>11. TxnsStand'
      BY ZenonT(30), <1>1, <2>9, <2>10 DEF TxnsStand, ApplyStands, ReviewStands, EditStands, Permitted,
                               Applied, Standing, Full, Approved
    <2> QED BY <2>5, <2>6, <2>7, <2>11 DEF MarketInv
  <1>2. ASSUME UploadCertificate(p) PROVE MarketInv'
    <2> DEFINE c == [id |-> cert[p].id + 1, active |-> TRUE]
    <2>1. /\ cert' = [cert EXCEPT ![p] = c] /\ cert[p].id < MaxUploads
          /\ txn' = Touch({p}) /\ UNCHANGED <<opp, app>>
      BY <1>2 DEF UploadCertificate
    <2>2. c \in [id : 0..MaxUploads, active : BOOLEAN] /\ c.id # 0
      BY <1>0, <2>1
    <2> HIDE DEF c
    <2> QED BY <1>1, <2>1, <2>2
  <1>3. ASSUME RemoveCertificate(p) PROVE MarketInv'
    <2> DEFINE c == [cert[p] EXCEPT !.active = FALSE]
    <2>1. /\ cert' = [cert EXCEPT ![p] = c]
          /\ txn' = Touch({p}) /\ UNCHANGED <<opp, app>>
      BY <1>3, <1>0 DEF RemoveCertificate
    <2>2. c \in [id : 0..MaxUploads, active : BOOLEAN] /\ ~c.active
      BY <1>0
    <2> HIDE DEF c
    <2> QED BY <1>1, <2>1, <2>2
  <1> QED BY <1>2, <1>3

-----------------------------------------------------------------------------
LEMMA MarketStepInv == MarketInv /\ [MarketNext]_marketVars => MarketInv'
  <1> SUFFICES ASSUME MarketInv, [MarketNext]_marketVars PROVE MarketInv'
    OBVIOUS
  <1>1. CASE MarketNext
    BY <1>1, ApplyKeeps, ReviewKeeps, EditKeeps, OpportunityKeeps, CertificatesKeep
    DEF MarketNext
  <1>2. CASE UNCHANGED marketVars
    <2>1. UNCHANGED <<opp, app, cert, txn>>
      BY <1>2 DEF marketVars
    <2>2. MarketTypeOK' /\ CapacityRespected' /\ TermsStand' /\ ActiveHasId'
      BY <2>1
      DEF MarketInv, MarketTypeOK, CapacityRespected, TermsStand, ActiveHasId, Approved, Standing
    <2>3. TxnsStand'
      BY <2>1, FewerStand DEF MarketInv
    <2> QED BY <2>2, <2>3 DEF MarketInv
  <1> QED BY <1>1, <1>2

\* Every commit of a route keeps the invariant (marketplace/routes.ts).
THEOREM MarketInductive == MarketSpec => []MarketInv
  BY MarketInitInv, MarketStepInv, PTL DEF MarketSpec

\* An application is new only when it commits: what it was made with is then
\* still what the profile has.
LEMMA ApplicationStep ==
    ASSUME MarketInv, [MarketNext]_marketVars, NEW p \in Profiles, NEW d \in Dates,
           ~Standing(<<p, d>>), app'[<<p, d>>].status = "pending"
    PROVE  cert[p] = [id |-> app'[<<p, d>>].cert, active |-> TRUE]
  <1> DEFINE k == <<p, d>>
  <1>0. app \in [Keys -> Application \cup {None}] /\ k \in Keys
    BY DEF MarketInv, MarketTypeOK, Keys
  <1>1. app' # app
    BY DEF Standing
  <1>2. PICK h \in Handlers : CommitApply(h) \/ CommitReview(h)
    BY ZenonT(30), <1>1 DEF MarketNext, marketVars, BeginApply, BeginReview, BeginPayment, BeginEdit,
                BeginTxn, CommitEdit, AbortTxn, SetStatus, DeadlinePasses,
                UploadCertificate, RemoveCertificate
  <1> DEFINE t == txn[h]
             j == <<t.p, t.d>>
  <1>3. t \in Txn /\ (t.op = "apply" => ApplyStands(t)) /\ (t.op = "review" => ReviewStands(t))
    BY DEF MarketInv, MarketTypeOK, TxnsStand
  <1>4. app' = [app EXCEPT ![j] = t.new] /\ t.op \in {"apply", "review"}
    BY <1>2 DEF CommitApply, CommitReview
  <1>5. j = k
    BY <1>0, <1>4 DEF Standing
  <1>6. t.p = p /\ app'[k] = t.new
    BY <1>0, <1>4, <1>5
  <1>7. t.op = "apply"
    BY <1>3, <1>4, <1>5 DEF ReviewStands
  <1> QED BY <1>3, <1>6, <1>7 DEF ApplyStands

-----------------------------------------------------------------------------
\* The variables keep their types.
THEOREM MarketTypeCorrect == MarketSpec => []MarketTypeOK
  BY MarketInductive, PTL DEF MarketInv

\* However applications, decisions and edits overlap, no date has more approvals
\* than places and no applicant finds the terms changed.
THEOREM OrganiserKeepsHerWord == MarketSpec => []MarketKeepsItsWord
  <1>1. MarketInv => MarketKeepsItsWord
    BY DEF MarketInv, MarketKeepsItsWord
  <1> QED BY <1>1, MarketInductive, PTL

\* An application is made with the certificate that is active when it commits.
THEOREM NoStaleCertificate == MarketSpec => AppliedWithActiveCertificate
  <1>1. MarketInv /\ [MarketNext]_marketVars =>
        [ \A p \in Profiles, d \in Dates :
            LET k == <<p, d>> IN
            (~Standing(k) /\ app'[k].status = "pending")
               => cert[p] = [id |-> app'[k].cert, active |-> TRUE] ]_marketVars
    BY ApplicationStep
  <1> QED BY <1>1, MarketInductive, PTL DEF MarketSpec, AppliedWithActiveCertificate

-----------------------------------------------------------------------------
(* Guarantees.                                                             *)

\* A step of the life of a request, or none.
LifeStep(from, to) ==
    \/ to = from
    \/ from = "requested" /\ to \in {"accepted", "provider_rejected", "withdrawn"}
    \/ from \in {"accepted", "pending"} /\ to \in {"pending", "paid", "rejected"}

\* What is about to be saved is one step from what is there.
SavingIsDue ==
    \A h \in Desks : saving[h] # NotSaving =>
        /\ LifeStep(request.status, saving[h].status)
        /\ saving[h].agreement \in {NoProvider, saving[h].provider}

GuaranteeInv == GuaranteeTypeOK /\ AgreementStaysWithProvider /\ SavingIsDue

\* The initial request has no agreement and no handler saves.
LEMMA GuaranteeInitInv == GuaranteeInit => GuaranteeInv
  BY GuaranteeAssumption
  DEF GuaranteeInit, GuaranteeInv, GuaranteeTypeOK, AgreementStaysWithProvider,
      SavingIsDue, Request, Statuses, NotSaving

\* Loading keeps the invariant when what will be saved is due.
LEMMA LoadKeeps ==
    ASSUME GuaranteeInv, NEW h \in Desks, NEW r \in Request, LoadRequest(h, r),
           LifeStep(request.status, r.status), r.agreement \in {NoProvider, r.provider}
    PROVE  GuaranteeInv'
  <1>1. GuaranteeTypeOK'
    BY DEF GuaranteeInv, GuaranteeTypeOK, LoadRequest
  <1>2. AgreementStaysWithProvider'
    BY DEF GuaranteeInv, AgreementStaysWithProvider, LoadRequest
  <1>3. SavingIsDue'
    BY DEF GuaranteeInv, GuaranteeTypeOK, SavingIsDue, LoadRequest
  <1> QED BY <1>1, <1>2, <1>3 DEF GuaranteeInv

\* Every handler decides on something that is due.
LEMMA GuaranteeStepInv == GuaranteeInv /\ [GuaranteeNext]_guaranteeVars => GuaranteeInv'
  <1> SUFFICES ASSUME GuaranteeInv, [GuaranteeNext]_guaranteeVars PROVE GuaranteeInv'
    OBVIOUS
  <1> USE GuaranteeAssumption
  <1>t. request \in Request /\ request.agreement \in {NoProvider, request.provider}
    BY DEF GuaranteeInv, GuaranteeTypeOK, AgreementStaysWithProvider
  <1>1. ASSUME NEW h \in Desks, NEW p \in Providers, EditRequest(h, p)
        PROVE GuaranteeInv'
    <2> DEFINE r == [request EXCEPT !.provider = p,
                       !.agreement = IF p = request.provider THEN @ ELSE NoProvider]
    <2>1. r \in Request /\ r.agreement \in {NoProvider, r.provider}
      BY <1>t DEF Request
    <2>2. LifeStep(request.status, r.status)
      BY <1>t DEF LifeStep, Request
    <2>3. LoadRequest(h, r)
      BY <1>1 DEF EditRequest
    <2> HIDE DEF r
    <2> QED BY <2>1, <2>2, <2>3, LoadKeeps
  <1>2. ASSUME NEW h \in Desks, AttachAgreement(h) PROVE GuaranteeInv'
    <2> DEFINE r == [request EXCEPT !.agreement = request.provider]
    <2>1. r \in Request /\ r.agreement \in {NoProvider, r.provider}
      BY <1>t DEF Request
    <2>2. LifeStep(request.status, r.status)
      BY <1>t DEF LifeStep, Request
    <2>3. LoadRequest(h, r)
      BY <1>2 DEF AttachAgreement
    <2> HIDE DEF r
    <2> QED BY <2>1, <2>2, <2>3, LoadKeeps
  <1>3. ASSUME NEW h \in Desks, NEW s \in Statuses,
               AnswerRequest(h, s) \/ ReviewRequest(h, s)
        PROVE GuaranteeInv'
    <2> DEFINE r == [request EXCEPT !.status = s]
    <2>1. r \in Request /\ r.agreement \in {NoProvider, r.provider}
      BY <1>t DEF Request
    <2>2. LifeStep(request.status, r.status)
      BY <1>t, <1>3 DEF LifeStep, Request, AnswerRequest, ReviewRequest
    <2>3. LoadRequest(h, r)
      BY <1>3 DEF AnswerRequest, ReviewRequest
    <2> HIDE DEF r
    <2> QED BY <2>1, <2>2, <2>3, LoadKeeps
  <1>4. ASSUME NEW h \in Desks, SaveRequest(h) PROVE GuaranteeInv'
    <2>1. saving[h] \in Request
      BY <1>4 DEF GuaranteeInv, GuaranteeTypeOK, SaveRequest
    <2>2. request' = saving[h] /\ saving' = [g \in Desks |-> NotSaving]
      BY <1>4 DEF SaveRequest, OthersFail
    <2> QED BY <1>4, <2>1, <2>2
         DEF GuaranteeInv, GuaranteeTypeOK, AgreementStaysWithProvider, SavingIsDue, SaveRequest
  <1>5. ASSUME NEW h \in Desks, DropRequest(h) PROVE GuaranteeInv'
    BY <1>5 DEF GuaranteeInv, GuaranteeTypeOK, AgreementStaysWithProvider, SavingIsDue,
                DropRequest
  <1>6. CASE UNCHANGED guaranteeVars
    BY <1>6 DEF GuaranteeInv, GuaranteeTypeOK, AgreementStaysWithProvider, SavingIsDue,
                guaranteeVars
  <1> QED BY <1>1, <1>2, <1>3, <1>4, <1>5, <1>6 DEF GuaranteeNext

\* The invariant holds of every behaviour of the request.
LEMMA GuaranteeInvHolds == GuaranteeSpec => []GuaranteeInv
  BY GuaranteeInitInv, GuaranteeStepInv, PTL DEF GuaranteeSpec

\* Every document and every pending save is a request (models/guarantee.model).
THEOREM GuaranteeTypeCorrect == GuaranteeSpec => []GuaranteeTypeOK
  <1>1. GuaranteeInv => GuaranteeTypeOK
    BY DEF GuaranteeInv
  <1> QED BY GuaranteeInvHolds, <1>1, PTL

\* An agreement is only ever there for the provider it was signed for, for any
\* number of providers and of handlers that overlap.
THEOREM AgreementNeverCarriesOver == GuaranteeSpec => []AgreementStaysWithProvider
  <1>1. GuaranteeInv => AgreementStaysWithProvider
    BY DEF GuaranteeInv
  <1> QED BY GuaranteeInvHolds, <1>1, PTL

\* A step of the request is a step of its life, or changes no status.
LEMMA LifeStepSimulation ==
    GuaranteeInv /\ [GuaranteeNext]_guaranteeVars
        => [Life!Respond \/ Life!Review]_(request.status)
  <1> SUFFICES ASSUME GuaranteeInv, [GuaranteeNext]_guaranteeVars,
                      request.status' # request.status
               PROVE  Life!Respond \/ Life!Review
    OBVIOUS
  <1>1. PICK h \in Desks : SaveRequest(h)
    BY DEF GuaranteeNext, guaranteeVars, EditRequest, AttachAgreement, AnswerRequest,
           ReviewRequest, DropRequest, LoadRequest
  <1>2. LifeStep(request.status, request'.status)
    BY <1>1 DEF GuaranteeInv, SavingIsDue, SaveRequest
  <1> QED BY <1>2 DEF LifeStep, Life!Respond, Life!Review

\* The handlers implement the life of GuaranteeLife: one answer, then reviews
\* until a final one.
THEOREM GuaranteeImplementsLife == GuaranteeSpec => LifeIsFollowed
  <1>1. GuaranteeInit => Life!LifeInit
    BY DEF GuaranteeInit, Life!LifeInit
  <1> QED BY <1>1, GuaranteeInvHolds, LifeStepSimulation, PTL
       DEF GuaranteeSpec, LifeIsFollowed, Life!LifeSpec

-----------------------------------------------------------------------------
(* The proceeds of an event.                                                  *)

HeldNow   == { s \in EventSales : HeldByCarrot(s) }
PaidTotal == FieldSum(payout, "amount", Paid)
Proceeds  == SaleProceeds * Cardinality(HeldNow)

(* One request is active at a time; a decision in flight is still the one its *)
(* request waits for, and money about to be sent is still covered.            *)
OneRequest == \A q, r \in Requests : Active(q) /\ Active(r) => q = r
MovesStand ==
    \A o \in Offices : office[o].op = "move" =>
       LET r == office[o].id IN
       /\ office[o].to \in {"approved", "declined"} => Active(r)
       /\ office[o].to = "paid" =>
             /\ payout[r].status = "approved"
             /\ PaidTotal + payout[r].amount <= Proceeds

PayoutInv == PayoutTypeOK /\ OneRequest /\ MovesStand /\ PaidTotal <= Proceeds

LEMMA PayoutShapes ==
    ASSUME PayoutTypeOK, NEW o \in Offices
    PROVE  /\ office[o] = Idle <=> office[o].op = "idle"
           /\ office[o].op \in {"idle", "request", "move"}
           /\ office[o].op = "request" => office[o].amount \in Int
           /\ office[o].op = "move" => office[o].id \in Requests /\ office[o].to \in Moves
BY DEF PayoutTypeOK, Idle, Amounts

LEMMA PayoutNumbers ==
    ASSUME PayoutTypeOK
    PROVE  /\ IsFiniteSet(HeldNow) /\ Cardinality(HeldNow) \in Nat
           /\ IsFiniteSet(Paid) /\ Paid \subseteq Requests
           /\ \A r \in Requests : payout[r].amount \in Int
           /\ PaidTotal \in Int /\ Proceeds \in Nat /\ SaleProceeds \in Nat
           /\ VendorFees \in Nat
<1>1. /\ IsFiniteSet(HeldNow) /\ Cardinality(HeldNow) \in Nat
      /\ IsFiniteSet(Paid) /\ Paid \subseteq Requests
  BY PayoutAssumption, FS_Subset, FS_CardinalityType DEF HeldNow, Paid
<1>2. \A r \in Requests : payout[r].amount \in Int /\ payout[r]["amount"] \in Int
  BY DEF PayoutTypeOK, Amounts
<1>3. PaidTotal \in Int
  BY <1>1, <1>2, FieldSame DEF PaidTotal
<1>4. SaleProceeds \in Nat /\ SaleTotal - SaleProceeds \in Nat
  BY PayoutAssumption
<1>5. Proceeds \in Nat
  BY <1>1, <1>4, Products DEF Proceeds
<1>6. Cardinality({ s \in EventSales : earned[s].custody = "vendor" }) \in Nat
  BY PayoutAssumption, FS_Subset, FS_CardinalityType
<1>7. VendorFees \in Nat
  BY <1>4, <1>6, Products DEF VendorFees
<1> QED
  BY <1>1, <1>2, <1>3, <1>4, <1>5, <1>7

(* The library's fold of the amounts is their sum. *)
LEMMA TotalIsSum == ASSUME PayoutTypeOK PROVE TotalPaid = PaidTotal
<1>1. TotalPaid = FieldFold(payout, "amount", Paid)
  BY DEF TotalPaid, FieldFold, MapThenSumSet, MapThenFoldSet
<1> QED
  BY <1>1, PayoutNumbers, FoldOfField DEF PaidTotal

(* The balance promises no more than the proceeds that are not paid out.      *)
LEMMA BalanceIsCovered ==
    ASSUME PayoutTypeOK
    PROVE  AvailableBalance \in Int /\ AvailableBalance <= Proceeds - PaidTotal
<1> DEFINE S == HeldNow
           f == [s \in S |-> SaleProceeds - earned[s].refund]
           Solves(g) == g = [T \in SUBSET S |->
                               IF T = {} THEN 0
                               ELSE (SaleProceeds - earned[Pick(T)].refund) + g[T \ {Pick(T)}]]
           h == CHOOSE g : Solves(g)
<1>1. MapThenSumSet(LAMBDA s : SaleProceeds - earned[s].refund,
                    { s \in EventSales : HeldByCarrot(s) }) = h[S]
  BY DEF HeldNow, MapThenSumSet, MapThenFoldSet, Pick
<1>2. ASSUME NEW g PROVE Solves(g) <=> Adds(f, g, S)
  <2>1. \A T \in SUBSET S : T # {} => f[Pick(T)] = SaleProceeds - earned[Pick(T)].refund
    BY PickIn
  <2> HIDE DEF f, S
  <2> DEFINE a == [T \in SUBSET S |->
                     IF T = {} THEN 0
                     ELSE (SaleProceeds - earned[Pick(T)].refund) + g[T \ {Pick(T)}]]
             b == [T \in SUBSET S |->
                     IF T = {} THEN 0 ELSE f[Pick(T)] + g[T \ {Pick(T)}]]
  <2>2. a = b
    BY <2>1
  <2>3. (Solves(g) <=> g = a) /\ (Adds(f, g, S) <=> g = b)
    BY DEF Adds
  <2> QED
    BY <2>2, <2>3
<1>3. \A s \in S : f[s] \in Int /\ f[s] <= SaleProceeds
  BY PayoutAssumption DEF HeldNow, PayoutTypeOK
<1>4. IsFiniteSet(S) /\ SaleProceeds \in Nat
  BY PayoutNumbers
<1>5. AvailableBalance = h[S] - VendorFees - PaidTotal
  BY <1>1, TotalIsSum DEF AvailableBalance
<1>6. Proceeds = SaleProceeds * Cardinality(S)
  BY DEF Proceeds
<1> HIDE DEF f, Solves, S
<1>7. Solves(h)
  BY <1>2, <1>4, AddsExists
<1> HIDE DEF h
<1>8. Adds(f, h, S) /\ Adds(f, Chosen(f, S), S)
  BY <1>2, <1>4, <1>7, AddsExists DEF Chosen
<1>9. h[S] = SumFunctionOnSet(f, S)
  BY <1>4, <1>8, AddsAgree, SumIsChosen
<1>10. /\ SumFunctionOnSet(f, S) \in Int
       /\ SumFunctionOnSet(f, S) <= SaleProceeds * Cardinality(S)
  BY <1>3, <1>4, SumInt, SumBounded
<1>11. VendorFees \in Nat /\ PaidTotal \in Int /\ Proceeds \in Nat
  BY PayoutNumbers
<1> QED
  BY ONLY <1>5, <1>6, <1>9, <1>10, <1>11

LEMMA PaidTotalStays ==
    ASSUME PayoutTypeOK,
           \A r \in Requests : /\ payout'[r].status = "paid" <=> payout[r].status = "paid"
                               /\ payout[r].status = "paid" =>
                                     payout'[r].amount = payout[r].amount
    PROVE  PaidTotal' = PaidTotal
<1>1. Paid' = Paid
  BY DEF Paid
<1>2. /\ IsFiniteSet(Paid)
      /\ \A r \in Paid : /\ payout[r]["amount"] \in Int
                         /\ payout'[r]["amount"] = payout[r]["amount"]
  BY PayoutNumbers DEF Paid
<1>3. FieldSum(payout', "amount", Paid) = FieldSum(payout, "amount", Paid)
  BY ONLY <1>2, FieldSame
<1> QED
  BY <1>1, <1>3 DEF PaidTotal

(* Sales whose money Carrot holds stay held. *)
LEMMA ProceedsGrow ==
    ASSUME PayoutTypeOK, PayoutTypeOK',
           \A s \in EventSales : HeldByCarrot(s) => HeldByCarrot(s)'
    PROVE  Proceeds <= Proceeds' /\ Proceeds \in Nat /\ Proceeds' \in Nat
<1>1. HeldNow \subseteq HeldNow' /\ HeldNow' \subseteq EventSales
  BY DEF HeldNow
<1> DEFINE a == Cardinality(HeldNow)
           b == Cardinality(HeldNow')
<1>2. a <= b /\ a \in Nat /\ b \in Nat
  BY <1>1, PayoutAssumption, FS_Subset, FS_CardinalityType
<1>3. SaleProceeds \in Nat /\ Proceeds \in Nat
  BY PayoutNumbers
<1>4. Proceeds = SaleProceeds * a /\ Proceeds' = SaleProceeds * b
  BY DEF Proceeds
<1> HIDE DEF a, b
<1> QED
  BY <1>2, <1>3, <1>4, Products

LEMMA PayoutStart == PayoutInit => PayoutInv
<1> SUFFICES ASSUME PayoutInit PROVE PayoutInv
  OBVIOUS
<1> USE DEF PayoutInit
<1>1. PayoutTypeOK
  <2>1. 0 \in 0..SaleTotal
    BY PayoutAssumption
  <2>2. earned \in [EventSales ->
          [custody : {"none", "carrot", "reseller", "vendor"},
           refund : 0..SaleTotal, remitted : BOOLEAN]]
    BY <2>1 DEF NoSale
  <2>3. payout \in [Requests -> [amount : Amounts,
          status : {"none", "pending"} \cup Moves]]
    BY DEF NoPayout, Amounts
  <2>4. office \in [Offices -> {Idle} \cup [op : {"request"}, amount : Amounts]
          \cup [op : {"move"}, id : Requests, to : Moves]]
    OBVIOUS
  <2> QED
    BY <2>2, <2>3, <2>4 DEF PayoutTypeOK
<1>2. OneRequest /\ MovesStand
  BY DEF OneRequest, MovesStand, Active, NoPayout, Idle
<1>3. PaidTotal = 0
  <2>1. Paid = {}
    BY DEF Paid, NoPayout
  <2> QED
    BY <2>1, SumEmpty DEF PaidTotal, FieldSum
<1> QED
  BY <1>1, <1>2, <1>3, PayoutNumbers DEF PayoutInv

LEMMA PayoutTypes ==
    ASSUME PayoutTypeOK, [PayoutNext]_payoutVars
    PROVE  PayoutTypeOK'
<1> USE DEF PayoutTypeOK, Amounts, Moves, Idle
<1>1. ASSUME NEW s \in EventSales, NEW c \in {"carrot", "reseller", "vendor"},
             SellTicket(s, c)
      PROVE  PayoutTypeOK'
  BY <1>1 DEF SellTicket
<1>2. ASSUME NEW s \in EventSales, NEW back \in 1..SaleTotal, RefundTicket(s, back)
      PROVE  PayoutTypeOK'
  BY <1>2, PayoutAssumption DEF RefundTicket
<1>3. CASE \/ EndEvent \/ CloseSettlement \/ FlipSettled
           \/ LookForPeriod \/ ClosePeriod \/ PayPeriod
  BY <1>3 DEF EndEvent, CloseSettlement, FlipSettled, LookForPeriod, ClosePeriod,
              PayPeriod, Paid, BeingPaid
<1>4. CASE StampRemitted
  BY ZenonT(30), <1>4 DEF StampRemitted
<1>5. ASSUME NEW o \in Offices, BeginRequest(o)
      PROVE  PayoutTypeOK'
  <2>1. AvailableBalance \in Int
    BY BalanceIsCovered
  <2> QED
    BY <1>5, <2>1 DEF BeginRequest
<1>6. ASSUME NEW o \in Offices, NEW r \in Requests, CommitRequest(o, r)
      PROVE  PayoutTypeOK'
  BY <1>6, PayoutShapes DEF CommitRequest
<1>7. ASSUME NEW o \in Offices, NEW r \in Requests, NEW to \in Moves, BeginMove(o, r, to)
      PROVE  PayoutTypeOK'
  BY <1>7 DEF BeginMove
<1>8. ASSUME NEW o \in Offices, CommitMove(o)
      PROVE  PayoutTypeOK'
  BY <1>8, PayoutShapes DEF CommitMove
<1>9. ASSUME NEW o \in Offices, AbandonPayout(o)
      PROVE  PayoutTypeOK'
  BY <1>9 DEF AbandonPayout
<1>10. CASE UNCHANGED payoutVars
  BY <1>10 DEF payoutVars
<1> QED
  BY <1>1, <1>2, <1>3, <1>4, <1>5, <1>6, <1>7, <1>8, <1>9, <1>10 DEF PayoutNext

(* What happens beside the requests takes no proceeds away. *)
LEMMA BesideTheRequests ==
    ASSUME PayoutInv, PayoutTypeOK', payout' = payout, office' = office,
           \A s \in EventSales : HeldByCarrot(s) => HeldByCarrot(s)'
    PROVE  PayoutInv'
<1>0. PayoutTypeOK /\ OneRequest /\ MovesStand /\ PaidTotal <= Proceeds
  BY DEF PayoutInv
<1>1. Proceeds <= Proceeds' /\ Proceeds \in Nat /\ Proceeds' \in Nat
  BY <1>0, ProceedsGrow
<1>2. PaidTotal' = PaidTotal /\ PaidTotal \in Int
  BY <1>0, PaidTotalStays, PayoutNumbers
<1>3. OneRequest'
  BY <1>0 DEF OneRequest, Active
<1>4. MovesStand'
  <2> SUFFICES ASSUME NEW o \in Offices, office[o].op = "move"
               PROVE  LET r == office[o].id IN
                      /\ office[o].to \in {"approved", "declined"} => Active(r)
                      /\ office[o].to = "paid" =>
                            /\ payout[r].status = "approved"
                            /\ PaidTotal' + payout[r].amount <= Proceeds'
    BY DEF MovesStand, Active
  <2>1. office[o].id \in Requests /\ payout[office[o].id].amount \in Int
    BY <1>0, PayoutShapes, PayoutNumbers
  <2> QED
    BY <1>0, <1>1, <1>2, <2>1 DEF MovesStand
<1> QED
  BY <1>0, <1>1, <1>2, <1>3, <1>4 DEF PayoutInv

LEMMA PayoutInductive ==
    ASSUME PayoutInv, [PayoutNext]_payoutVars
    PROVE  PayoutInv'
<1>0. /\ PayoutTypeOK /\ OneRequest /\ MovesStand /\ PaidTotal <= Proceeds
      /\ PayoutTypeOK'
      /\ PaidTotal \in Int /\ Proceeds \in Nat
      /\ \A r \in Requests : payout[r].amount \in Int
  BY PayoutTypes, PayoutNumbers DEF PayoutInv
<1>1. ASSUME NEW s \in EventSales, NEW c \in {"carrot", "reseller", "vendor"},
             SellTicket(s, c)
      PROVE  PayoutInv'
  BY <1>0, <1>1, BesideTheRequests DEF SellTicket, HeldByCarrot, PayoutTypeOK
<1>2. ASSUME NEW s \in EventSales, NEW back \in 1..SaleTotal, RefundTicket(s, back)
      PROVE  PayoutInv'
  BY <1>0, <1>2, BesideTheRequests DEF RefundTicket, HeldByCarrot, PayoutTypeOK
<1>3. CASE \/ EndEvent \/ CloseSettlement \/ FlipSettled
           \/ LookForPeriod \/ ClosePeriod \/ PayPeriod
  BY <1>0, <1>3, BesideTheRequests
     DEF EndEvent, CloseSettlement, FlipSettled, LookForPeriod, ClosePeriod,
         PayPeriod, HeldByCarrot
<1>4. CASE StampRemitted
  <2>1. \A s \in EventSales : /\ earned'[s].custody = earned[s].custody
                              /\ earned[s].remitted => earned'[s].remitted
    BY <1>0, <1>4 DEF StampRemitted, PayoutTypeOK
  <2>2. payout' = payout /\ office' = office
    BY <1>4 DEF StampRemitted
  <2> QED
    BY <1>0, <2>1, <2>2, BesideTheRequests DEF HeldByCarrot
<1>5. ASSUME NEW o \in Offices, BeginRequest(o) \/ AbandonPayout(o)
      PROVE  PayoutInv'
  <2>1. /\ UNCHANGED <<earned, payout>>
        /\ office'[o].op # "move"
        /\ \A x \in Offices \ {o} : office'[x] = office[x]
    BY <1>0, <1>5 DEF BeginRequest, AbandonPayout, PayoutTypeOK, Idle
  <2>2. PaidTotal' = PaidTotal /\ Proceeds' = Proceeds
    BY <1>0, <2>1, PaidTotalStays DEF Proceeds, HeldNow, HeldByCarrot
  <2>3. MovesStand' /\ OneRequest'
    BY <1>0, <2>1, <2>2 DEF MovesStand, OneRequest, Active
  <2> QED
    BY <1>0, <2>2, <2>3 DEF PayoutInv
<1>6. ASSUME NEW o \in Offices, NEW r \in Requests, CommitRequest(o, r)
      PROVE  PayoutInv'
  <2>1. /\ earned' = earned
        /\ payout[r].status = "none" /\ payout'[r].status = "pending"
        /\ \A q \in Requests \ {r} : payout'[q] = payout[q]
        /\ \A q \in Requests : ~Active(q)
        /\ office'[o].op # "move"
        /\ \A x \in Offices \ {o} : office'[x] = office[x]
    BY <1>0, <1>6 DEF CommitRequest, NewPayout, OneActive, PayoutTypeOK, Idle
  <2>2. PaidTotal' = PaidTotal /\ Proceeds' = Proceeds
    BY <1>0, <2>1, PaidTotalStays DEF Proceeds, HeldNow, HeldByCarrot
  <2>3. OneRequest'
    BY <2>1 DEF OneRequest, Active
  <2>4. \A x \in Offices : office[x].op # "move"
    BY <1>0, <2>1, PayoutShapes DEF MovesStand, Active, Moves
  <2>5. MovesStand'
    BY <2>1, <2>4 DEF MovesStand
  <2> QED
    BY <1>0, <2>2, <2>3, <2>5 DEF PayoutInv
<1>7. ASSUME NEW o \in Offices, NEW r \in Requests, NEW to \in Moves, BeginMove(o, r, to)
      PROVE  PayoutInv'
  <2>1. /\ UNCHANGED <<earned, payout>>
        /\ office'[o] = [op |-> "move", id |-> r, to |-> to]
        /\ \A x \in Offices \ {o} : office'[x] = office[x]
        /\ to # "declined" => AvailableBalance >= payout[r].amount
    BY <1>0, <1>7 DEF BeginMove, StillCovered, PayoutTypeOK
  <2>2. /\ to = "approved" => Active(r)
        /\ to = "declined" => Active(r)
        /\ to = "paid" => payout[r].status = "approved"
    BY <1>7 DEF BeginMove, Allowed, Moves, Active
  <2>3. PaidTotal' = PaidTotal /\ Proceeds' = Proceeds
    BY <1>0, <2>1, PaidTotalStays DEF Proceeds, HeldNow, HeldByCarrot
  <2>4. to = "paid" => PaidTotal + payout[r].amount <= Proceeds
    BY <1>0, <2>1, BalanceIsCovered
  <2>5. OneRequest' /\ MovesStand'
    BY <1>0, <2>1, <2>2, <2>3, <2>4 DEF MovesStand, OneRequest, Active
  <2> QED
    BY <1>0, <2>3, <2>5 DEF PayoutInv
<1>8. ASSUME NEW o \in Offices, CommitMove(o)
      PROVE  PayoutInv'
  <2> DEFINE r == office[o].id
             to == office[o].to
  <2>1. /\ office[o].op = "move" /\ r \in Requests /\ to \in Moves
        /\ earned' = earned
        /\ payout'[r].status = to /\ payout'[r].amount = payout[r].amount
        /\ \A q \in Requests \ {r} : payout'[q] = payout[q]
        /\ \A x \in Offices : office'[x].op = "move" =>
              office'[x] = office[x] /\ office[x].id # r
    BY <1>0, <1>8, PayoutShapes DEF CommitMove, PayoutTypeOK, Idle
  <2>2. Active(r) /\ payout[r].status # "paid"
    BY <1>0, <2>1 DEF MovesStand, Active, Moves
  <2>3. \A q \in Requests : Active(q)' => Active(q)
    BY <2>1, <2>2 DEF Active
  <2>4. OneRequest'
    BY <1>0, <2>3 DEF OneRequest
  <2>5. \A x \in Offices : office'[x].op # "move"
    BY <1>0, <2>1, <2>2, PayoutShapes DEF MovesStand, OneRequest, Active, Moves
  <2>6. MovesStand'
    BY <2>5 DEF MovesStand
  <2>7. Proceeds' = Proceeds
    BY <2>1 DEF Proceeds, HeldNow, HeldByCarrot
  <2>8. CASE to # "paid"
    <3>1. PaidTotal' = PaidTotal
      BY <1>0, <2>1, <2>2, <2>8, PaidTotalStays
    <3> QED
      BY <1>0, <2>4, <2>6, <2>7, <3>1 DEF PayoutInv
  <2>9. CASE to = "paid"
    <3>1. r \notin Paid /\ Paid' = Paid \cup {r} /\ IsFiniteSet(Paid)
      BY <1>0, <2>1, <2>2, <2>9, PayoutNumbers DEF Paid
    <3>2. /\ \A x \in Paid : /\ payout[x]["amount"] \in Int
                             /\ payout'[x]["amount"] = payout[x]["amount"]
          /\ payout'[r]["amount"] \in Int
          /\ payout'[r]["amount"] = payout[r].amount
      BY <1>0, <2>1 DEF Paid
    <3>3. FieldSum(payout', "amount", Paid \cup {r})
             = FieldSum(payout, "amount", Paid) + payout'[r]["amount"]
      BY ONLY <3>1, <3>2, FieldGrows
    <3>4. PaidTotal' = PaidTotal + payout[r].amount
      BY <3>1, <3>2, <3>3 DEF PaidTotal
    <3>5. PaidTotal + payout[r].amount <= Proceeds
      BY <1>0, <2>1, <2>9 DEF MovesStand
    <3> QED
      BY <1>0, <2>4, <2>6, <2>7, <3>4, <3>5 DEF PayoutInv
  <2> QED
    BY <2>8, <2>9
<1>9. CASE UNCHANGED payoutVars
  BY <1>0, <1>9, BesideTheRequests DEF payoutVars, HeldByCarrot
<1> QED
  BY <1>1, <1>2, <1>3, <1>4, <1>5, <1>6, <1>7, <1>8, <1>9 DEF PayoutNext

\* After every request, decision, sale, refund and stamp one request at most is
\* active and what is paid is covered (services/eventPayout, services/settlement).
THEOREM PayoutInvariant == PayoutSpec => []PayoutInv
<1>1. PayoutInv /\ [PayoutNext]_payoutVars => PayoutInv'
  BY PayoutInductive
<1> QED
  BY <1>1, PayoutStart, PTL DEF PayoutSpec

(* No request is made or decided before there is a sale to pay for; and once  *)
(* the payout of a period covers the event, a request that is paid or about   *)
(* to be was so when that payout was frozen.                                  *)
SomeSold == \E s \in EventSales : earned[s].custody # "none"
PeriodPaid == period \in {"pending_payment", "settled"}
SaleBehind ==
    SomeSold \/ (/\ \A r \in Requests : payout[r].status = "none"
                /\ \A o \in Offices : office[o] = Idle)
CutOff == PeriodPaid => Paid \subseteq inHand /\ BeingPaid \subseteq inHand

PeriodInv == SaleBehind /\ CutOff

\* Without a sale nothing is available.
LEMMA NothingToAsk ==
    ASSUME PayoutInv, SaleBehind, AvailableBalance > 0
    PROVE  SomeSold
<1> SUFFICES ASSUME ~SomeSold PROVE FALSE
  OBVIOUS
<1>1. PayoutTypeOK
  BY DEF PayoutInv
<1>2. HeldNow = {} /\ Paid = {}
  BY DEF SomeSold, SaleBehind, HeldNow, HeldByCarrot, Paid
<1>3. PaidTotal = 0
  BY <1>2, SumEmpty DEF PaidTotal, FieldSum
<1>4. Proceeds = 0
  BY <1>1, <1>2, FS_EmptySet, PayoutNumbers DEF Proceeds
<1> QED
  BY <1>1, <1>3, <1>4, BalanceIsCovered

LEMMA PeriodStart == PayoutInit => PeriodInv
BY DEF PayoutInit, PeriodInv, SaleBehind, CutOff, PeriodPaid, NoPayout

LEMMA PeriodInductive ==
    ASSUME PayoutInv, PeriodInv, [PayoutNext]_payoutVars
    PROVE  PeriodInv'
<1>0. /\ PayoutTypeOK /\ MovesStand /\ SaleBehind /\ CutOff
      /\ PayoutTypeOK'
  BY PayoutTypes DEF PayoutInv, PeriodInv
<1>1. ASSUME UNCHANGED <<period, payout, office, inHand>>, SomeSold => SomeSold'
      PROVE  PeriodInv'
  BY <1>0, <1>1 DEF PeriodInv, SaleBehind, CutOff, PeriodPaid, Paid, BeingPaid
<1>2. ASSUME NEW s \in EventSales, NEW c \in {"carrot", "reseller", "vendor"},
             SellTicket(s, c)
      PROVE  PeriodInv'
  BY <1>0, <1>1, <1>2 DEF SellTicket, SomeSold, PayoutTypeOK
<1>3. ASSUME NEW s \in EventSales, NEW back \in 1..SaleTotal, RefundTicket(s, back)
      PROVE  PeriodInv'
  <2>1. \A x \in EventSales : earned'[x].custody = earned[x].custody
    BY <1>0, <1>3 DEF RefundTicket, PayoutTypeOK
  <2> QED
    BY <1>1, <1>3, <2>1 DEF RefundTicket, SomeSold
<1>4. CASE StampRemitted
  <2>1. \A x \in EventSales : earned'[x].custody = earned[x].custody
    BY <1>0, <1>4 DEF StampRemitted, PayoutTypeOK
  <2> QED
    BY <1>1, <1>4, <2>1 DEF StampRemitted, SomeSold
<1>5. CASE EndEvent \/ CloseSettlement \/ FlipSettled
  BY <1>1, <1>5 DEF EndEvent, CloseSettlement, FlipSettled, SomeSold
<1>6. CASE LookForPeriod \/ ClosePeriod \/ PayPeriod
  BY <1>0, <1>6 DEF LookForPeriod, ClosePeriod, PayPeriod, PeriodInv, SaleBehind,
                    SomeSold, CutOff, PeriodPaid, Paid, BeingPaid
<1>7. ASSUME NEW o \in Offices, BeginRequest(o)
      PROVE  PeriodInv'
  <2>1. SomeSold'
    BY <1>0, <1>7, NothingToAsk DEF BeginRequest, SomeSold
  <2>2. /\ UNCHANGED <<period, payout, inHand>>
        /\ \A x \in Offices : office'[x].op = "move" => office'[x] = office[x]
    BY <1>0, <1>7 DEF BeginRequest, PayoutTypeOK
  <2>3. Paid' = Paid /\ BeingPaid' \subseteq BeingPaid
    BY <2>2 DEF Paid, BeingPaid
  <2> QED
    BY <1>0, <2>1, <2>2, <2>3 DEF PeriodInv, SaleBehind, CutOff, PeriodPaid
<1>8. ASSUME NEW o \in Offices, NEW r \in Requests, CommitRequest(o, r)
      PROVE  PeriodInv'
  <2>1. SomeSold
    BY <1>0, <1>8 DEF CommitRequest, SaleBehind, Idle
  <2>2. /\ UNCHANGED <<earned, period, inHand>>
        /\ \A q \in Requests : payout'[q].status = "paid" => payout[q].status = "paid"
        /\ \A x \in Offices : office'[x].op = "move" => office'[x] = office[x]
    BY <1>0, <1>8 DEF CommitRequest, PayoutTypeOK, Idle
  <2>3. Paid' \subseteq Paid /\ BeingPaid' \subseteq BeingPaid
    BY <2>2 DEF Paid, BeingPaid
  <2> QED
    BY <1>0, <2>1, <2>2, <2>3 DEF PeriodInv, SaleBehind, SomeSold, CutOff, PeriodPaid
<1>9. ASSUME NEW o \in Offices, NEW r \in Requests, NEW to \in Moves, BeginMove(o, r, to)
      PROVE  PeriodInv'
  <2>1. payout[r].status # "none"
    BY <1>9 DEF BeginMove, Allowed, Active, Moves
  <2>2. SomeSold
    BY <1>0, <2>1 DEF SaleBehind
  <2>3. to = "paid" => ~PeriodPaid
    BY <1>9, <2>2 DEF BeginMove, StillCovered, LegacyCovered, PeriodPaid, SomeSold
  <2>4. /\ UNCHANGED <<earned, period, payout, inHand>>
        /\ office'[o] = [op |-> "move", id |-> r, to |-> to]
        /\ \A x \in Offices \ {o} : office'[x] = office[x]
    BY <1>0, <1>9 DEF BeginMove, PayoutTypeOK
  <2>5. PeriodPaid => BeingPaid' \subseteq BeingPaid
    BY <2>3, <2>4 DEF BeingPaid
  <2> QED
    BY <1>0, <2>2, <2>4, <2>5 DEF PeriodInv, SaleBehind, SomeSold, CutOff, PeriodPaid, Paid
<1>10. ASSUME NEW o \in Offices, CommitMove(o)
       PROVE  PeriodInv'
  <2> DEFINE r == office[o].id
             to == office[o].to
  <2>1. /\ office[o].op = "move" /\ r \in Requests /\ to \in Moves
        /\ UNCHANGED <<earned, period, inHand>>
        /\ payout'[r].status = to
        /\ \A q \in Requests \ {r} : payout'[q] = payout[q]
        /\ \A x \in Offices : office'[x].op = "move" => office'[x] = office[x]
    BY <1>0, <1>10, PayoutShapes DEF CommitMove, PayoutTypeOK, Idle
  <2>2. SomeSold
    BY <1>0, <2>1 DEF SaleBehind, Idle
  <2>3. to = "paid" => r \in BeingPaid
    BY <2>1 DEF BeingPaid
  <2>4. Paid' \subseteq Paid \cup BeingPaid
    BY <2>1, <2>3 DEF Paid
  <2>5. BeingPaid' \subseteq BeingPaid
    BY <2>1 DEF BeingPaid
  <2> QED
    BY <1>0, <2>1, <2>2, <2>4, <2>5 DEF PeriodInv, SaleBehind, SomeSold, CutOff, PeriodPaid
<1>11. ASSUME NEW o \in Offices, AbandonPayout(o)
       PROVE  PeriodInv'
  <2>1. /\ UNCHANGED <<earned, period, payout, inHand>>
        /\ office'[o] = Idle
        /\ \A x \in Offices \ {o} : office'[x] = office[x]
    BY <1>0, <1>11 DEF AbandonPayout, PayoutTypeOK
  <2>2. Paid' = Paid /\ BeingPaid' \subseteq BeingPaid
    BY <2>1 DEF Paid, BeingPaid, Idle
  <2> QED
    BY <1>0, <2>1, <2>2 DEF PeriodInv, SaleBehind, SomeSold, CutOff, PeriodPaid
<1>12. CASE UNCHANGED payoutVars
  BY <1>1, <1>12 DEF payoutVars, SomeSold
<1> QED
  BY <1>2, <1>3, <1>4, <1>5, <1>6, <1>7, <1>8, <1>9, <1>10, <1>11, <1>12 DEF PayoutNext

\* However many requests, decisions, sales, refunds and stamps overlap, what the
\* event's requests were paid never exceeds the proceeds Carrot holds, and none
\* is paid any more once the payout of a period covers the event, but for one
\* whose transaction had begun (services/eventPayout).  What that payout pays is
\* computed without the requests (services/settlement) and is not bounded here.
THEOREM RequestsArePaidOnce == PayoutSpec => []RequestsPaidOnce
<1>1. PayoutInv /\ PeriodInv => RequestsPaidOnce
  BY TotalIsSum DEF PayoutInv, PeriodInv, RequestsPaidOnce, Proceeds, HeldNow, CutOff,
                    PeriodPaid, LegacyCovered
<1>2. PeriodInv /\ PayoutInv /\ [PayoutNext]_payoutVars => PeriodInv'
  BY PeriodInductive
<1> QED
  BY <1>1, <1>2, PeriodStart, PayoutInvariant, PTL DEF PayoutSpec

-----------------------------------------------------------------------------
(* The commission of a reseller.                                             *)

(* What a handler has reckoned is commission of paid sales that no request   *)
(* paid by then asks for; a request asks for sales that its stamp reaches.   *)
Reckoned ==
    \A k \in Clerks : clerk[k].at = "create" =>
        /\ clerk[k].sales \subseteq Completed
        /\ \A v \in clerk[k].paid :
              withdrawal[v].status = "paid" /\ covers[v] \cap clerk[k].sales = {}

Covered ==
    \A w \in Withdrawals :
        /\ withdrawal[w].status = "none" => covers[w] = {}
        /\ withdrawal[w].amount = Cardinality(covers[w])
        /\ covers[w] \subseteq Completed \cap withdrawal[w].upto
        /\ withdrawal[w].status = "paid" => covers[w] \subseteq stamped
        /\ \A v \in paidBefore[w] :
              withdrawal[v].status = "paid" /\ covers[v] \cap covers[w] = {}

(* Who flips a request has stamped all that it asks for.                     *)
StampedFirst ==
    \A k \in Clerks :
        /\ clerk[k].at \in {"stamp", "flip"} => withdrawal[clerk[k].w].status # "none"
        /\ clerk[k].at = "flip" => covers[clerk[k].w] \subseteq stamped

CommissionInv == CommissionTypeOK /\ Reckoned /\ Covered /\ StampedFirst

LEMMA ClerkShapes ==
    ASSUME CommissionTypeOK, NEW k \in Clerks
    PROVE  /\ clerk[k].at = "create" =>
                 clerk[k].sales \subseteq AgentSales /\ clerk[k].paid \subseteq Withdrawals
           /\ clerk[k].at \in {"stamp", "flip"} => clerk[k].w \in Withdrawals
           /\ clerk[k].at = "stamp" =>
                 [clerk[k] EXCEPT !.at = "flip"] = [at |-> "flip", w |-> clerk[k].w]
           /\ clerk[k].at # "away" => clerk[k] # Away
BY DEF CommissionTypeOK, Away

LEMMA CommissionStart == CommissionInit => CommissionInv
BY FS_EmptySet DEF CommissionInit, CommissionInv, CommissionTypeOK, Reckoned, Covered,
                   StampedFirst, NoWithdrawal, Away

LEMMA CommissionInductive ==
    ASSUME CommissionInv, [CommissionNext]_commissionVars
    PROVE  CommissionInv'
<1>0. CommissionTypeOK /\ Reckoned /\ Covered /\ StampedFirst
  BY DEF CommissionInv
<1>1. ASSUME NEW s \in AgentSales, NEW status \in {"pending", "completed"},
             RingUp(s, status)
      PROVE  CommissionInv'
  <2>1. /\ rung' \in [AgentSales -> {"none", "pending", "completed"}]
        /\ Completed \subseteq Completed'
        /\ UNCHANGED <<stamped, withdrawal, covers, paidBefore, clerk>>
    BY <1>0, <1>1 DEF RingUp, CommissionTypeOK, Completed
  <2> QED
    BY <1>0, <2>1 DEF CommissionInv, CommissionTypeOK, Reckoned, Covered, StampedFirst
\* A handler that turns to something else than a row to create or to flip.
<1>2. ASSUME NEW k \in Clerks, NEW j,
             \/ j = Away \/ j = [at |-> "reckon"]
             \/ /\ j \in [at : {"stamp"}, w : Withdrawals]
                /\ withdrawal[j.w].status # "none",
             ClerkDoes(k, j), UNCHANGED <<rung, stamped, withdrawal, covers, paidBefore>>
      PROVE  CommissionInv'
  <2>1. /\ clerk'[k] = j /\ \A x \in Clerks \ {k} : clerk'[x] = clerk[x]
        /\ CommissionTypeOK'
    BY <1>0, <1>2 DEF ClerkDoes, CommissionTypeOK
  <2> QED
    BY <1>0, <1>2, <2>1 DEF CommissionInv, Reckoned, Covered, StampedFirst, Completed, Away
<1>3. ASSUME NEW k \in Clerks, LookOpen(k) \/ ClerkDies(k)
      PROVE  CommissionInv'
  BY <1>2, <1>3 DEF LookOpen, ClerkDies
<1>4. ASSUME NEW k \in Clerks, NEW w \in Withdrawals, LoadWithdrawal(k, w)
      PROVE  CommissionInv'
  BY <1>2, <1>4 DEF LoadWithdrawal, Open
<1>5. ASSUME NEW k \in Clerks, Reckon(k)
      PROVE  CommissionInv'
  <2>1. CASE Available = {}
    BY <1>2, <1>5, <2>1 DEF Reckon
  <2>2. CASE Available # {}
    <3>1. /\ clerk'[k] = [at |-> "create", sales |-> Available, paid |-> PaidOut]
          /\ \A x \in Clerks \ {k} : clerk'[x] = clerk[x]
          /\ UNCHANGED <<rung, stamped, withdrawal, covers, paidBefore>>
          /\ CommissionTypeOK'
      BY <1>0, <1>5, <2>2 DEF Reckon, ClerkDoes, CommissionTypeOK, Available, Completed,
                              PaidOut
    <3>2. \A v \in PaidOut : covers[v] \cap Available = {}
      BY <1>0 DEF Covered, PaidOut, Available
    <3>3. Available \subseteq Completed
      BY DEF Available
    <3>4. Reckoned'
      BY <1>0, <3>1, <3>2, <3>3 DEF Reckoned, PaidOut, Completed
    <3> QED
      BY <1>0, <3>1, <3>4 DEF CommissionInv, Covered, StampedFirst, Completed
  <2> QED
    BY <2>1, <2>2
<1>6. ASSUME NEW k \in Clerks, NEW w \in Withdrawals, CreateWithdrawal(k, w)
      PROVE  CommissionInv'
  <2> DEFINE row == [status |-> "requested", amount |-> Cardinality(clerk[k].sales),
                     upto |-> { s \in AgentSales : rung[s] # "none" }]
  <2>1. /\ clerk[k].at = "create" /\ withdrawal[w].status = "none"
        /\ clerk[k].sales \subseteq AgentSales /\ clerk[k].paid \subseteq Withdrawals
        /\ withdrawal' = [withdrawal EXCEPT ![w] = row]
        /\ covers' = [covers EXCEPT ![w] = clerk[k].sales]
        /\ paidBefore' = [paidBefore EXCEPT ![w] = clerk[k].paid]
        /\ clerk' = [clerk EXCEPT ![k] = Away]
        /\ UNCHANGED <<rung, stamped>>
    BY <1>0, <1>6, ClerkShapes DEF CreateWithdrawal, ClerkDoes, Unused
  <2>2. Cardinality(clerk[k].sales) \in Nat
    BY <2>1, CommissionAssumption, FS_Subset, FS_CardinalityType
  <2>3. /\ withdrawal'[w] = row /\ covers'[w] = clerk[k].sales
        /\ paidBefore'[w] = clerk[k].paid
        /\ \A v \in Withdrawals \ {w} : /\ withdrawal'[v] = withdrawal[v]
                                        /\ covers'[v] = covers[v]
                                        /\ paidBefore'[v] = paidBefore[v]
        /\ clerk'[k] = Away /\ \A x \in Clerks \ {k} : clerk'[x] = clerk[x]
    BY <1>0, <2>1 DEF CommissionTypeOK
  <2>4. CommissionTypeOK'
    BY <1>0, <2>1, <2>2 DEF CommissionTypeOK
  <2>5. /\ \A v \in Withdrawals : withdrawal[v].status = "paid" => v # w
        /\ Completed' = Completed /\ Completed \subseteq row.upto
    BY <2>1 DEF Completed
  <2>6. Reckoned'
    BY <1>0, <2>1, <2>3, <2>5, ClerkShapes DEF Reckoned, Away
  <2>7. Covered'
    <3>1. /\ clerk[k].sales \subseteq Completed
          /\ \A v \in clerk[k].paid :
                withdrawal[v].status = "paid" /\ covers[v] \cap clerk[k].sales = {}
      BY <1>0, <2>1 DEF Reckoned
    <3>2. \A v \in clerk[k].paid : v \in Withdrawals \ {w}
      BY <2>1, <2>5, <3>1
    <3>3. \A u \in Withdrawals \ {w} : \A v \in paidBefore[u] : v \in Withdrawals \ {w}
      BY <1>0, <2>5 DEF Covered, CommissionTypeOK
    <3> QED
      BY <1>0, <2>1, <2>3, <2>5, <3>1, <3>2, <3>3 DEF Covered
  <2>8. StampedFirst'
    BY <1>0, <2>1, <2>3, <2>5, ClerkShapes DEF StampedFirst, Away
  <2> QED
    BY <2>4, <2>6, <2>7, <2>8 DEF CommissionInv
\* A request that is moved on, to paid only when it is stamped.
<1>7. ASSUME NEW w \in Withdrawals, NEW to \in {"approved", "rejected", "paid"},
             SetWithdrawal(w, to), withdrawal[w].status \notin {"none", "paid"},
             to = "paid" => covers[w] \subseteq stamped,
             \A k \in Clerks : clerk'[k] = clerk[k] \/ clerk'[k] = Away,
             clerk' \in [Clerks -> {Away} \cup { clerk[k] : k \in Clerks }],
             UNCHANGED <<rung, stamped, covers, paidBefore>>
      PROVE  CommissionInv'
  <2>1. /\ withdrawal'[w].status = to /\ withdrawal'[w].amount = withdrawal[w].amount
        /\ withdrawal'[w].upto = withdrawal[w].upto
        /\ \A v \in Withdrawals \ {w} : withdrawal'[v] = withdrawal[v]
        /\ withdrawal' \in [Withdrawals -> [amount : Nat, upto : SUBSET AgentSales,
              status : {"none", "requested", "approved", "paid", "rejected"}]]
    BY <1>0, <1>7 DEF SetWithdrawal, CommissionTypeOK
  <2>2. CommissionTypeOK'
    BY <1>0, <1>7, <2>1 DEF CommissionTypeOK
  <2>3. \A v \in Withdrawals : /\ withdrawal[v].status = "paid" => withdrawal'[v].status = "paid"
                               /\ withdrawal'[v].status = "none" <=> withdrawal[v].status = "none"
                               /\ withdrawal'[v].amount = withdrawal[v].amount
                               /\ withdrawal'[v].upto = withdrawal[v].upto
    BY <1>7, <2>1
  <2> DEFINE Held(k) ==
        /\ clerk'[k] = clerk[k] \/ clerk'[k].at = "away"
        /\ clerk[k].at = "create" => clerk[k].paid \subseteq Withdrawals
        /\ clerk[k].at \in {"stamp", "flip"} => clerk[k].w \in Withdrawals
  <2>0. \A k \in Clerks : Held(k)
    <3> SUFFICES ASSUME NEW k \in Clerks PROVE Held(k)
      OBVIOUS
    <3> QED
      BY <1>0, <1>7 DEF Away, CommissionTypeOK
  <2>4. Reckoned'
    BY <1>0, <1>7, <2>0, <2>3 DEF Reckoned, Completed
  <2>5. Covered'
    BY <1>0, <1>7, <2>1, <2>3 DEF Covered, CommissionTypeOK, Completed
  <2>6. StampedFirst'
    BY <1>0, <1>7, <2>0, <2>3 DEF StampedFirst
  <2> QED
    BY <2>2, <2>4, <2>5, <2>6 DEF CommissionInv
<1>8. ASSUME NEW w \in Withdrawals, Approve(w) \/ Reject(w)
      PROVE  CommissionInv'
  <2>1. clerk' \in [Clerks -> {Away} \cup { clerk[k] : k \in Clerks }]
    BY <1>0, <1>8 DEF Approve, Reject, CommissionTypeOK
  <2> QED
    BY <1>7, <1>8, <2>1 DEF Approve, Reject, Open
<1>9. ASSUME NEW k \in Clerks, StampSales(k)
      PROVE  CommissionInv'
  <2> DEFINE w == clerk[k].w
  <2>1. /\ w \in Withdrawals /\ withdrawal[w].status # "none"
        /\ clerk'[k] = [at |-> "flip", w |-> w]
        /\ \A x \in Clerks \ {k} : clerk'[x] = clerk[x]
        /\ stamped' = stamped \cup (Completed \cap withdrawal[w].upto)
        /\ UNCHANGED <<rung, withdrawal, covers, paidBefore>>
        /\ CommissionTypeOK'
    BY <1>0, <1>9, ClerkShapes DEF StampSales, ClerkDoes, CommissionTypeOK, Completed,
                                   StampedFirst
  <2>2. covers[w] \subseteq stamped' /\ stamped \subseteq stamped'
    BY <1>0, <2>1 DEF Covered
  <2> QED
    BY <1>0, <2>1, <2>2 DEF CommissionInv, Reckoned, Covered, StampedFirst, Completed
<1>10. ASSUME NEW k \in Clerks, FlipPaid(k)
       PROVE  CommissionInv'
  <2>1. /\ clerk[k].at = "flip" /\ clerk[k].w \in Withdrawals
        /\ withdrawal[clerk[k].w].status # "none" /\ covers[clerk[k].w] \subseteq stamped
    BY <1>0, <1>10, ClerkShapes DEF FlipPaid, StampedFirst
  <2>2. CASE clerk[k].w \in PaidOut
    BY <1>2, <1>10, <2>2 DEF FlipPaid
  <2>3. CASE clerk[k].w \notin PaidOut
    <3>1. /\ clerk' \in [Clerks -> {Away} \cup { clerk[j] : j \in Clerks }]
          /\ \A j \in Clerks : clerk'[j] = clerk[j] \/ clerk'[j] = Away
      BY <1>0, <1>10 DEF FlipPaid, ClerkDoes, CommissionTypeOK
    <3>2. withdrawal[clerk[k].w].status # "paid"
      BY <2>1, <2>3 DEF PaidOut
    <3> QED
      BY <1>7, <1>10, <2>1, <2>3, <3>1, <3>2 DEF FlipPaid
  <2> QED
    BY <2>2, <2>3
<1>11. CASE UNCHANGED commissionVars
  BY <1>0, <1>11 DEF commissionVars, CommissionInv, CommissionTypeOK, Reckoned, Covered,
                     StampedFirst, Completed
<1> QED
  BY <1>1, <1>3, <1>4, <1>5, <1>6, <1>8, <1>9, <1>10, <1>11 DEF CommissionNext

\* A request asks for the commission of paid sales only, its stamp reaches them
\* all and comes before its flip, and what a handler reckons leaves out what was
\* paid by then (services/withdrawal).
THEOREM CommissionInvariant == CommissionSpec => []CommissionInv
BY CommissionStart, CommissionInductive, PTL DEF CommissionSpec

\* However requests, decisions and stamps overlap, die and are run again, a request
\* is paid for sales that are stamped by then, and none that a request paid before
\* it was reckoned asked for (services/withdrawal: "crash-safe stamp-then-flip").
THEOREM PaidStaysStamped == CommissionSpec => []PaidCommissionIsStamped
<1>1. CommissionInv => PaidCommissionIsStamped
  <2> SUFFICES ASSUME CommissionInv, NEW w \in PaidOut
               PROVE  /\ withdrawal[w].amount = Cardinality(covers[w] \cap stamped)
                      /\ \A v \in paidBefore[w] : covers[v] \cap covers[w] = {}
    BY DEF PaidCommissionIsStamped
  <2>1. /\ w \in Withdrawals /\ covers[w] \subseteq stamped
        /\ withdrawal[w].amount = Cardinality(covers[w])
    BY DEF PaidOut, CommissionInv, Covered
  <2>2. covers[w] \cap stamped = covers[w]
    BY <2>1
  <2> QED
    BY <2>1, <2>2 DEF CommissionInv, Covered
<1> QED
  BY <1>1, CommissionInvariant, PTL

-----------------------------------------------------------------------------
(* Referrals.                                                                *)

(* Where a handler is with referral r.                                       *)
Stage(v, r) == IF reviewer[v] # NoReview /\ reviewer[v].r = r THEN reviewer[v].at ELSE "none"

(* Who still has the points of k to bank: nobody before its reward, one after. *)
Banks(v, k) == IF k = Milestone THEN ReviewAt(v, {"bankMilestone"}) ELSE Stage(v, k) = "bank"
BankedOnce(k) ==
    /\ points[k] <= 1
    /\ reward[k] = "none" => points[k] <= 0 /\ \A v \in Reviewers : ~Banks(v, k)
    /\ \A v \in Reviewers : Banks(v, k) =>
          points[k] <= 0 /\ \A x \in Reviewers : Banks(x, k) => x = v

(* The reward of a referral is there with its point, or neither.             *)
Even(r) == \/ reward[r] = "none" /\ points[r] = 0
           \/ reward[r] = "available" /\ points[r] = 1

(* What a handler at stage a of referral r finds.                            *)
Fits(a, r) ==
    /\ a = "confirm" => referral[r] \in {"pending", "confirmed"}
    /\ a \in Confirming \ {"confirm"} => referral[r] = "confirmed"
    /\ a = "drop" => referral[r] = "pending" /\ reward[r] = "none" /\ points[r] = 0
    /\ a = "takeBack" => referral[r] = "confirmed" /\ Even(r)
    /\ a = "find" => referral[r] = "undone" /\ Even(r)
    /\ a = "reverse" => referral[r] = "undone" /\ reward[r] = "available" /\ points[r] = 1
    /\ a = "debit" => referral[r] = "undone" /\ reward[r] = "reversed" /\ points[r] = 1
    /\ a = "unsave" => referral[r] = "undone" /\ reward[r] # "available" /\ points[r] = 0

(* What is there when nobody undoes it.                                      *)
Resting(r) ==
    /\ referral[r] \in {"none", "pending"} => reward[r] = "none" /\ points[r] = 0
    /\ referral[r] = "undone" => points[r] = 0
    /\ referral[r] = "confirmed" =>
          \/ /\ reward[r] = "none" /\ points[r] = 0
             /\ r \in unrewarded \/ \E v \in Reviewers : Stage(v, r) \in {"load", "issue"}
          \/ reward[r] = "available" /\ points[r] = 1
          \/ /\ reward[r] = "available" /\ points[r] = 0
             /\ \E v \in Reviewers : Stage(v, r) = "bank"

(* A referral whose handlers all finish, none undoing it beside another.     *)
Orderly(r) == r \notin loose =>
    /\ \A v \in Reviewers :
          /\ Fits(Stage(v, r), r)
          /\ Stage(v, r) \in Undoing =>
                \A x \in Reviewers : Stage(x, r) # "none" => x = v
    /\ (\A v \in Reviewers : Stage(v, r) \notin Undoing) => Resting(r)

ReferralInv ==
    /\ ReferralTypeOK
    /\ \A k \in Rewarded : BankedOnce(k)
    /\ \A r \in Referrals : Orderly(r)

Reviewing == [at : Confirming \cup Undoing, r : Referrals, seen : Promoter]

LEMMA ReviewShapes ==
    ASSUME ReferralTypeOK, NEW v \in Reviewers
    PROVE  /\ NoReview \notin Reviewing
           /\ reviewer[v] = NoReview \/ reviewer[v] \in Reviewing
           /\ reviewer[v] # NoReview =>
                 /\ reviewer[v].r \in Referrals /\ reviewer[v].at \in Confirming \cup Undoing
                 /\ reviewer[v].seen \in Promoter
BY DEF ReferralTypeOK, NoReview, Reviewing

\* A handler that goes on with its referral.
LEMMA GoesOn ==
    ASSUME ReferralTypeOK, NEW v \in Reviewers, reviewer[v] # NoReview,
           NEW j \in Reviewing, j.r = reviewer[v].r, Reviews(v, j)
    PROVE  /\ Stage(v, j.r) = reviewer[v].at /\ Stage(v, j.r)' = j.at
           /\ \A x \in Reviewers, r \in Referrals :
                 x # v \/ r # j.r => Stage(x, r)' = Stage(x, r)
           /\ ReviewAt(v, {"bankMilestone"})' <=> j.at = "bankMilestone"
           /\ \A x \in Reviewers \ {v} :
                 ReviewAt(x, {"bankMilestone"})' <=> ReviewAt(x, {"bankMilestone"})
<1>1. /\ reviewer'[v] = j /\ j # NoReview
      /\ \A x \in Reviewers \ {v} : reviewer'[x] = reviewer[x]
  BY ReviewShapes DEF Reviews, ReferralTypeOK
<1> QED
  BY <1>1 DEF Stage, ReviewAt

LEMMA GoesAway ==
    ASSUME ReferralTypeOK, NEW v \in Reviewers, reviewer[v] # NoReview, Reviews(v, NoReview)
    PROVE  /\ Stage(v, reviewer[v].r) = reviewer[v].at
           /\ \A r \in Referrals : Stage(v, r)' = "none"
           /\ \A x \in Reviewers, r \in Referrals :
                 x # v \/ r # reviewer[v].r => Stage(x, r)' = Stage(x, r)
           /\ ~ReviewAt(v, {"bankMilestone"})'
           /\ \A x \in Reviewers \ {v} :
                 ReviewAt(x, {"bankMilestone"})' <=> ReviewAt(x, {"bankMilestone"})
<1>1. /\ reviewer'[v] = NoReview
      /\ \A x \in Reviewers \ {v} : reviewer'[x] = reviewer[x]
  BY DEF Reviews, ReferralTypeOK
<1> QED
  BY <1>1 DEF Stage, ReviewAt

LEMMA Begins ==
    ASSUME ReferralTypeOK, NEW v \in Reviewers, reviewer[v] = NoReview,
           NEW j \in Reviewing, Reviews(v, j)
    PROVE  /\ Stage(v, j.r)' = j.at
           /\ \A r \in Referrals : Stage(v, r) = "none"
           /\ \A x \in Reviewers, r \in Referrals :
                 x # v \/ r # j.r => Stage(x, r)' = Stage(x, r)
           /\ ReviewAt(v, {"bankMilestone"})' <=> j.at = "bankMilestone"
           /\ \A x \in Reviewers \ {v} :
                 ReviewAt(x, {"bankMilestone"})' <=> ReviewAt(x, {"bankMilestone"})
<1>1. /\ reviewer'[v] = j /\ j # NoReview
      /\ \A x \in Reviewers \ {v} : reviewer'[x] = reviewer[x]
  BY ReviewShapes DEF Reviews, ReferralTypeOK
<1> QED
  BY <1>1 DEF Stage, ReviewAt

\* A referral that a step leaves alone.
LEMMA LeftAlone ==
    ASSUME NEW r \in Referrals, Orderly(r),
           referral'[r] = referral[r], reward'[r] = reward[r], points'[r] = points[r],
           r \in unrewarded => r \in unrewarded', r \in loose => r \in loose',
           \A x \in Reviewers : Stage(x, r)' = Stage(x, r)
    PROVE  Orderly(r)'
BY DEF Orderly, Fits, Even, Resting

\* Points that a step leaves alone, but for a bank that is given up.
LEMMA PointsLeftAlone ==
    ASSUME NEW k \in Rewarded, BankedOnce(k), reward'[k] = reward[k], points'[k] = points[k],
           \A x \in Reviewers : Banks(x, k)' => Banks(x, k)
    PROVE  BankedOnce(k)'
BY DEF BankedOnce

LEMMA ReferralStart == ReferralInit => ReferralInv
<1> SUFFICES ASSUME ReferralInit PROVE ReferralInv
  OBVIOUS
<1>1. ReferralTypeOK
  BY ReferralAssumption DEF ReferralInit, ReferralTypeOK, Promoter
<1>2. \A v \in Reviewers : reviewer[v] = NoReview
  BY DEF ReferralInit
<1>3. \A v \in Reviewers, r \in Referrals : Stage(v, r) = "none"
  BY <1>2 DEF Stage
<1>4. \A v \in Reviewers, k \in Rewarded : ~Banks(v, k)
  BY <1>2, <1>3 DEF Banks, ReviewAt, Rewarded
<1>5. \A k \in Rewarded : reward[k] = "none" /\ points[k] = 0
  BY DEF ReferralInit
<1>6. \A r \in Referrals : Orderly(r)
  BY <1>3, <1>5 DEF ReferralInit, Orderly, Fits, Resting, Confirming, Undoing, Rewarded
<1> QED
  BY <1>1, <1>4, <1>5, <1>6 DEF ReferralInv, BankedOnce

\* What a handler turns to from the milestone.
LEMMA TurnsToMilestone ==
    ASSUME ReferralTypeOK, NEW v \in Reviewers, ReachMilestone(v)
    PROVE  /\ reviewer[v] # NoReview /\ reviewer[v].at = "reach"
           /\ \E j \in Reviewing :
                 /\ Reviews(v, j) /\ j.r = reviewer[v].r
                 /\ \/ j.at = "save" /\ UNCHANGED reward
                    \/ /\ j.at = "bankMilestone" /\ reward[Milestone] = "none"
                       /\ reward' = [reward EXCEPT ![Milestone] = "available"]
<1> DEFINE To(at) == [reviewer[v] EXCEPT !.at = at, !.seen.marked = TRUE]
           On == [reviewer[v] EXCEPT !.at = "save"]
<1>1. reviewer[v] # NoReview /\ reviewer[v].at = "reach" /\ reviewer[v] \in Reviewing
  BY ReviewShapes DEF ReachMilestone, ReviewAt
<1>2. /\ \A at \in Confirming : To(at) \in Reviewing /\ To(at).at = at
                                /\ To(at).r = reviewer[v].r
      /\ On \in Reviewing /\ On.at = "save" /\ On.r = reviewer[v].r
  BY <1>1 DEF Reviewing, Promoter, Confirming
<1>3. \/ Reviews(v, To("bankMilestone")) /\ NotIssued(Milestone)
         /\ reward' = [reward EXCEPT ![Milestone] = "available"]
      \/ Reviews(v, To("save")) /\ UNCHANGED reward
      \/ Reviews(v, On) /\ UNCHANGED reward
  BY DEF ReachMilestone, Onward
<1> HIDE DEF To, On
<1> QED
  BY <1>1, <1>2, <1>3 DEF NotIssued, Confirming

LEMMA ReferralTypes ==
    ASSUME ReferralTypeOK, [ReferralNext]_referralVars
    PROVE  ReferralTypeOK'
<1> USE ReferralAssumption
<1>1. ASSUME NEW r \in Referrals, Attribute(r) PROVE ReferralTypeOK'
  BY <1>1 DEF Attribute, SetReferral, ReferralTypeOK
<1>2. ASSUME NEW v \in Reviewers, NEW r \in Referrals, LookToConfirm(v, r) \/ LookToUndo(v, r)
      PROVE  ReferralTypeOK'
  <2>1. PICK at \in {"confirm", "takeBack", "drop"},
             beside \in {Undoing, Confirming \cup Undoing} :
           /\ TakeUp(v, r, at, beside)
           /\ UNCHANGED <<referral, reward, points, promoter, unrewarded>>
    BY <1>2 DEF LookToConfirm, LookToUndo
  <2>2. [at |-> at, r |-> r, seen |-> promoter] \in Reviewing
    BY DEF ReferralTypeOK, Reviewing, Confirming, Undoing
  <2>3. reviewer' \in [Reviewers -> {NoReview} \cup Reviewing]
    BY <2>1, <2>2 DEF TakeUp, Reviews, ReferralTypeOK, Reviewing
  <2>4. loose' \subseteq Referrals /\ reviews' \in 0..MaxReviews
    BY <2>1 DEF TakeUp, ReferralTypeOK
  <2> QED
    BY <2>1, <2>3, <2>4 DEF ReferralTypeOK, Reviewing
\* What a handler turns to is one of its stages, with its own referral.
<1>3. ASSUME NEW v \in Reviewers, reviewer[v] # NoReview
      PROVE  /\ \A at \in Confirming \cup Undoing :
                   [reviewer[v] EXCEPT !.at = at] \in Reviewing
             /\ \A at \in Confirming \cup Undoing, p \in Promoter :
                   [reviewer[v] EXCEPT !.at = at, !.seen = p] \in Reviewing
             /\ reviewer[v].r \in Referrals /\ reviewer[v].r \in Rewarded
             /\ reviewer[v].seen \in Promoter
  BY <1>3, ReviewShapes DEF Reviewing, Rewarded
<1>4. Milestone \in Rewarded /\ NoReview \in {NoReview} \cup Reviewing
  BY DEF Rewarded
<1>5. ASSUME NEW v \in Reviewers, NEW j \in {NoReview} \cup Reviewing, Reviews(v, j)
      PROVE  reviewer' \in [Reviewers -> {NoReview} \cup Reviewing]
  BY <1>5 DEF Reviews, ReferralTypeOK, Reviewing
<1> DEFINE DesksTyped == reviewer' \in [Reviewers -> {NoReview} \cup Reviewing]
<1>6. ASSUME NEW v \in Reviewers,
             \/ HoldForReview(v) \/ SavePromoter(v) \/ UnsavePromoter(v) \/ ReviewFails(v)
      PROVE  ReferralTypeOK'
  <2>1. reviewer[v] # NoReview /\ Reviews(v, NoReview)
    BY <1>6 DEF HoldForReview, SavePromoter, UnsavePromoter, ReviewFails, ReviewAt
  <2>2. DesksTyped
    BY <1>4, <1>5, <2>1
  <2>3. promoter' \in Promoter
    <3>1. /\ reviewer[v].seen \in Promoter /\ promoter \in Promoter
          /\ \A n \in Nat : [promoter EXCEPT !.sales = n] \in Promoter
      BY <1>3, <2>1 DEF ReferralTypeOK, Promoter
    <3>2. reviewer[v].seen.sales \in Nat /\ reviewer[v].seen.marked \in BOOLEAN
          /\ promoter.marked \in BOOLEAN
      BY <3>1 DEF Promoter
    <3>3. CASE SavePromoter(v)
      BY <3>2, <3>3 DEF SavePromoter, Promoter
    <3>4. CASE UnsavePromoter(v)
      <4>1. reviewer[v].seen.sales # 0 => reviewer[v].seen.sales - 1 \in Nat
        BY <3>2
      <4> QED BY <3>1, <3>4, <4>1 DEF UnsavePromoter
    <3> QED
      BY <1>6, <3>1, <3>3, <3>4 DEF HoldForReview, ReviewFails
  <2> QED
    BY <1>3, <1>6, <2>1, <2>2, <2>3 DEF HoldForReview, SavePromoter, UnsavePromoter,
                    ReviewFails, CutShort, ReferralTypeOK, Reviewing
<1>7. ASSUME NEW v \in Reviewers, ConfirmReferral(v) \/ UndoReferral(v)
      PROVE  ReferralTypeOK'
  <2>1. reviewer[v] # NoReview
    BY <1>7 DEF ConfirmReferral, UndoReferral, ReviewAt
  <2>2. \/ Reviews(v, NoReview)
        \/ \E at \in {"load", "find"} : Reviews(v, [reviewer[v] EXCEPT !.at = at])
    BY <1>7 DEF ConfirmReferral, UndoReferral, Onward
  <2>3. DesksTyped
    BY <1>3, <1>4, <1>5, <2>1, <2>2 DEF Confirming, Undoing
  <2>4. \E s \in {"confirmed", "undone"} : SetReferral(reviewer[v].r, s)
    BY <1>7 DEF ConfirmReferral, UndoReferral
  <2>5. referral' \in [Referrals -> {"none", "pending", "confirmed", "undone"}]
    BY <2>4 DEF SetReferral, ReferralTypeOK
  <2> QED
    BY <1>7, <2>3, <2>5 DEF ConfirmReferral, UndoReferral, ReferralTypeOK, Reviewing
<1>8. ASSUME NEW v \in Reviewers, LoadPromoter(v) \/ FindReward(v)
      PROVE  ReferralTypeOK'
  <2>1. reviewer[v] # NoReview
    BY <1>8 DEF LoadPromoter, FindReward, ReviewAt
  <2>2. promoter \in Promoter /\ [promoter EXCEPT !.sales = @ + 1] \in Promoter
    BY DEF ReferralTypeOK, Promoter
  <2>3. \E at \in {"issue", "save", "reverse", "unsave"}, p \in Promoter :
           Reviews(v, [reviewer[v] EXCEPT !.at = at, !.seen = p])
    <3>1. CASE LoadPromoter(v)
      BY <2>2, <3>1 DEF LoadPromoter
    <3>2. CASE FindReward(v)
      <4>1. Reviews(v, [reviewer[v] EXCEPT !.seen = promoter, !.at = "reverse"])
            \/ Reviews(v, [reviewer[v] EXCEPT !.seen = promoter, !.at = "unsave"])
        BY <3>2 DEF FindReward
      <4>2. \A at \in {"reverse", "unsave"} :
               [reviewer[v] EXCEPT !.seen = promoter, !.at = at]
                  = [reviewer[v] EXCEPT !.at = at, !.seen = promoter]
        BY <2>1, <2>2, ReviewShapes DEF Reviewing
      <4> QED BY <2>2, <4>1, <4>2
    <3> QED BY <1>8, <3>1, <3>2
  <2>4. DesksTyped
    BY <1>3, <1>5, <2>1, <2>3 DEF Confirming, Undoing
  <2> QED
    BY <1>3, <1>8, <2>1, <2>4 DEF LoadPromoter, FindReward, Unrewarded, ReferralTypeOK,
                                 Reviewing
<1>9. ASSUME NEW v \in Reviewers,
             \/ IssueForSale(v) \/ BudgetSpent(v) \/ BankForSale(v) \/ BankMilestone(v)
             \/ ReverseReward(v) \/ DebitPoints(v) \/ DebitLost(v)
      PROVE  ReferralTypeOK'
  <2>1. reviewer[v] # NoReview
    BY <1>9 DEF IssueForSale, BudgetSpent, BankForSale, BankMilestone, ReverseReward,
                DebitPoints, DebitLost, ReviewAt
  <2>2. \E at \in {"bank", "reach", "save", "debit", "unsave"} :
           Reviews(v, [reviewer[v] EXCEPT !.at = at])
    BY <1>9 DEF IssueForSale, IssueReward, BudgetSpent, BankForSale, BankMilestone,
                BankPoints, ReverseReward, DebitPoints, DebitLost, Onward
  <2>3. DesksTyped
    BY <1>3, <1>5, <2>1, <2>2 DEF Confirming, Undoing
  <2>4. reward' \in [Rewarded -> {"none", "available", "reversed"}]
    BY <1>9 DEF IssueForSale, IssueReward, BudgetSpent, BankForSale, BankMilestone,
                BankPoints, ReverseReward, DebitPoints, DebitLost, ReferralTypeOK
  <2>5. points' \in [Rewarded -> Int]
    BY <1>9 DEF IssueForSale, BudgetSpent, BankForSale, BankMilestone,
                BankPoints, ReverseReward, DebitPoints, DebitLost, ReferralTypeOK
  <2>6. unrewarded' \subseteq Referrals /\ loose' \subseteq Referrals
    BY <1>3, <1>9, <2>1 DEF IssueForSale, BudgetSpent, BankForSale, BankMilestone,
                BankPoints, ReverseReward, DebitPoints, DebitLost, Unrewarded, CutShort,
                ReferralTypeOK
  <2> QED
    BY <1>9, <2>3, <2>4, <2>5, <2>6 DEF IssueForSale, BudgetSpent, BankForSale,
                BankMilestone, BankPoints, ReverseReward, DebitPoints, DebitLost,
                ReferralTypeOK, Reviewing
<1>10. ASSUME NEW v \in Reviewers, ReachMilestone(v)
       PROVE  ReferralTypeOK'
  <2>1. reviewer[v] # NoReview /\ UNCHANGED <<referral, points, promoter, unrewarded, loose, reviews>>
    BY <1>10 DEF ReachMilestone, ReviewAt
  <2>2. reward' \in [Rewarded -> {"none", "available", "reversed"}]
    BY <1>10 DEF ReachMilestone, ReferralTypeOK
  <2>3. PICK j \in Reviewing : Reviews(v, j)
    BY <1>10, TurnsToMilestone
  <2>4. DesksTyped
    BY <1>5, <2>3
  <2> QED
    BY <2>1, <2>2, <2>4 DEF ReferralTypeOK, Reviewing
<1>11. CASE UNCHANGED referralVars
  BY <1>11 DEF referralVars, ReferralTypeOK
<1> QED
  BY <1>1, <1>2, <1>6, <1>7, <1>8, <1>9, <1>10, <1>11 DEF ReferralNext

-----------------------------------------------------------------------------
\* Handler v goes to stage b of referral q, or takes it up there, or leaves it.
StepsTo(v, q, b) ==
    /\ Stage(v, q)' = b
    /\ \A x \in Reviewers, r \in Referrals :
          x # v \/ r # q => Stage(x, r)' = Stage(x, r)
    /\ \A x \in Reviewers : Banks(x, Milestone)' <=>
          IF x = v THEN b = "bankMilestone" ELSE Banks(x, Milestone)

LEMMA Continues ==
    ASSUME ReferralTypeOK, NEW v \in Reviewers, reviewer[v] # NoReview,
           NEW q \in Referrals, reviewer[v].r = q, NEW at \in Confirming \cup Undoing,
           \/ Onward(v, at)
           \/ \E p \in Promoter : Reviews(v, [reviewer[v] EXCEPT !.at = at, !.seen = p])
    PROVE  Stage(v, q) = reviewer[v].at /\ StepsTo(v, q, at)
<1>1. PICK j \in Reviewing : j.at = at /\ j.r = reviewer[v].r /\ Reviews(v, j)
  <2>1. /\ [reviewer[v] EXCEPT !.at = at] \in Reviewing
        /\ [reviewer[v] EXCEPT !.at = at].at = at
        /\ [reviewer[v] EXCEPT !.at = at].r = reviewer[v].r
    BY ReviewShapes DEF Reviewing
  <2>2. \A p \in Promoter : /\ [reviewer[v] EXCEPT !.at = at, !.seen = p] \in Reviewing
                            /\ [reviewer[v] EXCEPT !.at = at, !.seen = p].at = at
                            /\ [reviewer[v] EXCEPT !.at = at, !.seen = p].r = reviewer[v].r
    BY ReviewShapes DEF Reviewing
  <2> QED BY <2>1, <2>2 DEF Onward
<1> QED
  BY <1>1, GoesOn DEF StepsTo, Banks

LEMMA Finishes ==
    ASSUME ReferralTypeOK, NEW v \in Reviewers, reviewer[v] # NoReview,
           NEW q \in Referrals, reviewer[v].r = q, Reviews(v, NoReview)
    PROVE  Stage(v, q) = reviewer[v].at /\ StepsTo(v, q, "none")
BY GoesAway DEF StepsTo, Banks

\* Nothing but what handler v does to referral q.
Only(q) ==
    /\ \A r \in Referrals \ {q} : referral'[r] = referral[r]
    /\ \A k \in Rewarded \ {q} : reward'[k] = reward[k] /\ points'[k] = points[k]
    /\ unrewarded \subseteq unrewarded' /\ loose \subseteq loose'

LEMMA OthersKeep ==
    ASSUME ReferralInv, ReferralTypeOK', NEW v \in Reviewers, NEW q \in Referrals, NEW b,
           StepsTo(v, q, b), b # "bankMilestone", Only(q), BankedOnce(q)', Orderly(q)'
    PROVE  ReferralInv'
<1>1. ASSUME NEW r \in Referrals PROVE Orderly(r)'
  <2>1. CASE r = q
    BY <2>1
  <2>2. CASE r # q
    <3>1. r \in Rewarded
      BY DEF Rewarded
    <3> QED BY <2>2, <3>1, LeftAlone DEF ReferralInv, StepsTo, Only
  <2> QED BY <2>1, <2>2
<1>2. ASSUME NEW k \in Rewarded PROVE BankedOnce(k)'
  <2>1. CASE k = q
    BY <2>1
  <2>2. CASE k # q
    <3>1. \A x \in Reviewers : Banks(x, k)' => Banks(x, k)
      <4>1. CASE k = Milestone
        BY <4>1 DEF StepsTo
      <4>2. CASE k # Milestone
        <5>1. k \in Referrals
          BY <4>2 DEF Rewarded
        <5> QED BY <2>2, <4>2, <5>1 DEF StepsTo, Banks
      <4> QED BY <4>1, <4>2
    <3> QED BY <2>2, <3>1, PointsLeftAlone DEF ReferralInv, Only
  <2> QED BY <2>1, <2>2
<1> QED
  BY <1>1, <1>2 DEF ReferralInv

\* What the invariant says of a referral and a handler at work on it.
LEMMA AtWork ==
    ASSUME ReferralInv, NEW q \in Referrals
    PROVE  /\ ReferralTypeOK /\ q \in Rewarded /\ q # Milestone /\ Milestone \in Rewarded
           /\ BankedOnce(q) /\ BankedOnce(Milestone) /\ Orderly(q)
           /\ \A x \in Reviewers : Banks(x, q) <=> Stage(x, q) = "bank"
           /\ \A x \in Reviewers : Banks(x, q)' <=> Stage(x, q)' = "bank"
           /\ points[q] \in Int /\ points[Milestone] \in Int
BY ReferralAssumption DEF ReferralInv, Rewarded, Banks, ReferralTypeOK

-----------------------------------------------------------------------------
LEMMA AttributeKeeps ==
    ASSUME ReferralInv, ReferralTypeOK', NEW q \in Referrals, Attribute(q)
    PROVE  ReferralInv'
<1>1. /\ referral[q] = "none" /\ referral'[q] = "pending"
      /\ \A r \in Referrals \ {q} : referral'[r] = referral[r]
      /\ UNCHANGED <<reward, points, unrewarded, loose, reviewer>>
  BY DEF Attribute, SetReferral, ReferralInv, ReferralTypeOK
<1>2. \A x \in Reviewers, r \in Referrals : Stage(x, r)' = Stage(x, r)
  BY <1>1 DEF Stage
<1>3. \A x \in Reviewers, k \in Rewarded : Banks(x, k)' <=> Banks(x, k)
  BY <1>1 DEF Banks, Stage, ReviewAt
<1>4. \A k \in Rewarded : BankedOnce(k)'
  BY <1>1, <1>3, PointsLeftAlone DEF ReferralInv
<1>5. \A r \in Referrals \ {q} : Orderly(r)'
  BY <1>1, <1>2, LeftAlone DEF ReferralInv
<1>6. Orderly(q)'
  <2>1. Orderly(q)
    BY DEF ReferralInv
  <2>2. q \notin loose => \A x \in Reviewers : Fits(Stage(x, q), q)' /\ Stage(x, q) \notin Undoing
    BY <1>1, <1>2, <2>1 DEF Orderly, Fits, Confirming, Undoing
  <2> QED
    BY <1>1, <1>2, <2>1, <2>2 DEF Orderly, Resting
<1> QED
  BY <1>4, <1>5, <1>6 DEF ReferralInv

LEMMA TakesUp ==
    ASSUME ReferralTypeOK, NEW v \in Reviewers, NEW q \in Referrals,
           NEW at \in Confirming \cup Undoing, NEW beside, TakeUp(v, q, at, beside)
    PROVE  Stage(v, q) = "none" /\ StepsTo(v, q, at)
<1> DEFINE j == [at |-> at, r |-> q, seen |-> promoter]
<1>1. j \in Reviewing /\ j.at = at /\ j.r = q /\ Reviews(v, j) /\ reviewer[v] = NoReview
  BY DEF TakeUp, ReferralTypeOK, Reviewing
<1> HIDE DEF j
<1> QED
  BY <1>1, Begins DEF StepsTo, Banks

LEMMA LookKeeps ==
    ASSUME ReferralInv, ReferralTypeOK', NEW v \in Reviewers, NEW q \in Referrals,
           LookToConfirm(v, q) \/ LookToUndo(v, q)
    PROVE  ReferralInv'
<1>0. ReferralTypeOK /\ BankedOnce(q) /\ Orderly(q)
  BY AtWork
<1>1. PICK at \in {"confirm", "drop", "takeBack"} :
         /\ TakeUp(v, q, at, IF at = "confirm" THEN Undoing ELSE Confirming \cup Undoing)
         /\ at = "confirm" => referral[q] = "pending"
         /\ at = "drop" => referral[q] = "pending"
         /\ at = "takeBack" => referral[q] = "confirmed"
         /\ UNCHANGED <<referral, reward, points, unrewarded>>
  BY DEF LookToConfirm, LookToUndo
<1>2. Stage(v, q) = "none" /\ StepsTo(v, q, at)
  BY <1>0, <1>1, TakesUp DEF Confirming, Undoing
<1>3. /\ Only(q)
      /\ q \notin loose' =>
            /\ q \notin loose
            /\ at = "confirm" => \A x \in Reviewers : Stage(x, q) \notin Undoing
            /\ at # "confirm" => \A x \in Reviewers : Stage(x, q) \notin Confirming \cup Undoing
  <2>1. Only(q)
    BY <1>1 DEF Only, TakeUp
  <2>2. ASSUME q \notin loose', NEW x \in Reviewers, NEW a \in Confirming \cup Undoing,
               Stage(x, q) = a, at # "confirm" \/ a \in Undoing
        PROVE  FALSE
    BY <1>1, <2>2 DEF TakeUp, WorksOn, ReviewAt, Stage, Confirming, Undoing
  <2>3. q \notin loose' => q \notin loose
    BY <2>1 DEF Only
  <2> QED BY <2>1, <2>2, <2>3
<1>4. BankedOnce(q)'
  BY <1>0, <1>1, <1>2, AtWork DEF BankedOnce, StepsTo
<1>5. \A x \in Reviewers : Stage(x, q) \in {"none"} \cup Confirming \cup Undoing
  BY <1>0, ReviewShapes DEF Stage
<1>6. Orderly(q)'
  <2> SUFFICES ASSUME q \notin loose' PROVE Orderly(q)'
    BY DEF Orderly
  <2>1. /\ q \notin loose /\ Resting(q)
        /\ \A x \in Reviewers : Fits(Stage(x, q), q) /\ Stage(x, q) \notin Undoing
    BY <1>0, <1>3, <1>5 DEF Orderly
  <2>2. \A x \in Reviewers \ {v} : Stage(x, q)' = Stage(x, q)
    BY <1>2 DEF StepsTo
  <2>3. Stage(v, q)' = at
    BY <1>2 DEF StepsTo
  <2>4. CASE at = "confirm"
    <3>1. Resting(q)'
      BY <1>1, <1>2, <2>1, <2>2, <2>3, <2>4 DEF Resting
    <3>2. \A x \in Reviewers : Fits(Stage(x, q), q)' /\ Stage(x, q)' \notin Undoing
      BY <1>1, <2>1, <2>2, <2>3, <2>4 DEF Fits, Even, Confirming, Undoing
    <3> QED BY <3>1, <3>2 DEF Orderly
  <2>5. CASE at # "confirm"
    <3>1. \A x \in Reviewers : Stage(x, q) = "none"
      BY <1>3, <1>5, <2>5
    <3>2. at \in Undoing /\ Fits(at, q)'
      BY <1>1, <2>1, <2>5, <3>1 DEF Resting, Fits, Even, Confirming, Undoing
    <3>3. \A x \in Reviewers : Fits(Stage(x, q), q)'
      BY <2>2, <2>3, <3>1, <3>2 DEF Fits, Confirming
    <3>4. \A x \in Reviewers \ {v} : Stage(x, q)' = "none"
      BY <2>2, <3>1
    <3> QED BY <2>3, <3>2, <3>3, <3>4 DEF Orderly, Undoing
  <2> QED BY <2>4, <2>5
<1> QED
  BY <1>1, <1>2, <1>3, <1>4, <1>6, OthersKeep

\* A handler that confirms q: nobody undoes it, and what it leaves is at rest.
LEMMA Confirmer ==
    ASSUME ReferralInv, NEW v \in Reviewers, NEW q \in Referrals, q \notin loose,
           Stage(v, q) \in Confirming
    PROVE  /\ Resting(q) /\ Fits(Stage(v, q), q)
           /\ \A x \in Reviewers : Stage(x, q) \in {"none"} \cup Confirming
<1>1. \A x \in Reviewers : Stage(x, q) \in {"none"} \cup Confirming \cup Undoing
  BY ReviewShapes DEF Stage, ReferralInv
<1>2. Stage(v, q) \notin Undoing /\ Stage(v, q) # "none"
  BY DEF Confirming, Undoing
<1> QED
  BY <1>1, <1>2 DEF ReferralInv, Orderly

LEMMA ConfirmStep ==
    ASSUME ReferralInv, NEW v \in Reviewers, NEW q \in Referrals,
           Stage(v, q) \in Confirming, NEW b \in {"none"} \cup Confirming, StepsTo(v, q, b),
           referral'[q] = referral[q] \/ referral'[q] = "confirmed",
           q \notin loose => Fits(b, q)',
           loose \subseteq loose', q \notin loose' => Resting(q)'
    PROVE  Orderly(q)'
<1> SUFFICES ASSUME q \notin loose' PROVE Orderly(q)'
  BY DEF Orderly
<1>1. /\ q \notin loose /\ Resting(q)'
      /\ \A x \in Reviewers : Stage(x, q) \in {"none"} \cup Confirming
  BY Confirmer
<1>2. \A x \in Reviewers : Fits(Stage(x, q), q)
  BY <1>1 DEF ReferralInv, Orderly
<1>3. /\ Stage(v, q)' = b /\ \A x \in Reviewers \ {v} : Stage(x, q)' = Stage(x, q)
  BY DEF StepsTo
<1>4. \A x \in Reviewers : Stage(x, q)' \notin Undoing
  BY <1>1, <1>3 DEF Confirming, Undoing
<1>5. \A x \in Reviewers \ {v} : Fits(Stage(x, q), q)'
  BY <1>1, <1>2, <1>3 DEF Fits, Confirming
<1>6. Fits(Stage(v, q), q)'
  BY <1>1, <1>3
<1> QED
  BY <1>1, <1>4, <1>5, <1>6 DEF Orderly

\* A handler that undoes q is alone with it.
LEMMA UndoStep ==
    ASSUME ReferralInv, NEW v \in Reviewers, NEW q \in Referrals,
           Stage(v, q) \in Undoing, NEW b \in {"none"} \cup Undoing, StepsTo(v, q, b),
           loose \subseteq loose',
           q \notin loose' => IF b = "none" THEN Resting(q)' ELSE Fits(b, q)'
    PROVE  Orderly(q)'
<1> SUFFICES ASSUME q \notin loose' PROVE Orderly(q)'
  BY DEF Orderly
<1>1. \A x \in Reviewers \ {v} : Stage(x, q) = "none"
  BY DEF ReferralInv, Orderly
<1>2. /\ Stage(v, q)' = b /\ \A x \in Reviewers \ {v} : Stage(x, q)' = "none"
  BY <1>1 DEF StepsTo
<1>3. Fits("none", q)'
  BY DEF Fits, Confirming
<1>4. \A x \in Reviewers : Fits(Stage(x, q), q)'
  BY <1>2, <1>3
<1>5. b # "none" => b \in Undoing
  OBVIOUS
<1> QED
  BY <1>2, <1>4, <1>5 DEF Orderly, Undoing

\* The points of q when nothing of them is written and no bank is taken on.
LEMMA SamePoints ==
    ASSUME ReferralInv, NEW v \in Reviewers, NEW q \in Referrals, NEW b, StepsTo(v, q, b),
           b # "bank", UNCHANGED <<reward, points>>
    PROVE  BankedOnce(q)'
<1>1. \A x \in Reviewers : Banks(x, q)' => Banks(x, q)
  BY AtWork DEF StepsTo
<1> QED
  BY <1>1, AtWork, PointsLeftAlone

LEMMA HoldKeeps ==
    ASSUME ReferralInv, ReferralTypeOK', NEW v \in Reviewers,
           HoldForReview(v) \/ SavePromoter(v)
    PROVE  ReferralInv'
<1>1. /\ reviewer[v] # NoReview /\ reviewer[v].at \in {"confirm", "save"}
      /\ Reviews(v, NoReview) /\ UNCHANGED <<referral, reward, points, unrewarded, loose>>
  BY DEF HoldForReview, SavePromoter, ReviewAt
<1>2. PICK q \in Referrals : reviewer[v].r = q
  BY <1>1, ReviewShapes DEF ReferralInv
<1>3. Stage(v, q) \in {"confirm", "save"} /\ StepsTo(v, q, "none")
  BY <1>1, <1>2, Finishes DEF ReferralInv
<1>4. q \notin loose' => Resting(q)'
  BY <1>1, <1>3, Confirmer DEF Resting, Confirming, StepsTo
<1>5. Orderly(q)'
  BY <1>1, <1>3, <1>4, ConfirmStep DEF Confirming, Fits
<1>6. BankedOnce(q)' /\ Only(q)
  BY <1>1, <1>3, SamePoints DEF Only
<1> QED
  BY <1>3, <1>5, <1>6, OthersKeep

LEMMA ConfirmKeeps ==
    ASSUME ReferralInv, ReferralTypeOK', NEW v \in Reviewers, ConfirmReferral(v)
    PROVE  ReferralInv'
<1>1. /\ reviewer[v] # NoReview /\ reviewer[v].at = "confirm" /\ Onward(v, "load")
      /\ SetReferral(reviewer[v].r, "confirmed")
      /\ UNCHANGED <<reward, points, unrewarded, loose>>
  BY DEF ConfirmReferral, ReviewAt
<1>2. PICK q \in Referrals : reviewer[v].r = q
  BY <1>1, ReviewShapes DEF ReferralInv
<1>3. Stage(v, q) = "confirm" /\ StepsTo(v, q, "load")
  BY <1>1, <1>2, Continues DEF ReferralInv, Confirming
<1>4. /\ referral'[q] = "confirmed" /\ \A r \in Referrals \ {q} : referral'[r] = referral[r]
  BY <1>1, <1>2 DEF SetReferral, ReferralInv, ReferralTypeOK
<1>5. q \notin loose' => Resting(q)'
  <2> SUFFICES ASSUME q \notin loose' PROVE Resting(q)'
    OBVIOUS
  <2>1. Resting(q) /\ Fits("confirm", q)
    BY <1>1, <1>3, Confirmer DEF Confirming
  <2>2. referral[q] \in {"pending", "confirmed"}
    BY <2>1 DEF Fits
  <2>3. Stage(v, q)' = "load"
    BY <1>3 DEF StepsTo
  <2>4. \A x \in Reviewers \ {v} : Stage(x, q)' = Stage(x, q)
    BY <1>3 DEF StepsTo
  <2>5. (\E x \in Reviewers : Stage(x, q) = "bank") => \E x \in Reviewers : Stage(x, q)' = "bank"
    BY <1>3, <2>4
  <2> QED
    BY <1>1, <1>4, <2>1, <2>2, <2>3, <2>5 DEF Resting
<1>6. Orderly(q)'
  BY <1>1, <1>3, <1>4, <1>5, ConfirmStep DEF Confirming, Fits
<1>7. BankedOnce(q)' /\ Only(q)
  BY <1>1, <1>3, <1>4, SamePoints DEF Only
<1> QED
  BY <1>3, <1>6, <1>7, OthersKeep

LEMMA LoadKeepsPoints ==
    ASSUME ReferralInv, ReferralTypeOK', NEW v \in Reviewers, LoadPromoter(v) \/ BudgetSpent(v)
    PROVE  ReferralInv'
<1>1. PICK b \in {"issue", "reach", "save"} :
         /\ reviewer[v] # NoReview /\ reviewer[v].at \in {"load", "issue"}
         /\ \/ Onward(v, b)
            \/ \E p \in Promoter : Reviews(v, [reviewer[v] EXCEPT !.at = b, !.seen = p])
         /\ b # "issue" => Unrewarded(v)
         /\ b = "issue" => UNCHANGED unrewarded
         /\ UNCHANGED <<referral, reward, points, loose>>
  <2>1. [promoter EXCEPT !.sales = @ + 1] \in Promoter
    BY DEF ReferralInv, ReferralTypeOK, Promoter
  <2>2. CASE LoadPromoter(v)
    BY <2>1, <2>2 DEF LoadPromoter, ReviewAt
  <2>3. CASE BudgetSpent(v)
    BY <2>3 DEF BudgetSpent, ReviewAt
  <2> QED BY <2>2, <2>3
<1>2. PICK q \in Referrals : reviewer[v].r = q
  BY <1>1, ReviewShapes DEF ReferralInv
<1>3. Stage(v, q) \in {"load", "issue"} /\ StepsTo(v, q, b)
  <2>1. b \in Confirming \cup Undoing
    BY DEF Confirming
  <2> QED BY <1>1, <1>2, <2>1, Continues DEF ReferralInv
<1>4. unrewarded \subseteq unrewarded' /\ (b # "issue" => q \in unrewarded')
  BY <1>1, <1>2 DEF Unrewarded
<1>5. q \notin loose' => Resting(q)' /\ Fits(b, q)'
  <2> SUFFICES ASSUME q \notin loose' PROVE Resting(q)' /\ Fits(b, q)'
    OBVIOUS
  <2>1. Resting(q) /\ Fits(Stage(v, q), q)
    BY <1>1, <1>3, Confirmer DEF Confirming
  <2>2. referral'[q] = "confirmed"
    BY <1>1, <1>3, <2>1 DEF Fits, Confirming
  <2>3. b = "issue" => Stage(v, q)' = "issue"
    BY <1>3 DEF StepsTo
  <2>4. (\E x \in Reviewers : Stage(x, q) = "bank") => \E x \in Reviewers : Stage(x, q)' = "bank"
    BY <1>3 DEF StepsTo
  <2> QED
    BY <1>1, <1>4, <2>1, <2>2, <2>3, <2>4 DEF Resting, Fits
<1>6. Orderly(q)'
  BY <1>1, <1>3, <1>5, ConfirmStep DEF Confirming
<1>7. BankedOnce(q)' /\ Only(q)
  BY <1>1, <1>3, <1>4, SamePoints DEF Only
<1> QED
  BY <1>3, <1>6, <1>7, OthersKeep

LEMMA IssueKeeps ==
    ASSUME ReferralInv, ReferralTypeOK', NEW v \in Reviewers, IssueForSale(v)
    PROVE  ReferralInv'
<1>1. /\ reviewer[v] # NoReview /\ reviewer[v].at = "issue"
      /\ IF reward[reviewer[v].r] = "none"
         THEN /\ reward' = [reward EXCEPT ![reviewer[v].r] = "available"]
              /\ Onward(v, "bank")
         ELSE Onward(v, "reach") /\ UNCHANGED reward
      /\ UNCHANGED <<referral, points, unrewarded, loose>>
  BY DEF IssueForSale, IssueReward, NotIssued, ReviewAt
<1>2. PICK q \in Referrals : reviewer[v].r = q
  BY <1>1, ReviewShapes DEF ReferralInv
<1>3. CASE reward[q] # "none"
  <2>1. Stage(v, q) = "issue" /\ StepsTo(v, q, "reach") /\ UNCHANGED reward
    BY <1>1, <1>2, <1>3, Continues DEF ReferralInv, Confirming
  <2>2. q \notin loose' => Resting(q)' /\ Fits("reach", q)'
    <3> SUFFICES ASSUME q \notin loose' PROVE Resting(q)' /\ Fits("reach", q)'
      OBVIOUS
    <3>1. Resting(q) /\ Fits("issue", q)
      BY <1>1, <2>1, Confirmer DEF Confirming
    <3>2. (\E x \in Reviewers : Stage(x, q) = "bank") => \E x \in Reviewers : Stage(x, q)' = "bank"
      BY <2>1 DEF StepsTo
    <3> QED
      BY <1>1, <1>3, <2>1, <3>1, <3>2 DEF Resting, Fits, Confirming
  <2>3. Orderly(q)'
    BY <1>1, <2>1, <2>2, ConfirmStep DEF Confirming
  <2>4. BankedOnce(q)' /\ Only(q)
    BY <1>1, <2>1, SamePoints DEF Only
  <2> QED
    BY <2>1, <2>3, <2>4, OthersKeep
<1>4. CASE reward[q] = "none"
  <2>1. Stage(v, q) = "issue" /\ StepsTo(v, q, "bank")
    BY <1>1, <1>2, <1>4, Continues DEF ReferralInv, Confirming
  <2>2. /\ reward'[q] = "available" /\ points'[q] = points[q]
        /\ \A k \in Rewarded \ {q} : reward'[k] = reward[k]
    BY <1>1, <1>2, <1>4, AtWork DEF ReferralTypeOK
  <2>3. q \notin loose' => Resting(q)' /\ Fits("bank", q)'
    <3> SUFFICES ASSUME q \notin loose' PROVE Resting(q)' /\ Fits("bank", q)'
      OBVIOUS
    <3>1. Resting(q) /\ Fits("issue", q)
      BY <1>1, <2>1, Confirmer DEF Confirming
    <3>2. Stage(v, q)' = "bank"
      BY <2>1 DEF StepsTo
    <3> QED
      BY <1>1, <1>4, <2>2, <3>1, <3>2 DEF Resting, Fits, Confirming
  <2>4. Orderly(q)'
    BY <1>1, <2>1, <2>3, ConfirmStep DEF Confirming
  <2>5. points[q] <= 0 /\ \A x \in Reviewers : Stage(x, q) # "bank"
    BY <1>4, AtWork DEF BankedOnce
  <2>6. \A x \in Reviewers : Stage(x, q)' = "bank" => x = v
    BY <2>1, <2>5 DEF StepsTo
  <2>7. BankedOnce(q)'
    BY <2>2, <2>5, <2>6, AtWork DEF BankedOnce
  <2>8. Only(q)
    BY <1>1, <2>2 DEF Only
  <2> QED
    BY <2>1, <2>4, <2>7, <2>8, OthersKeep
<1> QED
  BY <1>3, <1>4

LEMMA BankKeeps ==
    ASSUME ReferralInv, ReferralTypeOK', NEW v \in Reviewers, BankForSale(v)
    PROVE  ReferralInv'
<1>1. /\ reviewer[v] # NoReview /\ reviewer[v].at = "bank" /\ Onward(v, "reach")
      /\ points' = [points EXCEPT ![reviewer[v].r] = @ + 1]
      /\ UNCHANGED <<referral, reward, unrewarded, loose>>
  BY DEF BankForSale, BankPoints, ReviewAt
<1>2. PICK q \in Referrals : reviewer[v].r = q
  BY <1>1, ReviewShapes DEF ReferralInv
<1>3. Stage(v, q) = "bank" /\ StepsTo(v, q, "reach")
  BY <1>1, <1>2, Continues DEF ReferralInv, Confirming
<1>4. /\ points'[q] = points[q] + 1 /\ \A k \in Rewarded \ {q} : points'[k] = points[k]
  BY <1>1, <1>2, AtWork DEF ReferralTypeOK
<1>5. /\ points[q] <= 0 /\ reward[q] # "none"
      /\ \A x \in Reviewers : Stage(x, q) = "bank" => x = v
  BY <1>3, AtWork DEF BankedOnce
<1>6. q \notin loose' => Resting(q)' /\ Fits("reach", q)'
  <2> SUFFICES ASSUME q \notin loose' PROVE Resting(q)' /\ Fits("reach", q)'
    OBVIOUS
  <2>1. Resting(q) /\ Fits("bank", q)
    BY <1>1, <1>3, Confirmer DEF Confirming
  <2>2. referral[q] = "confirmed"
    BY <2>1 DEF Fits, Confirming
  <2>3. reward[q] = "available" /\ points[q] = 0
    BY <1>5, <2>1, <2>2, AtWork DEF Resting
  <2> QED
    BY <1>1, <1>4, <2>2, <2>3 DEF Resting, Fits
<1>7. Orderly(q)'
  BY <1>1, <1>3, <1>6, ConfirmStep DEF Confirming
<1>8. \A x \in Reviewers : Stage(x, q)' # "bank"
  BY <1>3, <1>5 DEF StepsTo
<1>9. BankedOnce(q)'
  BY <1>1, <1>4, <1>5, <1>8, AtWork DEF BankedOnce
<1>10. Only(q)
  BY <1>1, <1>4 DEF Only
<1> QED
  BY <1>3, <1>7, <1>9, <1>10, OthersKeep

\* The milestone, for a handler at work on q: its reward and its points move, and
\* nothing of a referral does.
LEMMA MilestoneStep ==
    ASSUME ReferralInv, ReferralTypeOK', NEW v \in Reviewers, NEW q \in Referrals,
           Stage(v, q) \in {"reach", "bankMilestone"},
           NEW b \in {"bankMilestone", "save"}, StepsTo(v, q, b),
           UNCHANGED <<referral, unrewarded, loose>>,
           \A k \in Rewarded \ {Milestone} : reward'[k] = reward[k] /\ points'[k] = points[k],
           BankedOnce(Milestone)'
    PROVE  ReferralInv'
<1>1. \A r \in Referrals : r \in Rewarded \ {Milestone}
  BY AtWork
<1>2. q \notin loose' => Resting(q)' /\ Fits(b, q)'
  <2> SUFFICES ASSUME q \notin loose' PROVE Resting(q)' /\ Fits(b, q)'
    OBVIOUS
  <2>1. Resting(q) /\ Fits(Stage(v, q), q)
    BY Confirmer DEF Confirming
  <2>2. referral[q] = "confirmed"
    BY <2>1 DEF Fits, Confirming
  <2>3. \A x \in Reviewers : Stage(x, q) \in {"bank", "load", "issue"} =>
                                Stage(x, q)' = Stage(x, q)
    BY DEF StepsTo
  <2> QED
    BY <1>1, <2>1, <2>2, <2>3 DEF Resting, Fits
<1>3. Orderly(q)'
  BY <1>2, ConfirmStep DEF Confirming
<1>4. ASSUME NEW r \in Referrals PROVE Orderly(r)'
  <2>1. CASE r = q
    BY <1>3, <2>1
  <2>2. CASE r # q
    BY <1>1, <2>2, LeftAlone DEF ReferralInv, StepsTo
  <2> QED BY <2>1, <2>2
<1>5. ASSUME NEW k \in Rewarded PROVE BankedOnce(k)'
  <2>1. CASE k = Milestone
    BY <2>1
  <2>2. CASE k # Milestone
    <3>1. k \in Referrals
      BY <2>2 DEF Rewarded
    <3>2. \A x \in Reviewers : Banks(x, k)' => Banks(x, k)
      BY <2>2, <3>1 DEF StepsTo, Banks
    <3> QED BY <2>2, <3>2, PointsLeftAlone DEF ReferralInv
  <2> QED BY <2>1, <2>2
<1> QED
  BY <1>4, <1>5 DEF ReferralInv

LEMMA ReachKeeps ==
    ASSUME ReferralInv, ReferralTypeOK', NEW v \in Reviewers, ReachMilestone(v)
    PROVE  ReferralInv'
<1>0. UNCHANGED <<referral, points, unrewarded, loose>>
  BY DEF ReachMilestone
<1>1. /\ reviewer[v] # NoReview /\ reviewer[v].at = "reach"
      /\ \E j \in Reviewing :
            /\ Reviews(v, j) /\ j.r = reviewer[v].r
            /\ \/ j.at = "save" /\ UNCHANGED reward
               \/ /\ j.at = "bankMilestone" /\ reward[Milestone] = "none"
                  /\ reward' = [reward EXCEPT ![Milestone] = "available"]
  BY TurnsToMilestone DEF ReferralInv
<1>2. PICK j \in Reviewing :
         /\ Reviews(v, j) /\ j.r = reviewer[v].r
         /\ \/ j.at = "save" /\ UNCHANGED reward
            \/ /\ j.at = "bankMilestone" /\ reward[Milestone] = "none"
               /\ reward' = [reward EXCEPT ![Milestone] = "available"]
  BY <1>1
<1>3. PICK q \in Referrals : reviewer[v].r = q
  BY <1>1, ReviewShapes DEF ReferralInv
<1>4. Stage(v, q) = "reach" /\ StepsTo(v, q, j.at)
  BY <1>1, <1>2, <1>3, GoesOn DEF ReferralInv, StepsTo, Banks
<1>5. \A k \in Rewarded \ {Milestone} : reward'[k] = reward[k] /\ points'[k] = points[k]
  BY <1>0, <1>2 DEF ReferralInv, ReferralTypeOK
<1>6. BankedOnce(Milestone)'
  <2>1. CASE j.at = "save" /\ UNCHANGED reward
    <3>1. \A x \in Reviewers : Banks(x, Milestone)' => Banks(x, Milestone)
      BY <1>4, <2>1 DEF StepsTo
    <3> QED BY <1>0, <2>1, <3>1, AtWork, PointsLeftAlone
  <2>2. CASE j.at # "save"
    <3>1. /\ j.at = "bankMilestone" /\ reward[Milestone] = "none"
          /\ reward'[Milestone] = "available"
      BY <1>2, <2>2, AtWork DEF ReferralTypeOK, ReferralInv, Rewarded
    <3>2. points[Milestone] <= 0 /\ \A x \in Reviewers : ~Banks(x, Milestone)
      BY <3>1, AtWork DEF BankedOnce
    <3>3. \A x \in Reviewers : Banks(x, Milestone)' => x = v
      BY <1>4, <3>2 DEF StepsTo
    <3> QED BY <1>0, <3>1, <3>2, <3>3, AtWork DEF BankedOnce
  <2> QED BY <1>2, <2>1, <2>2
<1>7. j.at \in {"bankMilestone", "save"}
  BY <1>2
<1> QED
  BY <1>0, <1>4, <1>5, <1>6, <1>7, MilestoneStep

LEMMA BankMilestoneKeeps ==
    ASSUME ReferralInv, ReferralTypeOK', NEW v \in Reviewers, BankMilestone(v)
    PROVE  ReferralInv'
<1>1. /\ reviewer[v] # NoReview /\ reviewer[v].at = "bankMilestone" /\ Onward(v, "save")
      /\ points' = [points EXCEPT ![Milestone] = @ + 1] /\ Banks(v, Milestone)
      /\ UNCHANGED <<referral, reward, unrewarded, loose>>
  BY DEF BankMilestone, BankPoints, ReviewAt, Banks
<1>2. PICK q \in Referrals : reviewer[v].r = q
  BY <1>1, ReviewShapes DEF ReferralInv
<1>3. Stage(v, q) = "bankMilestone" /\ StepsTo(v, q, "save")
  BY <1>1, <1>2, Continues DEF ReferralInv, Confirming
<1>4. /\ points'[Milestone] = points[Milestone] + 1
      /\ \A k \in Rewarded \ {Milestone} : points'[k] = points[k]
  BY <1>1 DEF ReferralInv, ReferralTypeOK, Rewarded
<1>5. /\ points[Milestone] <= 0 /\ reward[Milestone] # "none"
      /\ \A x \in Reviewers : Banks(x, Milestone) => x = v
  BY <1>1, AtWork DEF BankedOnce
<1>6. \A x \in Reviewers : ~Banks(x, Milestone)'
  BY <1>3, <1>5 DEF StepsTo
<1>7. BankedOnce(Milestone)'
  BY <1>1, <1>4, <1>5, <1>6, AtWork DEF BankedOnce
<1> QED
  BY <1>1, <1>3, <1>4, <1>7, MilestoneStep

LEMMA UndoKeeps ==
    ASSUME ReferralInv, ReferralTypeOK', NEW v \in Reviewers, UndoReferral(v)
    PROVE  ReferralInv'
<1>1. /\ reviewer[v] # NoReview /\ reviewer[v].at \in {"drop", "takeBack"}
      /\ SetReferral(reviewer[v].r, "undone")
      /\ reviewer[v].at = "takeBack" => Onward(v, "find")
      /\ reviewer[v].at = "drop" => Reviews(v, NoReview)
      /\ UNCHANGED <<reward, points, unrewarded, loose>>
  BY DEF UndoReferral, ReviewAt
<1>2. PICK q \in Referrals : reviewer[v].r = q
  BY <1>1, ReviewShapes DEF ReferralInv
<1>3. /\ referral'[q] = "undone" /\ \A r \in Referrals \ {q} : referral'[r] = referral[r]
  BY <1>1, <1>2 DEF SetReferral, ReferralInv, ReferralTypeOK
<1>4. Only(q)
  BY <1>1, <1>3 DEF Only
<1>5. q \notin loose => Fits(reviewer[v].at, q)
  <2>1. Stage(v, q) = reviewer[v].at
    BY <1>1, <1>2 DEF Stage
  <2> QED BY <2>1 DEF ReferralInv, Orderly
<1>6. CASE reviewer[v].at = "takeBack"
  <2>1. Stage(v, q) = "takeBack" /\ StepsTo(v, q, "find")
    BY <1>1, <1>2, <1>6, Continues DEF ReferralInv, Undoing
  <2>2. q \notin loose' => Fits("find", q)'
    BY <1>1, <1>3, <1>5, <1>6 DEF Fits, Even, Confirming
  <2>3. Orderly(q)'
    BY <1>1, <2>1, <2>2, UndoStep DEF Undoing
  <2>4. BankedOnce(q)'
    BY <1>1, <2>1, SamePoints
  <2> QED BY <1>4, <2>1, <2>3, <2>4, OthersKeep
<1>7. CASE reviewer[v].at = "drop"
  <2>1. Stage(v, q) = "drop" /\ StepsTo(v, q, "none")
    BY <1>1, <1>2, <1>7, Finishes DEF ReferralInv
  <2>2. q \notin loose' => Resting(q)'
    BY <1>1, <1>3, <1>5, <1>7 DEF Fits, Resting
  <2>3. Orderly(q)'
    BY <1>1, <2>1, <2>2, UndoStep DEF Undoing
  <2>4. BankedOnce(q)'
    BY <1>1, <2>1, SamePoints
  <2> QED BY <1>4, <2>1, <2>3, <2>4, OthersKeep
<1> QED
  BY <1>1, <1>6, <1>7

\* Handlers that undo q and write neither its reward nor its points.
LEMMA UndoesOn ==
    ASSUME ReferralInv, ReferralTypeOK', NEW v \in Reviewers, NEW q \in Referrals,
           Stage(v, q) \in Undoing, NEW b \in {"none"} \cup Undoing, StepsTo(v, q, b),
           UNCHANGED <<referral, reward, points, unrewarded>>, loose \subseteq loose',
           q \notin loose' => IF b = "none" THEN Resting(q)' ELSE Fits(b, q)'
    PROVE  ReferralInv'
<1>1. Orderly(q)'
  BY UndoStep
<1>2. b # "bank" /\ b # "bankMilestone"
  BY DEF Undoing
<1>3. BankedOnce(q)' /\ Only(q)
  BY <1>2, SamePoints DEF Only
<1> QED
  BY <1>1, <1>2, <1>3, OthersKeep

LEMMA FindKeeps ==
    ASSUME ReferralInv, ReferralTypeOK', NEW v \in Reviewers, FindReward(v)
    PROVE  ReferralInv'
<1>1. /\ reviewer[v] # NoReview /\ reviewer[v].at = "find" /\ promoter \in Promoter
      /\ reviewer[v] \in Reviewing
      /\ UNCHANGED <<referral, reward, points, unrewarded, loose>>
  BY ReviewShapes DEF FindReward, ReviewAt, ReferralInv, ReferralTypeOK
<1>2. PICK q \in Referrals : reviewer[v].r = q
  BY <1>1, ReviewShapes DEF ReferralInv
<1>3. PICK b \in {"reverse", "unsave"} :
         /\ b = "reverse" <=> reward[q] = "available"
         /\ Reviews(v, [reviewer[v] EXCEPT !.at = b, !.seen = promoter])
  <2>1. \A b \in {"reverse", "unsave"} :
           [reviewer[v] EXCEPT !.seen = promoter, !.at = b]
              = [reviewer[v] EXCEPT !.at = b, !.seen = promoter]
    BY <1>1 DEF Reviewing
  <2>2. IF reward[q] = "available"
        THEN Reviews(v, [reviewer[v] EXCEPT !.seen = promoter, !.at = "reverse"])
        ELSE Reviews(v, [reviewer[v] EXCEPT !.seen = promoter, !.at = "unsave"])
    BY <1>2 DEF FindReward
  <2> QED BY <2>1, <2>2
<1>4. Stage(v, q) = "find" /\ StepsTo(v, q, b)
  <2>1. b \in Confirming \cup Undoing
    BY DEF Undoing
  <2> QED BY <1>1, <1>2, <1>3, <2>1, Continues DEF ReferralInv
<1>5. q \notin loose' => b # "none" /\ Fits(b, q)'
  <2>1. q \notin loose => Fits("find", q)
    BY <1>4 DEF ReferralInv, Orderly
  <2> QED
    BY <1>1, <1>3, <2>1 DEF Fits, Even, Confirming
<1>6. Stage(v, q) \in Undoing /\ b \in {"none"} \cup Undoing
  BY <1>4 DEF Undoing
<1> QED
  BY <1>1, <1>4, <1>5, <1>6, UndoesOn

LEMMA ReverseKeeps ==
    ASSUME ReferralInv, ReferralTypeOK', NEW v \in Reviewers, ReverseReward(v)
    PROVE  ReferralInv'
<1>1. /\ reviewer[v] # NoReview /\ reviewer[v].at = "reverse" /\ Onward(v, "debit")
      /\ reward' = [reward EXCEPT ![reviewer[v].r] = "reversed"]
      /\ UNCHANGED <<referral, points, unrewarded, loose>>
  BY DEF ReverseReward, ReviewAt
<1>2. PICK q \in Referrals : reviewer[v].r = q
  BY <1>1, ReviewShapes DEF ReferralInv
<1>3. Stage(v, q) = "reverse" /\ StepsTo(v, q, "debit")
  BY <1>1, <1>2, Continues DEF ReferralInv, Undoing
<1>4. /\ reward'[q] = "reversed" /\ points'[q] = points[q]
      /\ \A k \in Rewarded \ {q} : reward'[k] = reward[k]
  BY <1>1, <1>2, AtWork DEF ReferralTypeOK
<1>5. q \notin loose' => Fits("debit", q)'
  <2>1. q \notin loose => Fits("reverse", q)
    BY <1>3 DEF ReferralInv, Orderly
  <2> QED
    BY <1>1, <1>4, <2>1 DEF Fits, Confirming
<1>6. Orderly(q)'
  BY <1>1, <1>3, <1>5, UndoStep DEF Undoing
<1>7. \A x \in Reviewers : Stage(x, q)' = "bank" => Stage(x, q) = "bank"
  BY <1>3 DEF StepsTo
<1>8. BankedOnce(q)'
  BY <1>4, <1>7, AtWork DEF BankedOnce
<1>9. Only(q)
  BY <1>1, <1>4 DEF Only
<1> QED
  BY <1>3, <1>6, <1>8, <1>9, OthersKeep

LEMMA DebitKeeps ==
    ASSUME ReferralInv, ReferralTypeOK', NEW v \in Reviewers, DebitPoints(v)
    PROVE  ReferralInv'
<1>1. /\ reviewer[v] # NoReview /\ reviewer[v].at = "debit" /\ Onward(v, "unsave")
      /\ points' = [points EXCEPT ![reviewer[v].r] = @ - 1]
      /\ UNCHANGED <<referral, reward, unrewarded, loose>>
  BY DEF DebitPoints, ReviewAt
<1>2. PICK q \in Referrals : reviewer[v].r = q
  BY <1>1, ReviewShapes DEF ReferralInv
<1>3. Stage(v, q) = "debit" /\ StepsTo(v, q, "unsave")
  BY <1>1, <1>2, Continues DEF ReferralInv, Undoing
<1>4. /\ points'[q] = points[q] - 1 /\ \A k \in Rewarded \ {q} : points'[k] = points[k]
  BY <1>1, <1>2, AtWork DEF ReferralTypeOK
<1>5. q \notin loose' => Fits("unsave", q)'
  <2>1. q \notin loose => Fits("debit", q)
    BY <1>3 DEF ReferralInv, Orderly
  <2> QED
    BY <1>1, <1>4, <2>1 DEF Fits, Confirming
<1>6. Orderly(q)'
  BY <1>1, <1>3, <1>5, UndoStep DEF Undoing
<1>7. \A x \in Reviewers : Stage(x, q)' = "bank" => Stage(x, q) = "bank"
  BY <1>3 DEF StepsTo
<1>8. BankedOnce(q)'
  BY <1>1, <1>4, <1>7, AtWork DEF BankedOnce
<1>9. Only(q)
  BY <1>1, <1>4 DEF Only
<1> QED
  BY <1>3, <1>6, <1>8, <1>9, OthersKeep

LEMMA UnsaveKeeps ==
    ASSUME ReferralInv, ReferralTypeOK', NEW v \in Reviewers, UnsavePromoter(v)
    PROVE  ReferralInv'
<1>1. /\ reviewer[v] # NoReview /\ reviewer[v].at = "unsave" /\ Reviews(v, NoReview)
      /\ UNCHANGED <<referral, reward, points, unrewarded, loose>>
  BY DEF UnsavePromoter, ReviewAt
<1>2. PICK q \in Referrals : reviewer[v].r = q
  BY <1>1, ReviewShapes DEF ReferralInv
<1>3. Stage(v, q) = "unsave" /\ StepsTo(v, q, "none")
  BY <1>1, <1>2, Finishes DEF ReferralInv
<1>4. q \notin loose => Fits("unsave", q)
  BY <1>3 DEF ReferralInv, Orderly
<1>5. q \notin loose' => Resting(q)'
  BY <1>1, <1>4 DEF Fits, Resting
<1>6. Stage(v, q) \in Undoing
  BY <1>3 DEF Undoing
<1> QED
  BY <1>1, <1>3, <1>5, <1>6, UndoesOn

\* A handler that loses its debit, or fails.
LEMMA FailKeeps ==
    ASSUME ReferralInv, ReferralTypeOK', NEW v \in Reviewers, DebitLost(v) \/ ReviewFails(v)
    PROVE  ReferralInv'
<1>1. PICK b \in {"none", "unsave"} :
         /\ reviewer[v] # NoReview /\ loose' = loose \cup {reviewer[v].r}
         /\ IF b = "none" THEN Reviews(v, NoReview) ELSE Onward(v, b)
         /\ UNCHANGED <<referral, reward, points, unrewarded>>
  BY DEF DebitLost, ReviewFails, ReviewAt, CutShort
<1>2. PICK q \in Referrals : reviewer[v].r = q
  BY <1>1, ReviewShapes DEF ReferralInv
<1>3. StepsTo(v, q, b)
  <2>1. CASE b = "none"
    BY <1>1, <1>2, <2>1, Finishes DEF ReferralInv
  <2>2. CASE b = "unsave"
    BY <1>1, <1>2, <2>2, Continues DEF ReferralInv, Undoing
  <2> QED BY <2>1, <2>2
<1>4. Orderly(q)'
  BY <1>1, <1>2 DEF Orderly
<1>5. BankedOnce(q)' /\ Only(q)
  BY <1>1, <1>3, SamePoints DEF Only
<1> QED
  BY <1>3, <1>4, <1>5, OthersKeep

-----------------------------------------------------------------------------
LEMMA ReferralInductive == ReferralInv /\ [ReferralNext]_referralVars => ReferralInv'
<1> SUFFICES ASSUME ReferralInv, [ReferralNext]_referralVars PROVE ReferralInv'
  OBVIOUS
<1>0. ReferralTypeOK'
  BY ReferralTypes DEF ReferralInv
<1>1. ASSUME NEW r \in Referrals, Attribute(r) PROVE ReferralInv'
  BY <1>0, <1>1, AttributeKeeps
<1>2. ASSUME NEW v \in Reviewers, NEW r \in Referrals, LookToConfirm(v, r) \/ LookToUndo(v, r)
      PROVE  ReferralInv'
  BY <1>0, <1>2, LookKeeps
<1>3. ASSUME NEW v \in Reviewers,
             \/ HoldForReview(v) \/ SavePromoter(v) \/ ConfirmReferral(v)
             \/ LoadPromoter(v) \/ BudgetSpent(v) \/ IssueForSale(v) \/ BankForSale(v)
             \/ ReachMilestone(v) \/ BankMilestone(v)
      PROVE  ReferralInv'
  BY <1>0, <1>3, HoldKeeps, ConfirmKeeps, LoadKeepsPoints, IssueKeeps, BankKeeps,
     ReachKeeps, BankMilestoneKeeps
<1>4. ASSUME NEW v \in Reviewers,
             \/ UndoReferral(v) \/ FindReward(v) \/ ReverseReward(v) \/ DebitPoints(v)
             \/ DebitLost(v) \/ UnsavePromoter(v) \/ ReviewFails(v)
      PROVE  ReferralInv'
  BY <1>0, <1>4, UndoKeeps, FindKeeps, ReverseKeeps, DebitKeeps, UnsaveKeeps, FailKeeps
<1>5. CASE UNCHANGED referralVars
  <2>1. \A x \in Reviewers : /\ \A r \in Referrals : Stage(x, r)' = Stage(x, r)
                             /\ \A k \in Rewarded : Banks(x, k)' <=> Banks(x, k)
    BY <1>5 DEF referralVars, Stage, Banks, ReviewAt
  <2>2. \A r \in Referrals : Orderly(r)'
    BY <1>5, <2>1, LeftAlone DEF referralVars, ReferralInv
  <2>3. \A k \in Rewarded : BankedOnce(k)'
    BY <1>5, <2>1, PointsLeftAlone DEF referralVars, ReferralInv
  <2> QED BY <1>0, <2>2, <2>3 DEF ReferralInv
<1> QED
  BY <1>1, <1>2, <1>3, <1>4, <1>5 DEF ReferralNext

\* Whatever handlers overlap, points are banked once for each reward; and what a
\* handler finds of a referral none of whose handlers fails, or undoes it beside
\* another, is what the one before it left (services/shareEarn).
THEOREM ReferralInvariant == ReferralSpec => []ReferralInv
BY ReferralStart, ReferralInductive, PTL DEF ReferralSpec

\* Nothing is banked twice, the milestone included, whatever overlaps or fails; and
\* a referral whose handlers all finished, none undoing it beside another, has its
\* point while it is confirmed, unless there was no buyer or no budget for it, and
\* none before or after (services/shareEarn, confirm and reverse).
THEOREM RewardsAlwaysFollow == ReferralSpec => []RewardsFollowSales
<1>1. ReferralInv => RewardsFollowSales
  <2> SUFFICES ASSUME ReferralInv PROVE RewardsFollowSales
    OBVIOUS
  <2>1. \A k \in Rewarded : points[k] <= 1
    BY DEF ReferralInv, BankedOnce
  <2>2. ASSUME NEW r \in Referrals \ loose,
               \A v \in Reviewers : ~WorksOn(v, r, Confirming \cup Undoing)
        PROVE  IF referral[r] = "confirmed" THEN points[r] = 1 \/ r \in unrewarded
                                            ELSE points[r] = 0
    <3>1. \A v \in Reviewers : Stage(v, r) = "none"
      BY <2>2, ReviewShapes DEF Stage, WorksOn, ReviewAt, ReferralInv
    <3>2. Resting(r)
      BY <3>1 DEF ReferralInv, Orderly, Undoing
    <3>3. referral[r] \in {"none", "pending", "confirmed", "undone"}
      BY DEF ReferralInv, ReferralTypeOK
    <3> QED
      BY <3>1, <3>2, <3>3 DEF Resting
  <2> QED
    BY <2>1, <2>2 DEF RewardsFollowSales
<1> QED
  BY <1>1, ReferralInvariant, PTL
=============================================================================
