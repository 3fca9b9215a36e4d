----------------------------- MODULE OneTimeCodes -----------------------------
(***************************************************************************)
(* One-time codes for one destination (services/otp): issuing one retires  *)
(* those before it, a proof reserves a guess and then, in one transaction, *)
(* claims the code and changes the account.                                *)
(***************************************************************************)
EXTENDS Naturals, Sequences, FiniteSets

CONSTANTS
    Wrong,        \* a proof that is no code
    MaxAttempts,
    OtpHandlers,  \* requests in flight
    SlowIssue,    \* may issuing a code outlast the resend cooldown?
    MaxCodes      \* bound: codes issued

ASSUME OtpAssumption ==
    /\ IsFiniteSet(OtpHandlers)
    /\ MaxAttempts \in Nat /\ MaxCodes \in Nat /\ Wrong \notin Nat
    /\ SlowIssue \in BOOLEAN

VARIABLES
    cooling,    \* the resend quota is used up
    codes,      \* BuyerOtp rows, in the order of createdAt
    ran,        \* account changes made with each code
    otpJob      \* the request at each handler

otpVars == <<cooling, codes, ran, otpJob>>

NoOtpJob == [at |-> "none"]
Proofs == 1..MaxCodes \cup {Wrong}

OtpTypeOK ==
    /\ cooling \in BOOLEAN
    /\ codes \in Seq([consumed : BOOLEAN, expired : BOOLEAN, attempts : 0..MaxAttempts])
    /\ ran \in [1..MaxCodes -> Nat]
    /\ otpJob \in [OtpHandlers -> {NoOtpJob} \cup [at : {"retire", "create"}]
          \cup [at : {"reserve", "claim"}, code : 1..MaxCodes, proof : Proofs]]

OtpInit ==
    /\ cooling = FALSE /\ codes = <<>>
    /\ ran = [c \in 1..MaxCodes |-> 0]
    /\ otpJob = [h \in OtpHandlers |-> NoOtpJob]

OtpStage(h, j) == otpJob' = [otpJob EXCEPT ![h] = j]
LiveCode(c) == ~codes[c].consumed /\ ~codes[c].expired
LiveCodes == { c \in DOMAIN codes : LiveCode(c) }
Newest(cs) == CHOOSE c \in cs : \A x \in cs : x <= c

(***************************************************************************)
(* issue: the cooldown, the codes before, the new one.                     *)
(***************************************************************************)
BeginIssue(h) ==
    /\ otpJob[h] = NoOtpJob /\ ~cooling
    /\ Len(codes) + Cardinality({ g \in OtpHandlers :
                       otpJob[g].at \in {"retire", "create"} }) < MaxCodes
    /\ cooling' = TRUE
    /\ OtpStage(h, [at |-> "retire"])
    /\ UNCHANGED <<codes, ran>>

CooldownEnds ==
    /\ cooling /\ cooling' = FALSE
    /\ SlowIssue \/ \A h \in OtpHandlers : otpJob[h].at \notin {"retire", "create"}
    /\ UNCHANGED <<codes, ran, otpJob>>

RetireCodes(h) ==
    /\ otpJob[h].at = "retire"
    /\ codes' = [c \in DOMAIN codes |-> [codes[c] EXCEPT !.consumed = TRUE]]
    /\ OtpStage(h, [at |-> "create"])
    /\ UNCHANGED <<cooling, ran>>

\* The code stands whether or not the message with it can be sent.
CreateCode(h) ==
    /\ otpJob[h].at = "create"
    /\ codes' = Append(codes, [consumed |-> FALSE, expired |-> FALSE, attempts |-> 0])
    /\ OtpStage(h, NoOtpJob)
    /\ UNCHANGED <<cooling, ran>>

(***************************************************************************)
(* withVerified: the newest live code is found, a guess is reserved, the   *)
(* proof compared, the code claimed together with the change it is for.    *)
(***************************************************************************)
FindCode(h, proof) ==
    /\ otpJob[h] = NoOtpJob /\ LiveCodes # {}
    /\ proof \in DOMAIN codes \cup {Wrong}
    /\ OtpStage(h, [at |-> "reserve", code |-> Newest(LiveCodes), proof |-> proof])
    /\ UNCHANGED <<cooling, codes, ran>>

Matches(h) == otpJob[h].proof = otpJob[h].code

\* One guess more than the limit.
GuessLeftOver(c) == codes[c].attempts <= MaxAttempts

GuessLeft(c) == codes[c].attempts < MaxAttempts

ReserveGuess(h) ==
    /\ otpJob[h].at = "reserve"
    /\ LET c == otpJob[h].code IN
       IF LiveCode(c) /\ GuessLeft(c)
       THEN /\ codes' = [codes EXCEPT ![c].attempts = @ + 1]
            /\ OtpStage(h, IF Matches(h) THEN [otpJob[h] EXCEPT !.at = "claim"]
                                         ELSE NoOtpJob)
       ELSE OtpStage(h, NoOtpJob) /\ UNCHANGED codes
    /\ UNCHANGED <<cooling, ran>>

\* Not expired, but perhaps consumed by now.
ClaimableAgain(c) == ~codes[c].expired

\* Neither consumed nor expired by now; the filter of the claim.
Claimable(c) == LiveCode(c)

ClaimAndRun(h) ==
    /\ otpJob[h].at = "claim"
    /\ LET c == otpJob[h].code IN
       IF Claimable(c)
       THEN /\ codes' = [codes EXCEPT ![c].consumed = TRUE]
            /\ ran' = [ran EXCEPT ![c] = @ + 1]
       ELSE UNCHANGED <<codes, ran>>
    /\ OtpStage(h, NoOtpJob)
    /\ UNCHANGED cooling

\* The handler fails, or the change it is for rolls the claim back.
OtpFails(h) ==
    /\ otpJob[h] # NoOtpJob
    /\ OtpStage(h, NoOtpJob)
    /\ UNCHANGED <<cooling, codes, ran>>

ExpireCode(c) ==
    /\ c \in DOMAIN codes /\ ~codes[c].expired
    /\ codes' = [codes EXCEPT ![c].expired = TRUE]
    /\ UNCHANGED <<cooling, ran, otpJob>>

OtpNext ==
    \/ CooldownEnds
    \/ \E c \in 1..MaxCodes : ExpireCode(c)
    \/ \E h \in OtpHandlers :
          \/ BeginIssue(h) \/ RetireCodes(h) \/ CreateCode(h)
          \/ \E proof \in Proofs : FindCode(h, proof)
          \/ ReserveGuess(h) \/ ClaimAndRun(h) \/ OtpFails(h)

OtpSpec == OtpInit /\ [][OtpNext]_otpVars

(***************************************************************************)
(* What a code promises.                                                   *)
(***************************************************************************)
\* A code changes an account at most once, however many proofs of it come in at
\* a time, and "only the newest works": whatever a new code overlaps with, none
\* before it can still be claimed.
CodeOpensOnce ==
    /\ \A c \in 1..MaxCodes : ran[c] <= 1
    /\ LiveCodes \subseteq {Len(codes)}
=============================================================================
