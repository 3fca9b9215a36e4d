---------------------------- MODULE BandRegister ----------------------------
(***************************************************************************)
(* Which tag a wallet wears, the event's register of tags, and the trail   *)
(* of bindings kept for clone forensics.  services/wallet (bindBand,       *)
(* unbindBand, reissueBand, ensureStandaloneWalletForBand,                 *)
(* ensureWalletForTicket) and services/eventTag (registerTag, retireTag,   *)
(* assertTagRegistered).  None of it is a transaction: a job of a desk is  *)
(* a sequence of single-document writes, any of which may fail.            *)
(***************************************************************************)
EXTENDS Integers, SequencesExt

CONSTANTS
    BandWallets,
    Tags,
    NoTag, NoWallet,
    TagDesks,       \* jobs in flight at a time
    MaxFailures,    \* bound: writes that fail
    MaxJobs         \* bound: jobs that ever start

ASSUME BandAssumption ==
    /\ NoTag \notin Tags /\ NoWallet \notin BandWallets
    /\ MaxFailures \in Nat /\ MaxJobs \in Nat

VARIABLES
    made,       \* wallets that exist
    worn,       \* Wallet.bandUid
    frozen,     \* wallets whose status is not active
    register,   \* EventTag rows
    trail,      \* the tags of a wallet's open BandBinding rows, oldest first
    desk,       \* the job of each desk
    failures,   \* writes that failed so far
    gaps,       \* wallets for which a write to the trail failed for good
    crossed,    \* history: wallets released or claimed while another job still owed
                \* them the second of its writes
    jobs        \* jobs started so far

bandVars == <<made, worn, frozen, register, trail, desk, failures, gaps, crossed,
              jobs>>

NoJob == [op |-> "none"]
Ops == {"bind", "unbind", "reissue", "retire", "handout"}
Stages == {"release", "stamp", "gate", "claim", "audit", "undo",
           "regate", "reclaim", "reaudit", "reundo", "report", "flip"}
\* tag: to bind, or to retire; old: what a reissue found on the wallet.
TagJobs == {NoJob} \cup [op : Ops, at : Stages, w : BandWallets \cup {NoWallet}, tag : Tags \cup {NoTag},
                         old : Tags \cup {NoTag}]

BandTypeOK ==
    /\ made \subseteq BandWallets /\ frozen \subseteq made
    /\ gaps \subseteq made /\ crossed \subseteq made
    /\ worn \in [BandWallets -> Tags \cup {NoTag}]
    /\ register \in [Tags -> {"absent", "active", "retired"}]
    /\ trail \in [BandWallets -> Seq(Tags)]
    /\ failures \in 0..MaxFailures /\ jobs \in 0..MaxJobs
    /\ desk \in [TagDesks -> TagJobs]

BandInit ==
    /\ made = {} /\ frozen = {} /\ gaps = {} /\ crossed = {}
    /\ worn = [w \in BandWallets |-> NoTag]
    /\ register = [t \in Tags |-> "absent"]
    /\ trail = [w \in BandWallets |-> <<>>]
    /\ failures = 0 /\ jobs = 0
    /\ desk = [k \in TagDesks |-> NoJob]

(***************************************************************************)
(* Jobs.                                                                   *)
(***************************************************************************)
Busy(w) == \E k \in TagDesks : desk[k] # NoJob /\ desk[k].w = w

JobOf(op, w, at, t, old) == [op |-> op, at |-> at, w |-> w, tag |-> t, old |-> old]
Take(k, j) ==
    /\ desk[k] = NoJob /\ desk' = [desk EXCEPT ![k] = j]
    /\ jobs < MaxJobs /\ jobs' = jobs + 1
At(k, stages) == desk[k] # NoJob /\ desk[k].at \in stages
Proceed(k, at) == desk' = [desk EXCEPT ![k].at = at]
Finish(k) == desk' = [desk EXCEPT ![k] = NoJob]

\* The second write of a job that released or claimed w is still to come.
Owed(w) == \E k \in TagDesks :
    At(k, {"stamp", "audit", "reaudit", "undo", "reundo"}) /\ desk[k].w = w
Cross(w) == crossed' = IF Owed(w) THEN crossed \cup {w} ELSE crossed

Registered(t) == register[t] = "active"
Wear(w, t) == worn' = [worn EXCEPT ![w] = t]
OthersWear(w, t) == \E v \in made \ {w} : worn[v] = t
\* A write that may fail, did.
WriteFails == failures < MaxFailures /\ failures' = failures + 1

(***************************************************************************)
(* The register.  Enrolling is an idempotent upsert on the unique          *)
(* {eventId, bandUid} index and brings a retired tag back.                 *)
(***************************************************************************)
RegisterTag(t) ==
    /\ ~Registered(t)
    /\ register' = [register EXCEPT ![t] = "active"]
    /\ UNCHANGED <<made, worn, frozen, trail, desk, gaps, failures, crossed, jobs>>

\* Retiring looks for the wallet that wears the tag, releases that wallet, and
\* flips the row last.
StartRetire(k, t) ==
    /\ register[t] # "absent"
    /\ \/ \E w \in made : /\ worn[w] = t
                          /\ Take(k, JobOf("retire", w, "release", t, NoTag))
       \/ /\ \A w \in made : worn[w] # t
          /\ Take(k, JobOf("retire", NoWallet, "flip", t, NoTag))
    /\ UNCHANGED <<made, worn, frozen, register, trail, gaps, failures, crossed>>

FlipRow(k) ==
    /\ At(k, {"flip"})
    /\ register' = [register EXCEPT ![desk[k].tag] = "retired"]
    /\ Finish(k)
    /\ UNCHANGED <<made, worn, frozen, trail, gaps, failures, crossed, jobs>>

(***************************************************************************)
(* unbindBand: release, then stamp the most recent open row of the wallet. *)
(***************************************************************************)
StartUnbind(k, w) ==
    /\ w \in made /\ worn[w] # NoTag
    /\ Take(k, JobOf("unbind", w, "stamp", NoTag, NoTag))
    /\ Wear(w, NoTag) /\ Cross(w)
    /\ UNCHANGED <<made, frozen, register, trail, gaps, failures>>

\* Under a retirement or a reissue: whatever the wallet wears by now.
Release(k) ==
    /\ At(k, {"release"})
    /\ LET w == desk[k].w IN
       IF worn[w] # NoTag THEN Wear(w, NoTag) /\ Cross(w) /\ Proceed(k, "stamp")
                          ELSE Finish(k) /\ UNCHANGED <<worn, crossed>>
    /\ UNCHANGED <<made, frozen, register, trail, gaps, failures, jobs>>

\* A wallet with no open row has nothing to stamp.
CloseNewest(w) ==
    trail' = [trail EXCEPT ![w] = IF @ = <<>> THEN @ ELSE Front(@)]

AfterStamp(k) ==
    IF desk[k].op = "retire" THEN Proceed(k, "flip")
    ELSE IF desk[k].op = "reissue" THEN Proceed(k, "gate")
    ELSE Finish(k)

Stamp(k) ==
    /\ At(k, {"stamp"})
    /\ CloseNewest(desk[k].w)
    /\ AfterStamp(k)
    /\ UNCHANGED <<made, worn, frozen, register, gaps, failures, crossed, jobs>>

\* Logged and thrown: the job ends here, the wallet released.
StampFails(k) ==
    /\ At(k, {"stamp"}) /\ WriteFails
    /\ gaps' = gaps \cup {desk[k].w}
    /\ Finish(k)
    /\ UNCHANGED <<made, worn, frozen, register, trail, crossed, jobs>>

(***************************************************************************)
(* bindBand: the register gate, the claim of the wallet, the row of the    *)
(* trail, and the undo of the claim when the row cannot be written.        *)
(***************************************************************************)
StartBind(k, w, t) ==
    /\ w \in made
    /\ Take(k, JobOf("bind", w, "gate", t, NoTag))
    /\ UNCHANGED <<made, worn, frozen, register, trail, gaps, failures, crossed>>

\* reissueBand: everything that can refuse the new tag is looked at before the
\* old one is released.
StartReissue(k, w, t) ==
    /\ w \in made \ frozen
    /\ Registered(t) /\ ~OthersWear(w, t)
    /\ Take(k, JobOf("reissue", w, IF worn[w] = NoTag THEN "gate" ELSE "release",
                     t, worn[w]))
    /\ UNCHANGED <<made, worn, frozen, register, trail, gaps, failures, crossed>>

\* The tag that the attempt under way binds: the old one again when a reissue
\* restores it.
Restoring(k) == At(k, {"regate", "reclaim", "reaudit", "reundo"})
Wanted(k) == IF Restoring(k) THEN desk[k].old ELSE desk[k].tag

\* A reissue that failed leaves the wallet as it is.
BindFailsForGood(k) == Finish(k)

\* A bind that failed ends the job; a reissue first binds the old tag again, and
\* reports that the wallet is left without one when that fails too.
BindFails(k) ==
    IF desk[k].op = "reissue" /\ desk[k].old # NoTag
    THEN Proceed(k, IF Restoring(k) THEN "report" ELSE "regate")
    ELSE Finish(k)

Report(k) ==
    /\ At(k, {"report"})
    /\ Finish(k)
    /\ UNCHANGED <<made, worn, frozen, register, trail, gaps, failures, crossed, jobs>>

Gate(k) ==
    /\ At(k, {"gate", "regate"})
    /\ IF Registered(Wanted(k))
       THEN Proceed(k, IF Restoring(k) THEN "reclaim" ELSE "claim")
       ELSE BindFails(k)
    /\ UNCHANGED <<made, worn, frozen, register, trail, gaps, failures, crossed, jobs>>

Claim(k) ==
    /\ At(k, {"claim", "reclaim"})
    /\ LET w == desk[k].w  t == Wanted(k) IN
       IF w \notin frozen /\ worn[w] = NoTag /\ ~OthersWear(w, t)
       THEN /\ Wear(w, t) /\ Cross(w)
            /\ Proceed(k, IF Restoring(k) THEN "reaudit" ELSE "audit")
       ELSE BindFails(k) /\ UNCHANGED <<worn, crossed>>
    /\ UNCHANGED <<made, frozen, register, trail, gaps, failures, jobs>>

Audit(k) ==
    /\ At(k, {"audit", "reaudit"})
    /\ trail' = [trail EXCEPT ![desk[k].w] = Append(@, Wanted(k))]
    /\ Finish(k)
    /\ UNCHANGED <<made, worn, frozen, register, gaps, failures, crossed, jobs>>

\* A hand-out has no undo: the wallet keeps its tag and the trail lacks it.
AuditFails(k) ==
    /\ At(k, {"audit", "reaudit"}) /\ WriteFails
    /\ IF desk[k].op = "handout"
       THEN Finish(k) /\ gaps' = gaps \cup {desk[k].w}
       ELSE Proceed(k, IF Restoring(k) THEN "reundo" ELSE "undo") /\ UNCHANGED gaps
    /\ UNCHANGED <<made, worn, frozen, register, trail, crossed, jobs>>

\* The claim is left when its row cannot be written.
UndoClaimSkipped(k) ==
    /\ At(k, {"undo", "reundo"})
    /\ BindFails(k)
    /\ UNCHANGED <<made, worn, frozen, register, trail, gaps, failures, crossed, jobs>>

\* Only the uid that this call claimed is taken off again.
UndoClaim(k) ==
    /\ At(k, {"undo", "reundo"})
    /\ worn' = [worn EXCEPT ![desk[k].w] = IF @ = Wanted(k) THEN NoTag ELSE @]
    /\ BindFails(k)
    /\ UNCHANGED <<made, frozen, register, trail, gaps, failures, crossed, jobs>>

UndoFails(k) ==
    /\ At(k, {"undo", "reundo"}) /\ WriteFails
    /\ gaps' = gaps \cup {desk[k].w}
    /\ BindFails(k)
    /\ UNCHANGED <<made, worn, frozen, register, trail, crossed, jobs>>

(***************************************************************************)
(* Wallets: one for a ticket, without a tag; one handed out with its tag   *)
(* on, which the unique index gives to the first of two taps.  A holder's  *)
(* withdrawal request freezes the wallet; its rejection thaws it.          *)
(***************************************************************************)
MakeTicketWallet(w) ==
    /\ w \notin made /\ ~Busy(w)
    /\ made' = made \cup {w}
    /\ UNCHANGED <<worn, frozen, register, trail, desk, gaps, failures, crossed, jobs>>

StartHandout(k, w, t) ==
    /\ w \notin made /\ ~Busy(w)
    /\ Registered(t) /\ \A v \in made : worn[v] # t
    /\ Take(k, JobOf("handout", w, "claim", t, NoTag))
    /\ UNCHANGED <<made, worn, frozen, register, trail, gaps, failures, crossed>>

Handout(k) ==
    /\ At(k, {"claim"}) /\ desk[k].op = "handout"
    /\ LET w == desk[k].w  t == desk[k].tag IN
       IF w \notin made /\ \A v \in made : worn[v] # t
       THEN /\ made' = made \cup {w} /\ Wear(w, t) /\ Proceed(k, "audit")
       ELSE Finish(k) /\ UNCHANGED <<made, worn>>
    /\ UNCHANGED <<frozen, register, trail, gaps, failures, crossed, jobs>>

Freeze(w) ==
    /\ w \in made \ frozen /\ worn[w] # NoTag
    /\ frozen' = frozen \cup {w}
    /\ UNCHANGED <<made, worn, register, trail, desk, gaps, failures, crossed, jobs>>

Thaw(w) ==
    /\ w \in frozen
    /\ frozen' = frozen \ {w}
    /\ UNCHANGED <<made, worn, register, trail, desk, gaps, failures, crossed, jobs>>

DeskStep(k) ==
    \/ FlipRow(k) \/ Release(k) \/ Stamp(k) \/ StampFails(k)
    \/ Gate(k) \/ (desk[k].op # "handout" /\ Claim(k)) \/ Handout(k)
    \/ Report(k) \/ Audit(k) \/ AuditFails(k) \/ UndoClaim(k) \/ UndoFails(k)

BandNext ==
    \/ \E t \in Tags : RegisterTag(t)
    \/ \E w \in BandWallets : MakeTicketWallet(w) \/ Freeze(w) \/ Thaw(w)
    \/ \E k \in TagDesks, t \in Tags : StartRetire(k, t)
    \/ \E k \in TagDesks, w \in BandWallets : StartUnbind(k, w)
    \/ \E k \in TagDesks, w \in BandWallets, t \in Tags :
          StartBind(k, w, t) \/ StartReissue(k, w, t) \/ StartHandout(k, w, t)
    \/ \E k \in TagDesks : DeskStep(k)

BandSpec == BandInit /\ [][BandNext]_bandVars

(***************************************************************************)
(* What the register and the trail promise.                                *)
(***************************************************************************)
\* "Which band was live on this wallet" stays answerable while desks race on a
\* wallet, fail and undo: when no row of it is owed, its open rows of the trail are
\* exactly the tag it wears, unless a write was reported as failed for it, or a desk
\* took or gave a tag between another desk's two writes.
TrailMatchesBand ==
    \A w \in made \ (gaps \cup crossed) : ~Owed(w) =>
        trail[w] = IF worn[w] = NoTag THEN <<>> ELSE <<worn[w]>>

\* A reissue, whatever other desks do to the wallet, leaves it with the new tag or
\* with the old one unless it says so: it reports, or it found the old one gone, or
\* its writes were crossed or failed as above.
ReissueKeepsATag ==
    [][ \A k \in TagDesks :
          (/\ desk[k] # NoJob /\ desk'[k] = NoJob
           /\ desk[k].op = "reissue" /\ desk[k].old # NoTag
           /\ desk[k].w \notin gaps' \cup crossed'
           /\ desk[k].at \notin {"release", "report"})
          => worn'[desk[k].w] \in {desk[k].old, desk[k].tag} ]_bandVars
=============================================================================
