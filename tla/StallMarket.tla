----------------------------- MODULE StallMarket -----------------------------
(***************************************************************************)
(* One stall opportunity of the marketplace: providers apply for a date,   *)
(* the organiser edits, publishes, pauses, closes and decides.  Every      *)
(* handler is a MongoDB transaction: what it checks holds of the snapshot  *)
(* it began with, what it writes appears when it commits, and it aborts    *)
(* (to be run again) when another one has committed a write to the same    *)
(* document since.  A handler that checks nothing but the document it      *)
(* writes is one step.                                                     *)
(***************************************************************************)
EXTENDS Naturals, FiniteSets

CONSTANTS
    Profiles,      \* provider profiles
    Dates,         \* scope keys: a trading date, or "regular"
    Places,        \* capacities an organiser may enter, 0 for no limit
    Terms,         \* commercial terms
    Handlers,      \* transactions in flight
    MaxUploads     \* bound: certificates uploaded per profile

ASSUME MarketAssumption ==
    /\ IsFiniteSet(Profiles) /\ IsFiniteSet(Dates)
    /\ Places \subseteq Nat /\ Places # {} /\ Terms # {} /\ MaxUploads \in Nat

VARIABLES
    opp,        \* the opportunity
    app,        \* the latest application of a profile for a date
    cert,       \* the newest certificate of a profile, and whether it is active
    txn         \* transactions in flight and what they will write

marketVars == <<opp, app, cert, txn>>

Opp == "opportunity"
None == [status |-> "none"]
Application == [status : {"pending", "approved", "declined"},
                paid : {"not_due", "due", "settled"},
                terms : Terms, cert : 1..MaxUploads]
NoTxn == [op |-> "none"]
Txn == {NoTxn}
    \cup [op : {"apply"}, p : Profiles, d : Dates, new : Application]
    \cup [op : {"review"}, p : Profiles, d : Dates, new : Application]
    \cup [op : {"edit"}, places : Places, terms : Terms, open : BOOLEAN]

MarketTypeOK ==
    /\ opp \in [status : {"draft", "published", "paused", "closed"},
                places : Places, terms : Terms, open : BOOLEAN]
    /\ app \in [Profiles \X Dates -> Application \cup {None}]
    /\ cert \in [Profiles -> [id : 0..MaxUploads, active : BOOLEAN]]
    /\ txn \in [Handlers -> Txn]

MarketInit ==
    /\ opp = [status |-> "draft", places |-> CHOOSE n \in Places : TRUE,
              terms |-> CHOOSE t \in Terms : TRUE, open |-> TRUE]
    /\ app = [k \in Profiles \X Dates |-> None]
    /\ cert = [p \in Profiles |-> [id |-> 0, active |-> FALSE]]
    /\ txn = [h \in Handlers |-> NoTxn]

Approved(d) == { p \in Profiles : app[<<p, d>>].status = "approved" }
Full(d) == opp.places # 0 /\ Cardinality(Approved(d)) >= opp.places
Applied == \E k \in Profiles \X Dates : app[k] # None
Standing(k) == app[k].status \in {"pending", "approved"}

(***************************************************************************)
(* Transactions.                                                           *)
(***************************************************************************)
BeginTxn(h, t) ==
    /\ txn[h] = NoTxn
    /\ txn' = [txn EXCEPT ![h] = t]
    /\ UNCHANGED <<opp, app, cert>>

\* A review that leaves the revision of the opportunity alone.
WritesNoRevision(t) ==
    CASE t.op \in {"none", "review"} -> {}
      [] t.op = "apply" -> {Opp, t.p}
      [] t.op = "edit" -> {Opp}

\* An application that leaves the revision of its profile alone.
WritesNoProfile(t) ==
    CASE t.op = "none" -> {}
      [] t.op \in {"apply", "review", "edit"} -> {Opp}

\* The documents that a transaction writes, the shared revision included.
Writes(t) ==
    CASE t.op = "none" -> {}
      [] t.op = "apply" -> {Opp, t.p}
      [] t.op \in {"review", "edit"} -> {Opp}

\* A committed write of docs: the others in flight that write one of them are
\* bound to abort.
Touch(docs) == [h \in Handlers |->
    IF Writes(txn[h]) \cap docs = {} THEN txn[h] ELSE NoTxn]

CommitTxn(h) == txn' = [Touch(Writes(txn[h])) EXCEPT ![h] = NoTxn]

\* The handler fails or gives up: nothing is written.
AbortTxn(h) ==
    /\ txn[h] # NoTxn
    /\ txn' = [txn EXCEPT ![h] = NoTxn]
    /\ UNCHANGED <<opp, app, cert>>

(***************************************************************************)
(* apply: the opportunity takes applications, the required certificate is  *)
(* there, the date is not full.  The application keeps the terms and the   *)
(* certificate it was made with.                                           *)
(***************************************************************************)
BeginApply(h, p, d) ==
    /\ opp.status = "published" /\ opp.open
    /\ cert[p].active
    /\ ~Full(d)
    /\ BeginTxn(h, [op |-> "apply", p |-> p, d |-> d,
                 new |-> [status |-> "pending", paid |-> "not_due",
                          terms |-> opp.terms, cert |-> cert[p].id]])

\* The partial unique index refuses a second active application.
CommitApply(h) ==
    /\ txn[h].op = "apply"
    /\ CommitTxn(h)
    /\ LET k == <<txn[h].p, txn[h].d>> IN
       /\ ~Standing(k)
       /\ app' = [app EXCEPT ![k] = txn[h].new]
    /\ UNCHANGED <<opp, cert>>

(***************************************************************************)
(* The organiser decides an application and keeps its payment status.      *)
(***************************************************************************)
Decided(k, decision) ==
    [app[k] EXCEPT !.status = decision,
                   !.paid = IF decision = "approved" THEN "due" ELSE @]

BeginReview(h, p, d, decision) ==
    LET k == <<p, d>> IN
    /\ app[k].status = "pending"
    /\ decision = "approved" => ~Full(d)
    /\ BeginTxn(h, [op |-> "review", p |-> p, d |-> d,
                 new |-> Decided(k, decision)])

BeginPayment(h, p, d, paid) ==
    LET k == <<p, d>> IN
    /\ app[k].status = "approved" /\ app[k].paid # paid
    /\ BeginTxn(h, [op |-> "review", p |-> p, d |-> d,
                 new |-> [app[k] EXCEPT !.paid = paid]])

CommitReview(h) ==
    /\ txn[h].op = "review"
    /\ CommitTxn(h)
    /\ app' = [app EXCEPT ![<<txn[h].p, txn[h].d>>] = txn[h].new]
    /\ UNCHANGED <<opp, cert>>

(***************************************************************************)
(* The organiser edits: once someone has applied, the terms stay and the   *)
(* capacity does not fall below the approvals.                             *)
(***************************************************************************)
Permitted(places, terms) ==
    Applied => /\ terms = opp.terms
               /\ places # 0 =>
                     \A d \in Dates : Cardinality(Approved(d)) <= places

BeginEdit(h, places, terms, open) ==
    /\ opp.status # "closed"
    /\ Permitted(places, terms)
    /\ BeginTxn(h, [op |-> "edit", places |-> places, terms |-> terms,
                 open |-> open])

CommitEdit(h) ==
    /\ txn[h].op = "edit"
    /\ CommitTxn(h)
    /\ opp' = [opp EXCEPT !.places = txn[h].places, !.terms = txn[h].terms,
                          !.open = txn[h].open]
    /\ UNCHANGED <<app, cert>>

SetStatus(status) ==
    /\ opp.status # "closed"
    /\ status = "published" => opp.open
    /\ opp' = [opp EXCEPT !.status = status]
    /\ txn' = Touch({Opp})
    /\ UNCHANGED <<app, cert>>

\* The deadline passes; no document changes.
DeadlinePasses ==
    /\ opp.open
    /\ opp' = [opp EXCEPT !.open = FALSE]
    /\ UNCHANGED <<app, cert, txn>>

(***************************************************************************)
(* Certificates: a new one replaces the active one, and either write bumps *)
(* the profile's revision.                                                 *)
(***************************************************************************)
UploadCertificate(p) ==
    /\ cert[p].id < MaxUploads
    /\ cert' = [cert EXCEPT ![p] = [id |-> @.id + 1, active |-> TRUE]]
    /\ txn' = Touch({p})
    /\ UNCHANGED <<opp, app>>

RemoveCertificate(p) ==
    /\ cert[p].active
    /\ cert' = [cert EXCEPT ![p].active = FALSE]
    /\ txn' = Touch({p})
    /\ UNCHANGED <<opp, app>>

MarketNext ==
    \/ \E h \in Handlers, p \in Profiles, d \in Dates :
          \/ BeginApply(h, p, d)
          \/ \E decision \in {"approved", "declined"} : BeginReview(h, p, d, decision)
          \/ \E paid \in {"due", "settled"} : BeginPayment(h, p, d, paid)
    \/ \E h \in Handlers, n \in Places, t \in Terms, o \in BOOLEAN :
          BeginEdit(h, n, t, o)
    \/ \E h \in Handlers :
          CommitApply(h) \/ CommitReview(h) \/ CommitEdit(h) \/ AbortTxn(h)
    \/ \E s \in {"published", "paused", "closed"} : SetStatus(s)
    \/ DeadlinePasses
    \/ \E p \in Profiles : UploadCertificate(p) \/ RemoveCertificate(p)

MarketSpec == MarketInit /\ [][MarketNext]_marketVars

(***************************************************************************)
(* What the marketplace promises.                                          *)
(***************************************************************************)
\* No date has more approved providers than places, however approvals, edits of
\* the capacity and applications overlap.
CapacityRespected ==
    opp.places # 0 =>
        \A d \in Dates : Cardinality(Approved(d)) <= opp.places

\* The terms are never rewritten beneath an applicant: an application that was
\* submitted while the organiser edited carries the terms that stand.
TermsStand ==
    \A k \in Profiles \X Dates : Standing(k) => app[k].terms = opp.terms

\* Both, the word of the organiser.
MarketKeepsItsWord == CapacityRespected /\ TermsStand

\* A provider who replaces or removes a certificate while an application is being
\* submitted does not leave an application behind with the old one.
AppliedWithActiveCertificate ==
    [][ \A p \in Profiles, d \in Dates :
          LET k == <<p, d>> IN
          (~Standing(k) /\ app'[k].status = "pending")
             => cert[p] = [id |-> app'[k].cert, active |-> TRUE] ]_marketVars
=============================================================================
