----------------------------- MODULE Guarantees -----------------------------
(***************************************************************************)
(* One guarantee request and the handlers that change it.  Each loads the  *)
(* document, checks it, works on (the balance is computed, an upload is    *)
(* received) and saves the whole of what it changed under the version it   *)
(* loaded: a save between the two makes it fail with "Request changed".    *)
(***************************************************************************)
CONSTANTS
    Providers,     \* service providers the organiser may address
    Desks,         \* requests being handled
    NoProvider

ASSUME GuaranteeAssumption == NoProvider \notin Providers

VARIABLES
    request,    \* status, provider, and for whom the agreement was signed
    saving      \* handlers between their load and their save

guaranteeVars == <<request, saving>>

Statuses == {"requested", "accepted", "provider_rejected", "withdrawn",
             "pending", "paid", "rejected"}
Request == [status : Statuses, provider : Providers,
            agreement : Providers \cup {NoProvider}]
NotSaving == [status |-> "none"]

GuaranteeTypeOK ==
    /\ request \in Request
    /\ saving \in [Desks -> Request \cup {NotSaving}]

GuaranteeInit ==
    /\ request \in [status : {"requested"}, provider : Providers,
                    agreement : {NoProvider}]
    /\ saving = [h \in Desks |-> NotSaving]

\* What a handler will save, decided from the document it loaded.
LoadRequest(h, new) ==
    /\ saving[h] = NotSaving
    /\ saving' = [saving EXCEPT ![h] = new]
    /\ UNCHANGED request

\* An edit that leaves the agreement where it is.
EditRequestOnly(h, provider) ==
    /\ request.status = "requested"
    /\ LoadRequest(h, [request EXCEPT !.provider = provider])

\* The organiser edits; a new provider does not inherit the agreement.
EditRequest(h, provider) ==
    /\ request.status = "requested"
    /\ LoadRequest(h, [request EXCEPT
          !.provider = provider,
          !.agreement = IF provider = request.provider THEN @ ELSE NoProvider])

\* The organiser attaches the agreement signed for the provider of the request.
AttachAgreement(h) ==
    /\ request.status = "requested"
    /\ LoadRequest(h, [request EXCEPT !.agreement = request.provider])

\* The provider answers, or the organiser withdraws.
AnswerRequest(h, status) ==
    /\ request.status = "requested"
    /\ status \in {"accepted", "provider_rejected", "withdrawn"}
    /\ LoadRequest(h, [request EXCEPT !.status = status])

\* The platform reviews what a provider accepted.
ReviewRequest(h, status) ==
    /\ request.status \in {"accepted", "pending"}
    /\ status \in {"pending", "paid", "rejected"}
    /\ LoadRequest(h, [request EXCEPT !.status = status])

\* A save without the version: the others go on.
OthersGoOn(h) == [saving EXCEPT ![h] = NotSaving]

\* Saving moves the version on, under every other handler.
OthersFail(h) == [g \in Desks |-> NotSaving]

SaveRequest(h) ==
    /\ saving[h] # NotSaving
    /\ request' = saving[h]
    /\ saving' = OthersFail(h)

DropRequest(h) ==
    /\ saving[h] # NotSaving
    /\ saving' = [saving EXCEPT ![h] = NotSaving]
    /\ UNCHANGED request

GuaranteeNext ==
    \E h \in Desks :
        \/ \E p \in Providers : EditRequest(h, p)
        \/ AttachAgreement(h)
        \/ \E s \in Statuses : AnswerRequest(h, s) \/ ReviewRequest(h, s)
        \/ SaveRequest(h) \/ DropRequest(h)

GuaranteeSpec == GuaranteeInit /\ [][GuaranteeNext]_guaranteeVars

\* An agreement is only ever shown to the provider it was signed for: changing
\* the provider while an upload is under way does not carry it over.
AgreementStaysWithProvider == request.agreement \in {NoProvider, request.provider}

\* However the two sides and the platform overlap, the request goes through one
\* life: one answer, then reviews until a final one.
Life == INSTANCE GuaranteeLife WITH life <- request.status
LifeIsFollowed == Life!LifeSpec
=============================================================================
