------------------------------ MODULE Sessions ------------------------------
(***************************************************************************)
(* Who may still act for an account (services/ticketsAuth, buyerAuth): a   *)
(* sign-in gives an access token and, but for buyers, a refresh token that *)
(* is changed for the next pair; a one-time link opens the public site.    *)
(* All of them carry the account's authVersion as it was when it was read. *)
(***************************************************************************)
EXTENDS Integers, Sequences, FiniteSetsExt

CONSTANTS
    Owner,           \* the organizer's account
    Staff,           \* accounts of its sub-users
    Buyers,
    AuthHandlers,    \* requests in flight
    MaxVersions,     \* bound: new passwords and sign-outs, of all accounts
    MaxSessions,     \* bound: sessions ever opened
    MaxLinks         \* bound: one-time links

ASSUME SessionsAssumption ==
    /\ Owner \notin Staff \cup Buyers /\ Staff \cap Buyers = {}
    /\ IsFiniteSet(Staff) /\ IsFiniteSet(Buyers) /\ IsFiniteSet(AuthHandlers)
    /\ MaxVersions \in Nat /\ MaxSessions \in Nat /\ MaxLinks \in Nat

VARIABLES
    version,   \* authVersion of each account
    changes,   \* history: new passwords and sign-outs of each account
    sessions,  \* pairs of tokens, in the order they were stored
    links,     \* one-time links to the public site
    overtaken, \* history: accounts with a password saved over a row changed since
               \* it was read
    authJob    \* the request at each handler

authVars == <<version, changes, sessions, links, overtaken, authJob>>

Accounts == {Owner} \cup Buyers \cup Staff
NoAuthJob == [at |-> "none"]

\* What a token says: whose it is, the version it was signed with and, for the
\* record, the changes its holder had proven knowledge of.
Claims == [who : Accounts, version : Nat, proven : Nat]

\* What a session was opened with: a password or code, an older session's
\* refresh token, or a link.
Origins == [by : {"proof"}] \cup [by : {"session", "link"}, of : Nat]
Proof == [by |-> "proof"]

AuthTypeOK ==
    /\ version \in [Accounts -> Nat]
    /\ changes \in [Accounts -> Nat \ {0}]
    /\ overtaken \subseteq Accounts
    /\ sessions \in Seq([claims : Claims, origin : Origins, renewable : BOOLEAN])
    /\ links \in Seq([claims : Claims, spent : BOOLEAN])
    /\ authJob \in [AuthHandlers ->
          {NoAuthJob}
          \cup [at : {"change", "reset"}, claims : Claims]
          \cup [at : {"revoke", "issue"}, claims : Claims, origin : Origins]
          \cup [at : {"renew", "out", "drop"}, claims : Claims, session : Nat]
          \cup [at : {"spend", "check"}, claims : Claims, link : Nat]]

\* A new account's first save counts its password as a change.
AuthInit ==
    /\ version = [a \in Accounts |-> 1]
    /\ changes = [a \in Accounts |-> 1]
    /\ sessions = <<>> /\ links = <<>> /\ overtaken = {}
    /\ authJob = [h \in AuthHandlers |-> NoAuthJob]

AuthStage(h, j) == authJob' = [authJob EXCEPT ![h] = j]
AuthIdle(h) == authJob[h] = NoAuthJob
Current(a) == [who |-> a, version |-> version[a], proven |-> changes[a]]
Accepted(claims) == claims.version = version[claims.who]

\* The row of the account changes: a new password or a sign-out.
NewVersion(a, v) ==
    /\ MapThenSumSet(LAMBDA b : changes[b] - 1, Accounts) < MaxVersions
    /\ version' = [version EXCEPT ![a] = v]
    /\ changes' = [changes EXCEPT ![a] = @ + 1]

(***************************************************************************)
(* login, and what all sign-ins end with: the tokens are stored with the   *)
(* version of the row that was read.                                       *)
(***************************************************************************)
LoadLogin(h, a) ==
    /\ AuthIdle(h)
    /\ AuthStage(h, [at |-> "issue", claims |-> Current(a), origin |-> Proof])
    /\ UNCHANGED <<version, changes, sessions, links, overtaken>>

\* The tokens of a session opened, with the version of the row as it is by now.
OpenedNow(claims, origin) ==
    [claims |-> [claims EXCEPT !.version = version[claims.who]],
     origin |-> origin, renewable |-> claims.who \notin Buyers]

\* The tokens of a session opened, with the version its claims were made with.
Opened(claims, origin) ==
    [claims |-> claims, origin |-> origin, renewable |-> claims.who \notin Buyers]

Issue(h) ==
    /\ authJob[h].at = "issue" /\ Len(sessions) < MaxSessions
    /\ sessions' = Append(sessions, Opened(authJob[h].claims, authJob[h].origin))
    /\ AuthStage(h, NoAuthJob)
    /\ UNCHANGED <<version, changes, links, overtaken>>

(***************************************************************************)
(* changePassword and resetPassword: the row is read, the password proven  *)
(* or the code claimed, and the row saved with the version read plus one.  *)
(***************************************************************************)
LoadChange(h, s) ==
    /\ AuthIdle(h) /\ s \in DOMAIN sessions
    /\ LET a == sessions[s].claims.who IN
       /\ a \notin Buyers /\ Accepted(sessions[s].claims)
       /\ AuthStage(h, [at |-> "change", claims |-> Current(a)])
    /\ UNCHANGED <<version, changes, sessions, links, overtaken>>

LoadReset(h, a) ==
    /\ AuthIdle(h) /\ a \notin Staff
    /\ AuthStage(h, [at |-> "reset", claims |-> Current(a)])
    /\ UNCHANGED <<version, changes, sessions, links, overtaken>>

\* The claims of whoever set the new password.
AfterSave(claims) ==
    [claims EXCEPT !.version = @ + 1, !.proven = changes[claims.who] + 1]

SavePassword(h) ==
    /\ authJob[h].at \in {"change", "reset"}
    /\ LET claims == authJob[h].claims IN
       /\ NewVersion(claims.who, claims.version + 1)
       /\ overtaken' = IF Accepted(claims) THEN overtaken
                                           ELSE overtaken \cup {claims.who}
       /\ AuthStage(h, IF authJob[h].at = "change" THEN NoAuthJob
                       ELSE [at |-> IF claims.who \in Buyers THEN "issue" ELSE "revoke",
                             claims |-> AfterSave(claims), origin |-> Proof])
    /\ UNCHANGED <<sessions, links>>

\* A reset takes the refresh tokens of the organizer and of its sub-users.
RevokeAll(h) ==
    /\ authJob[h].at = "revoke"
    /\ sessions' = [s \in DOMAIN sessions |-> [sessions[s] EXCEPT !.renewable = FALSE]]
    /\ AuthStage(h, [authJob[h] EXCEPT !.at = "issue"])
    /\ UNCHANGED <<version, changes, links, overtaken>>

(***************************************************************************)
(* refreshAccessToken: one transaction claims the token, reads the account *)
(* and stores the next token; a token written since is a conflict.         *)
(***************************************************************************)
BeginRenew(h, s) ==
    /\ AuthIdle(h) /\ s \in DOMAIN sessions
    /\ sessions[s].renewable /\ Accepted(sessions[s].claims)
    /\ AuthStage(h, [at |-> "renew", claims |-> sessions[s].claims, session |-> s])
    /\ UNCHANGED <<version, changes, sessions, links, overtaken>>

CommitRenew(h) ==
    /\ authJob[h].at = "renew"
    /\ LET s == authJob[h].session IN
       IF sessions[s].renewable
       THEN /\ Len(sessions) < MaxSessions
            /\ sessions' = Append([sessions EXCEPT ![s].renewable = FALSE],
                  Opened(authJob[h].claims, [by |-> "session", of |-> s]))
       ELSE UNCHANGED sessions
    /\ AuthStage(h, NoAuthJob)
    /\ UNCHANGED <<version, changes, links, overtaken>>

(***************************************************************************)
(* logout: the session is known by its refresh token, whatever its         *)
(* version, or else by its access token; an organizer's version goes up if *)
(* it is still that one, of another account the refresh token is revoked.  *)
(***************************************************************************)
BeginLogout(h, s) ==
    /\ AuthIdle(h) /\ s \in DOMAIN sessions
    /\ sessions[s].claims.who \notin Buyers
    /\ sessions[s].renewable \/ Accepted(sessions[s].claims)
    /\ AuthStage(h, [at |-> IF sessions[s].claims.who = Owner THEN "out" ELSE "drop",
                     claims |-> sessions[s].claims, session |-> s])
    /\ UNCHANGED <<version, changes, sessions, links, overtaken>>

RaiseVersion(h) ==
    /\ authJob[h].at = "out"
    /\ LET claims == authJob[h].claims IN
       IF Accepted(claims) THEN NewVersion(claims.who, claims.version + 1)
                           ELSE UNCHANGED <<version, changes>>
    /\ AuthStage(h, NoAuthJob)
    /\ UNCHANGED <<sessions, links, overtaken>>

RevokeToken(h) ==
    /\ authJob[h].at = "drop"
    /\ sessions' = [sessions EXCEPT ![authJob[h].session].renewable = FALSE]
    /\ AuthStage(h, NoAuthJob)
    /\ UNCHANGED <<version, changes, links, overtaken>>

(***************************************************************************)
(* mintSocialHandoff and exchangeSocialHandoff: the link is spent before   *)
(* the account is read.                                                    *)
(***************************************************************************)
MintLink(s) ==
    /\ s \in DOMAIN sessions /\ Len(links) < MaxLinks
    /\ sessions[s].claims.who \notin Buyers /\ Accepted(sessions[s].claims)
    /\ links' = Append(links, [claims |-> sessions[s].claims, spent |-> FALSE])
    /\ UNCHANGED <<version, changes, sessions, authJob, overtaken>>

BeginExchange(h, l) ==
    /\ AuthIdle(h) /\ l \in DOMAIN links /\ ~links[l].spent
    /\ AuthStage(h, [at |-> "spend", claims |-> links[l].claims, link |-> l])
    /\ UNCHANGED <<version, changes, sessions, links, overtaken>>

\* The unique index refuses the second.
SpendLink(h) ==
    /\ authJob[h].at = "spend"
    /\ LET l == authJob[h].link IN
       /\ links' = [links EXCEPT ![l].spent = TRUE]
       /\ AuthStage(h, IF links[l].spent THEN NoAuthJob
                                         ELSE [authJob[h] EXCEPT !.at = "check"])
    /\ UNCHANGED <<version, changes, sessions, overtaken>>

CheckLink(h) ==
    /\ authJob[h].at = "check"
    /\ AuthStage(h, IF Accepted(authJob[h].claims)
                    THEN [at |-> "issue", claims |-> authJob[h].claims,
                          origin |-> [by |-> "link", of |-> authJob[h].link]]
                    ELSE NoAuthJob)
    /\ UNCHANGED <<version, changes, sessions, links, overtaken>>

\* The request fails, or is refused for a wrong password or code.
AuthFails(h) ==
    /\ ~AuthIdle(h) /\ AuthStage(h, NoAuthJob)
    /\ UNCHANGED <<version, changes, sessions, links, overtaken>>

AuthNext ==
    \/ \E s \in 1..MaxSessions : MintLink(s)
    \/ \E h \in AuthHandlers :
          \/ \E a \in Accounts : LoadLogin(h, a) \/ LoadReset(h, a)
          \/ \E s \in 1..MaxSessions :
                LoadChange(h, s) \/ BeginRenew(h, s) \/ BeginLogout(h, s)
          \/ \E l \in 1..MaxLinks : BeginExchange(h, l)
          \/ Issue(h) \/ SavePassword(h) \/ RevokeAll(h) \/ CommitRenew(h)
          \/ RaiseVersion(h) \/ RevokeToken(h) \/ SpendLink(h) \/ CheckLink(h)
          \/ AuthFails(h)

AuthSpec == AuthInit /\ [][AuthNext]_authVars

(***************************************************************************)
(* What a session promises.                                                *)
(***************************************************************************)
\* A session that is accepted was opened, itself or through the sessions and
\* the link it comes from, by someone who proved the account after its last new
\* password and, of an organizer, the last sign-out, unless one of these was saved
\* over another; and a refresh token or a link is good for one session.
SessionsAreProven ==
    /\ \A s \in DOMAIN sessions :
          Accepted(sessions[s].claims) /\ sessions[s].claims.who \notin overtaken
             => sessions[s].claims.proven = changes[sessions[s].claims.who]
    /\ \A s, t \in DOMAIN sessions :
          sessions[s].origin = sessions[t].origin => s = t \/ sessions[s].origin = Proof
=============================================================================
