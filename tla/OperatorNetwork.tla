--------------------------- MODULE OperatorNetwork ---------------------------
(***************************************************************************)
(* The operator network: claims on deployments, client tokens, group       *)
(* links, deactivation (registry/service/operator.go, store/sqlite/        *)
(* operator.go, operator_state.go), the administrators' claim reviews      *)
(* (service/operator_claim_review.go, store/sqlite/operator_claims.go)     *)
(* and eligibility decisions (operator_claim_eligibility.go in both).      *)
(*                                                                         *)
(* Deployments send signed actions to the server; administrators decide    *)
(* through local CLI processes on the same database.  Every operation is   *)
(* one store transaction.  All that a request holds before its             *)
(* transaction opens is its input and the clock value it has read, so a    *)
(* step takes a clock value that may be up to MaxLag old.                  *)
(*                                                                         *)
(* Abstractions.  A digest is the value it is taken of.  The random        *)
(* identifiers of actions, groups, tokens, client codes and links are the  *)
(* audit index of the event that creates them; 0 is the empty identifier.  *)
(* Nonces and idempotency keys are opaque, so a fresh one is the next      *)
(* number of its deployment.  A company stands for the private record and  *)
(* the public label of a claim.  A refused request changes nothing and is  *)
(* not a step.                                                             *)
(***************************************************************************)
EXTENDS Integers, Sequences, FiniteSets

CONSTANTS
    Deployments,   \* registered deployments
    Companies,     \* company records of structured claims
    TTLs,          \* token_ttl_seconds values
    NoCompany,     \* the empty company fields
    NoDeployment,  \* the empty related_deployment_id
    MaxTime,       \* bound on the clock
    MaxLag,        \* how old the clock value of a transaction may be
    MaxEvents,     \* bound on operator_audit_events
    MaxNonces,     \* bound on a deployment's operator_action_nonces
    MaxReviews,    \* bound on operator_claim_reviews
    MaxDecisions   \* bound on operator_claim_eligibility_events

ASSUME TimeAssumption ==
    MaxTime \in Nat \ {0} /\ MaxLag \in Nat /\ TTLs \subseteq Nat
ASSUME NoneAssumption == NoCompany \notin Companies /\ NoDeployment \notin Deployments

VARIABLES
    clock,          \* the host's clock
    events,         \* table operator_audit_events, by audit_index
    nonces,         \* table operator_action_nonces, per deployment
    network,        \* newest operator_network_state_rows row, per deployment
    submissions,    \* table operator_claim_verification_submissions
    status,         \* table operator_claim_status, per deployment
    eligibility,    \* table operator_claim_eligibility_current, per deployment
    reviews,        \* table operator_claim_reviews, by review_index
    decisions,      \* table operator_claim_eligibility_events, by index
    transferredAt   \* completed_at of the newest ownership transfer

operatorVars == <<clock, events, nonces, network, submissions, status,
                  eligibility, reviews, decisions, transferredAt>>

-----------------------------------------------------------------------------
(* Values.  Time 0 is the empty timestamp.                                 *)

Times == 1..MaxTime
Stamps == 0..MaxTime

OperatorActions ==
    {"claim", "withdraw-claim", "issue-client-token", "revoke-client-token",
     "redeem-client-token", "revoke-group-link", "deactivate-deployment",
     "reactivate-deployment"}
ClaimStates == {"", "pending-review", "withdrawn"}
VerificationStates == {"pending-review", "approved", "rejected", "withdrawn"}
EligibilityStates == {"inactive", "active", "suspended"}

Payload(action) ==
    [action |-> action, company |-> NoCompany, ttl |-> 0, token |-> 0, link |-> 0]

(* What validateOperatorActionRequest lets through: each action with the   *)
(* fields it allows and no other.                                          *)
Payloads ==
    {[Payload("claim") EXCEPT !.company = c] : c \in Companies}
        \cup {[Payload("issue-client-token") EXCEPT !.ttl = t] : t \in TTLs}
        \cup {[Payload("revoke-client-token") EXCEPT !.token = i] : i \in DOMAIN events}
        \cup {[Payload("redeem-client-token") EXCEPT !.token = i] : i \in DOMAIN events}
        \cup {[Payload("revoke-group-link") EXCEPT !.link = i] : i \in DOMAIN events}
        \cup {Payload("withdraw-claim"), Payload("deactivate-deployment"),
              Payload("reactivate-deployment")}

InitialRow ==
    [claimed |-> FALSE, active |-> TRUE, state |-> "", group |-> 0, effective |-> 0,
     company |-> NoCompany, link |-> 0, related |-> NoDeployment, profile |-> 0]

NoStatus ==
    [claim |-> 0, group |-> 0, company |-> NoCompany, state |-> "none", submittedAt |-> 0,
     review |-> 0, approvedAt |-> 0, updatedAt |-> 0]

NoEligibility ==
    [claim |-> 0, group |-> 0, company |-> NoCompany, state |-> "none", review |-> 0,
     decision |-> 0, updatedAt |-> 0]

(* The clock values a transaction that commits now may carry.              *)
ClockReads == {t \in Times : clock - MaxLag <= t /\ t <= clock}

-----------------------------------------------------------------------------
(* What a transaction reads.                                               *)

HeadAt(chain) == IF chain = <<>> THEN 0 ELSE chain[Len(chain)].at

Newest(S) == CHOOSE i \in S : \A j \in S : j <= i

EventsOf(d) == {i \in DOMAIN events : events[i].deployment = d}

(* operatorActionByIdempotencyTx.                                          *)
EventsByKey(d, k) == {i \in EventsOf(d) : events[i].key = k}

(* operatorMembershipTx: the group a deployment acts in.                   *)
MembershipGroup(d) ==
    IF network[d].claimed THEN network[d].effective ELSE network[d].group

Later(i, action) == {j \in DOMAIN events : j > i /\ events[j].payload.action = action}

TokenRevoked(i) == \E j \in Later(i, "revoke-client-token") : events[j].token = i
TokenRedeemed(i) == \E j \in Later(i, "redeem-client-token") : events[j].token = i

(* Mutant: a redeemed token stays usable.                                  *)
ActiveClientTokenReusable(i, redeeming, at) ==
    /\ i \in DOMAIN events
    /\ events[i].payload.action = "issue-client-token"
    /\ ~TokenRevoked(i)
    /\ at < events[i].expires

(* activeClientTokenTx: only a redemption looks for an earlier one.        *)
ActiveClientToken(i, redeeming, at) ==
    /\ i \in DOMAIN events
    /\ events[i].payload.action = "issue-client-token"
    /\ ~TokenRevoked(i)
    /\ redeeming => ~TokenRedeemed(i)
    /\ at < events[i].expires

(* activeOperatorLinkTx.                                                   *)
ActiveOperatorLink(i) ==
    /\ i \in DOMAIN events
    /\ events[i].payload.action = "redeem-client-token"
    /\ events[i].link = i
    /\ ~\E j \in Later(i, "revoke-group-link") : events[j].link = i

(* approvedOperatorClaimSubmissionTx finds a row: the current claim is     *)
(* approved, eligible, of this group, and was approved by then.            *)
ApprovedClaim(d, g, at) ==
    /\ status[d].group = g
    /\ status[d].state = "approved"
    /\ eligibility[d].claim = status[d].claim
    /\ eligibility[d].state = "active"
    /\ status[d].approvedAt # 0
    /\ status[d].approvedAt <= at

-----------------------------------------------------------------------------
(* AppendOperatorAction.                                                   *)

(* The event before deriveOperatorActionTx fills in what the action does.  *)
Event(r, at) ==
    [deployment |-> r.deployment, nonce |-> r.nonce, key |-> r.key, payload |-> r.payload,
     subject |-> r.deployment, related |-> NoDeployment, state |-> "", company |-> NoCompany,
     group |-> 0, link |-> 0, token |-> 0, source |-> 0, expires |-> 0, at |-> at]

(* The event extends the audit chain in time, and is later than the newest *)
(* completed ownership transfer.                                           *)
Extends(at) == HeadAt(events) <= at /\ (transferredAt # 0 => transferredAt < at)

(* Neither the nonce nor the idempotency key has been used.                *)
Fresh(r) ==
    /\ r.nonce = Len(nonces[r.deployment]) + 1
    /\ EventsByKey(r.deployment, r.key) = {}

Requests(d) ==
    [deployment: {d}, nonce: {Len(nonces[d]) + 1},
     key: 1..(Cardinality(EventsOf(d)) + 1), payload: Payloads]

(* Mutant: a group link outlives the claim.                                *)
WithdrawnKeepsLink(row) ==
    [row EXCEPT !.claimed = FALSE, !.state = "withdrawn", !.effective = 0]

(* withdrawOperatorNetworkState.                                           *)
Withdrawn(row) ==
    [row EXCEPT !.claimed = FALSE, !.state = "withdrawn", !.effective = 0, !.link = 0,
                !.related = NoDeployment]

Claimed(row, e, index) ==
    [row EXCEPT !.claimed = TRUE, !.state = e.state, !.group = e.group,
                !.effective = e.group, !.company = e.company, !.related = NoDeployment,
                !.profile = index]

(* A redemption that creates a claim, as the store recognises it.          *)
DerivesClaim(e) ==
    /\ e.payload.action = "redeem-client-token"
    /\ e.state = "pending-review"
    /\ e.company # NoCompany
    /\ e.link = 0

(* applyOperatorNetworkEvent.                                              *)
ApplyEvent(row, e, index) ==
    CASE e.payload.action = "claim" -> [Claimed(row, e, index) EXCEPT !.link = 0]
      [] e.payload.action = "withdraw-claim" -> Withdrawn(row)
      [] e.payload.action = "redeem-client-token" ->
            IF ~row.claimed /\ DerivesClaim(e)
            THEN Claimed(row, e, index)
            ELSE [row EXCEPT !.effective = e.group, !.link = e.link, !.related = e.related]
      [] e.payload.action = "revoke-group-link" ->
            [row EXCEPT !.effective = IF row.claimed THEN row.group ELSE 0,
                        !.link = 0, !.related = NoDeployment]
      [] e.payload.action = "deactivate-deployment" ->
            [(IF row.claimed THEN Withdrawn(row) ELSE row) EXCEPT !.active = FALSE]
      [] e.payload.action = "reactivate-deployment" -> [row EXCEPT !.active = TRUE]
      [] OTHER -> row

(* operatorNetworkStateAtTx: state rows are only appended, so the rows as  *)
(* of an audit index are the events up to it applied in order.             *)
NetworkAt[i \in Nat] ==
    IF i = 0 THEN [d \in Deployments |-> InitialRow]
    ELSE [NetworkAt[i - 1] EXCEPT ![events[i].subject] = ApplyEvent(@, events[i], i)]

NonceRow(r, action) == [key |-> r.key, payload |-> r.payload, action |-> action]

(* The rows every accepted action writes: the event, the state row of its  *)
(* subject, and the nonce.                                                 *)
AppendOperatorAction(r, e) ==
    LET index == Len(events) + 1
    IN  /\ events' = Append(events, e)
        /\ network' = [network EXCEPT ![e.subject] = ApplyEvent(@, e, index)]
        /\ nonces' = [nonces EXCEPT ![r.deployment] = Append(@, NonceRow(r, index))]
        /\ UNCHANGED <<clock, reviews, decisions, transferredAt>>

(* writePendingOperatorClaimTx: a new claim generation replaces the        *)
(* current one, unreviewed and ineligible.                                 *)
WritePendingClaim(e, index, company) ==
    /\ submissions' = submissions \cup
            {[claim |-> index, deployment |-> e.deployment, group |-> e.group,
              company |-> company, at |-> e.at]}
    /\ status' = [status EXCEPT ![e.deployment] =
            [claim |-> index, group |-> e.group, company |-> company,
             state |-> "pending-review", submittedAt |-> e.at, review |-> 0,
             approvedAt |-> 0, updatedAt |-> e.at]]
    /\ eligibility' = [eligibility EXCEPT ![e.deployment] =
            [claim |-> index, group |-> e.group, company |-> company,
             state |-> "inactive", review |-> 0, decision |-> 0, updatedAt |-> e.at]]

(* Mutant: withdrawing forgets the eligibility row.                        *)
WithdrawStatusOnly(e) ==
    /\ status' = [status EXCEPT ![e.subject].state = "withdrawn",
                                ![e.subject].updatedAt = e.at]
    /\ UNCHANGED <<submissions, eligibility>>

(* Mutant: a withdrawal only dates the two rows.                           *)
WithdrawDatesOnly(e) ==
    /\ status' = [status EXCEPT ![e.subject].updatedAt = e.at]
    /\ eligibility' = [eligibility EXCEPT ![e.subject].updatedAt = e.at]
    /\ UNCHANGED submissions

(* The withdrawal part of writeOperatorClaimStateTx.  Deployments that     *)
(* are claimed have both rows.                                             *)
WithdrawCurrentClaim(e) ==
    /\ status' = [status EXCEPT ![e.subject].state = "withdrawn",
                                ![e.subject].updatedAt = e.at]
    /\ eligibility' = [eligibility EXCEPT ![e.subject].state = "inactive",
                                          ![e.subject].updatedAt = e.at]
    /\ UNCHANGED submissions

KeepClaims == UNCHANGED <<submissions, status, eligibility>>

-----------------------------------------------------------------------------
(* The operator actions: deriveOperatorActionTx and writeOperatorClaim-    *)
(* StateTx for each.                                                       *)

Claim(r, at) ==
    LET d == r.deployment
        index == Len(events) + 1
        e == [Event(r, at) EXCEPT
                !.state = "pending-review", !.company = r.payload.company,
                !.group = IF network[d].claimed THEN network[d].group ELSE index]
    IN  /\ r.payload.action = "claim"
        /\ network[d].active
        /\ AppendOperatorAction(r, e)
        /\ WritePendingClaim(e, index, r.payload.company)

WithdrawClaim(r, at) ==
    LET d == r.deployment
        e == [Event(r, at) EXCEPT !.state = "withdrawn", !.group = network[d].group,
                                  !.company = network[d].company]
    IN  /\ r.payload.action = "withdraw-claim"
        /\ network[d].claimed
        /\ AppendOperatorAction(r, e)
        /\ WithdrawCurrentClaim(e)

IssueClientToken(r, at) ==
    LET d == r.deployment
        e == [Event(r, at) EXCEPT !.state = network[d].state, !.group = MembershipGroup(d),
                                  !.token = Len(events) + 1,
                                  !.expires = at + r.payload.ttl]
    IN  /\ r.payload.action = "issue-client-token"
        /\ network[d].active
        /\ network[d].claimed
        /\ ApprovedClaim(d, MembershipGroup(d), at)
        /\ AppendOperatorAction(r, e)
        /\ KeepClaims

RevokeClientToken(r, at) ==
    LET t == r.payload.token
        e == [Event(r, at) EXCEPT !.group = events[t].group, !.token = t,
                                  !.expires = events[t].expires]
    IN  /\ r.payload.action = "revoke-client-token"
        /\ ActiveClientToken(t, FALSE, at)
        /\ events[t].deployment = r.deployment
        /\ AppendOperatorAction(r, e)
        /\ KeepClaims

(* Who may redeem token t: an active deployment without a link, other than *)
(* its issuer, whose issuer is still approved in the token's group, and    *)
(* who is not in that group already.                                       *)
MayRedeem(d, t, at) ==
    LET issuer == events[t].deployment
    IN  /\ network[d].active
        /\ network[d].link = 0
        /\ ActiveClientToken(t, TRUE, at)
        /\ issuer # d
        /\ network[issuer].active
        /\ network[issuer].claimed
        /\ MembershipGroup(issuer) = events[t].group
        /\ ApprovedClaim(issuer, events[t].group, at)
        /\ network[d].claimed => MembershipGroup(d) # MembershipGroup(issuer)

Redemption(r, at) ==
    LET t == r.payload.token
    IN  [Event(r, at) EXCEPT !.group = events[t].group, !.token = t,
                             !.related = events[t].deployment]

(* On a claimed deployment a redemption only joins the issuer's group.     *)
RedeemLink(r, at) ==
    LET d == r.deployment
        e == [Redemption(r, at) EXCEPT !.state = network[d].state, !.link = Len(events) + 1]
    IN  /\ r.payload.action = "redeem-client-token"
        /\ network[d].claimed
        /\ MayRedeem(d, r.payload.token, at)
        /\ AppendOperatorAction(r, e)
        /\ KeepClaims

(* On an unclaimed one it copies the issuer's claim, to be reviewed.       *)
RedeemClaim(r, at) ==
    LET d == r.deployment
        source == status[events[r.payload.token].deployment]
        e == [Redemption(r, at) EXCEPT !.state = "pending-review",
                                       !.company = source.company, !.source = source.claim]
    IN  /\ r.payload.action = "redeem-client-token"
        /\ ~network[d].claimed
        /\ MayRedeem(d, r.payload.token, at)
        /\ AppendOperatorAction(r, e)
        /\ WritePendingClaim(e, Len(events) + 1, source.company)

RevokeGroupLink(r, at) ==
    LET link == events[r.payload.link]
        e == [Event(r, at) EXCEPT !.subject = link.subject, !.related = link.related,
                                  !.group = link.group, !.link = r.payload.link,
                                  !.token = link.token]
    IN  /\ r.payload.action = "revoke-group-link"
        /\ ActiveOperatorLink(r.payload.link)
        /\ r.deployment = link.subject \/ MembershipGroup(r.deployment) = link.group
        /\ AppendOperatorAction(r, e)
        /\ KeepClaims

DeactivateDeployment(r, at) ==
    LET d == r.deployment
        row == network[d]
        e == IF row.claimed
             THEN [Event(r, at) EXCEPT !.state = "withdrawn", !.group = MembershipGroup(d),
                                       !.company = row.company, !.link = row.link,
                                       !.related = row.related]
             ELSE Event(r, at)
    IN  /\ r.payload.action = "deactivate-deployment"
        /\ row.active
        /\ AppendOperatorAction(r, e)
        /\ IF row.claimed THEN WithdrawCurrentClaim(e) ELSE KeepClaims

ReactivateDeployment(r, at) ==
    /\ r.payload.action = "reactivate-deployment"
    /\ ~network[r.deployment].active
    /\ AppendOperatorAction(r, Event(r, at))
    /\ KeepClaims

(* A retry with a new nonce of an action that was accepted: the store      *)
(* records the nonce and answers with the first event.  The same nonce     *)
(* again, and a key with another payload, change nothing.                  *)
RecordDuplicate(r) ==
    /\ r.nonce <= MaxNonces
    /\ \E i \in EventsByKey(r.deployment, r.key) :
            /\ events[i].payload = r.payload
            /\ nonces' = [nonces EXCEPT ![r.deployment] = Append(@, NonceRow(r, i))]
    /\ UNCHANGED <<clock, events, network, submissions, status, eligibility, reviews,
                   decisions, transferredAt>>

-----------------------------------------------------------------------------
(* The administrators.  An administrator names the claim generation by the *)
(* identifiers copied from show-operator-claim, at any time before.        *)

(* Mutant: only the deployment has to match.                               *)
IsCurrentDeployment(s) == status[s.deployment].state # "none"

IsCurrentClaim(s) ==
    /\ status[s.deployment].claim = s.claim
    /\ status[s.deployment].group = s.group
    /\ status[s.deployment].company = s.company

(* DecideOperatorClaim.  Submissions carry what the administrator saw.     *)
DecideOperatorClaim(s, decision, at) ==
    LET d == s.deployment
        index == Len(reviews) + 1
        approved == decision = "approved"
    IN  /\ index <= MaxReviews
        /\ IsCurrentClaim(s)
        /\ status[d].state = "pending-review"
        /\ status[d].submittedAt <= at
        /\ HeadAt(reviews) <= at
        /\ reviews' = Append(reviews, [claim |-> s.claim, deployment |-> d, group |-> s.group,
                                       company |-> s.company, decision |-> decision,
                                       at |-> at])
        /\ status' = [status EXCEPT ![d].state = decision, ![d].review = index,
                                    ![d].approvedAt = IF approved THEN at ELSE 0,
                                    ![d].updatedAt = at]
        /\ eligibility' = [eligibility EXCEPT
                ![d].state = IF approved THEN "active" ELSE "inactive",
                ![d].review = IF approved THEN index ELSE 0,
                ![d].decision = 0, ![d].updatedAt = at]
        /\ UNCHANGED <<clock, events, nonces, network, submissions, decisions,
                       transferredAt>>

(* DecideOperatorClaimEligibility.                                         *)
DecideOperatorClaimEligibility(s, decision, at) ==
    LET d == s.deployment
        index == Len(decisions) + 1
    IN  /\ index <= MaxDecisions
        /\ IsCurrentClaim(s)
        /\ status[d].state = "approved"
        /\ eligibility[d].claim = s.claim
        /\ eligibility[d].group = s.group
        /\ eligibility[d].company = s.company
        /\ eligibility[d].review = status[d].review
        /\ eligibility[d].state = IF decision = "suspend" THEN "active" ELSE "suspended"
        /\ status[d].approvedAt <= at
        /\ HeadAt(decisions) <= at
        /\ decisions' = Append(decisions,
                [claim |-> s.claim, deployment |-> d, group |-> s.group,
                 company |-> s.company, decision |-> decision, at |-> at])
        /\ eligibility' = [eligibility EXCEPT
                ![d].state = IF decision = "suspend" THEN "suspended" ELSE "active",
                ![d].decision = index, ![d].updatedAt = at]
        /\ UNCHANGED <<clock, events, nonces, network, submissions, status, reviews,
                       transferredAt>>

-----------------------------------------------------------------------------
(* The rows of each table.                                                 *)

AnyCompany == Companies \cup {NoCompany}
AnyDeployment == Deployments \cup {NoDeployment}
Ids == 0..Len(events)

PayloadRows == [action: OperatorActions, company: AnyCompany, ttl: TTLs \cup {0},
                token: Nat, link: Nat]

EventRows ==
    [deployment: Deployments, nonce: Nat, key: Nat, payload: PayloadRows,
     subject: Deployments, related: AnyDeployment, state: ClaimStates,
     company: AnyCompany, group: Ids, link: Ids, token: Ids, source: Ids, expires: Nat,
     at: Times]

NetworkRows ==
    [claimed: BOOLEAN, active: BOOLEAN, state: ClaimStates, group: Ids, effective: Ids,
     company: AnyCompany, link: Ids, related: AnyDeployment, profile: Ids]

StatusRows ==
    [claim: Ids, group: Ids, company: AnyCompany, state: VerificationStates \cup {"none"},
     submittedAt: Stamps, review: 0..Len(reviews), approvedAt: Stamps, updatedAt: Stamps]

EligibilityRows ==
    [claim: Ids, group: Ids, company: AnyCompany, state: EligibilityStates \cup {"none"},
     review: 0..Len(reviews), decision: 0..Len(decisions), updatedAt: Stamps]

SubmissionRows ==
    [claim: DOMAIN events, deployment: Deployments, group: DOMAIN events,
     company: Companies, at: Times]

ReviewRows ==
    [claim: DOMAIN events, deployment: Deployments, group: DOMAIN events,
     company: Companies, decision: {"approved", "rejected"}, at: Times]

DecisionRows ==
    [claim: DOMAIN events, deployment: Deployments, group: DOMAIN events,
     company: Companies, decision: {"suspend", "reinstate"}, at: Times]

NonceRows == [key: Nat, action: DOMAIN events, payload: PayloadRows]

(* Every variable has the type of its table.                               *)
OperatorTypeOK ==
    /\ clock \in Times
    /\ transferredAt \in Stamps
    /\ events \in Seq(EventRows)
    /\ network \in [Deployments -> NetworkRows]
    /\ status \in [Deployments -> StatusRows]
    /\ eligibility \in [Deployments -> EligibilityRows]
    /\ submissions \subseteq SubmissionRows
    /\ reviews \in Seq(ReviewRows)
    /\ decisions \in Seq(DecisionRows)
    /\ nonces \in [Deployments -> Seq(NonceRows)]

OperatorInit ==
    /\ clock = 1
    /\ events = <<>>
    /\ nonces = [d \in Deployments |-> <<>>]
    /\ network = [d \in Deployments |-> InitialRow]
    /\ submissions = {}
    /\ status = [d \in Deployments |-> NoStatus]
    /\ eligibility = [d \in Deployments |-> NoEligibility]
    /\ reviews = <<>>
    /\ decisions = <<>>
    /\ transferredAt = 0

Tick ==
    /\ clock < MaxTime
    /\ clock' = clock + 1
    /\ UNCHANGED <<events, nonces, network, submissions, status, eligibility, reviews,
                   decisions, transferredAt>>

(* A request of a deployment reaches its transaction: the action is        *)
(* derived once the nonce, the key and the time are found to be new.       *)
ApplyOperatorAction(r, at) ==
    /\ Len(events) < MaxEvents
    /\ Fresh(r)
    /\ Extends(at)
    /\ \/ Claim(r, at)
       \/ WithdrawClaim(r, at)
       \/ IssueClientToken(r, at)
       \/ RevokeClientToken(r, at)
       \/ RedeemLink(r, at)
       \/ RedeemClaim(r, at)
       \/ RevokeGroupLink(r, at)
       \/ DeactivateDeployment(r, at)
       \/ ReactivateDeployment(r, at)

(* decideOperatorClaim: an administrator's command approves or rejects.    *)
ReviewClaim(s, at) ==
    \E decision \in {"approved", "rejected"} : DecideOperatorClaim(s, decision, at)

(* decideOperatorClaimEligibility: a command suspends or reinstates.       *)
ReviewEligibility(s, at) ==
    \E decision \in {"suspend", "reinstate"} :
        DecideOperatorClaimEligibility(s, decision, at)

OperatorStep ==
    \/ \E d \in Deployments : \E r \in Requests(d) :
            \/ \E at \in ClockReads : ApplyOperatorAction(r, at)
            \/ RecordDuplicate(r)
    \/ \E s \in submissions, at \in ClockReads :
            ReviewClaim(s, at) \/ ReviewEligibility(s, at)

(* The completion of an ownership transfer, as far as operator actions see *)
(* it: later than the newest of them.                                      *)
TransferCompletes ==
    /\ \E at \in ClockReads :
            /\ HeadAt(events) < at
            /\ transferredAt < at
            /\ transferredAt' = at
    /\ UNCHANGED <<clock, events, nonces, network, submissions, status, eligibility,
                   reviews, decisions>>

OperatorNext == OperatorStep \/ Tick \/ TransferCompletes

OperatorSpec == OperatorInit /\ [][OperatorNext]_operatorVars
=============================================================================
