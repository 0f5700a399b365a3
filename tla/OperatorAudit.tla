---------------------------- MODULE OperatorAudit ----------------------------
(***************************************************************************)
(* The complete audit of the operator network, VerifyOperatorNetwork       *)
(* (store/sqlite/operator_verify.go, operator_state_verify.go,             *)
(* operator_claim_verify.go, operator_claim_eligibility_verify.go), as     *)
(* predicates on the tables, and the properties of OperatorNetwork.        *)
(***************************************************************************)
EXTENDS OperatorNetwork

-----------------------------------------------------------------------------
(* verifyOperatorAuditEvents, without the signatures and digests: the      *)
(* chain's times, and one private submission for each structured claim.    *)

IsStructuredClaim(i) ==
    \/ events[i].payload.action = "claim"
    \/ DerivesClaim(events[i])

SubmissionOf(i) ==
    [claim |-> i, deployment |-> events[i].deployment, group |-> events[i].group,
     company |-> events[i].company, at |-> events[i].at]

VerifyOperatorAuditEvents ==
    /\ \A i \in 2..Len(events) : events[i - 1].at <= events[i].at
    /\ submissions = {SubmissionOf(i) : i \in {j \in DOMAIN events : IsStructuredClaim(j)}}
    /\ \A i \in DOMAIN events : events[i].source # 0 => DerivesClaim(events[i])

(* verifyOperatorActionNonces.                                             *)
VerifyOperatorActionNonces ==
    /\ \A d \in Deployments : \A n \in DOMAIN nonces[d] :
            LET i == nonces[d][n].action
            IN  /\ i \in EventsOf(d)
                /\ events[i].key = nonces[d][n].key
                /\ events[i].payload = nonces[d][n].payload
    /\ \A i \in DOMAIN events :
            /\ events[i].nonce \in DOMAIN nonces[events[i].deployment]
            /\ nonces[events[i].deployment][events[i].nonce].action = i

(* verifyOperatorNetworkStateRows: the rows are the events applied again.  *)
VerifyOperatorNetworkStateRows == network = NetworkAt[Len(events)]

-----------------------------------------------------------------------------
(* verifyOperatorActionSemantics: an independent replay of the events.     *)

AuditRow ==
    [active |-> TRUE, claimed |-> FALSE, claim |-> 0, group |-> 0, effective |-> 0,
     company |-> NoCompany, link |-> 0, related |-> NoDeployment]

LeavesGroup(row) ==
    [row EXCEPT !.claimed = FALSE, !.effective = 0, !.link = 0, !.related = NoDeployment]

EntersClaim(row, e, i) ==
    [row EXCEPT !.claimed = TRUE, !.claim = i, !.group = e.group, !.effective = e.group,
                !.company = e.company, !.link = 0, !.related = NoDeployment]

ReplayEvent(row, e, i) ==
    CASE e.payload.action = "claim" -> EntersClaim(row, e, i)
      [] e.payload.action = "withdraw-claim" -> LeavesGroup(row)
      [] e.payload.action = "redeem-client-token" ->
            IF \E s \in submissions : s.claim = i
            THEN EntersClaim(row, e, i)
            ELSE [row EXCEPT !.effective = e.group, !.link = e.link, !.related = e.related]
      [] e.payload.action = "revoke-group-link" ->
            [row EXCEPT !.effective = row.group, !.link = 0, !.related = NoDeployment]
      [] e.payload.action = "deactivate-deployment" ->
            [(IF row.claimed THEN LeavesGroup(row) ELSE row) EXCEPT !.active = FALSE]
      [] e.payload.action = "reactivate-deployment" -> [row EXCEPT !.active = TRUE]
      [] OTHER -> row

(* verifiedApprovedOperatorSource: approved by then, whatever happened to  *)
(* its eligibility since.                                                  *)
ApprovedSource(row, at) ==
    \E k \in DOMAIN reviews :
        /\ reviews[k].claim = row.claim
        /\ reviews[k].decision = "approved"
        /\ reviews[k].at <= at

SourceGroup(row) == (CHOOSE s \in submissions : s.claim = row.claim).group

IssueAuthorized(row, e) ==
    /\ row.active
    /\ row.claimed
    /\ row.effective = e.group
    /\ ApprovedSource(row, e.at)
    /\ SourceGroup(row) = e.group
    /\ e.expires = e.at + e.payload.ttl

RevocationAuthorized(i) ==
    LET t == events[i].token
    IN  /\ t \in 1..(i - 1)
        /\ events[t].payload.action = "issue-client-token"
        /\ ~\E j \in (t + 1)..(i - 1) :
                events[j].payload.action = "revoke-client-token" /\ events[j].token = t
        /\ events[i].deployment = events[t].deployment
        /\ events[i].group = events[t].group
        /\ events[i].at < events[t].expires

RedemptionAuthorized(i, before) ==
    LET e == events[i]
        t == e.token
        row == before[e.subject]
        issuer == before[e.related]
        derived == \E s \in submissions : s.claim = i
    IN  /\ t \in 1..(i - 1)
        /\ events[t].payload.action = "issue-client-token"
        /\ ~\E j \in (t + 1)..(i - 1) :
                /\ events[j].payload.action \in {"revoke-client-token", "redeem-client-token"}
                /\ events[j].token = t
        /\ e.related = events[t].deployment
        /\ e.group = events[t].group
        /\ e.at < events[t].expires
        /\ issuer.active
        /\ issuer.claimed
        /\ issuer.effective = events[t].group
        /\ ApprovedSource(issuer, e.at)
        /\ SourceGroup(issuer) = events[t].group
        /\ IF derived
           THEN ~row.claimed /\ e.source = issuer.claim /\ e.company = issuer.company
           ELSE row.claimed /\ e.link # 0 /\ e.source = 0

DeactivationAuthorized(row, e) ==
    /\ row.active
    /\ IF e.state = "withdrawn"
       THEN /\ row.claimed
            /\ e.group = row.effective
            /\ e.company = row.company
            /\ e.link = row.link
            /\ e.related = row.related
       ELSE e.state = "" /\ e.group = 0 /\ e.link = 0 /\ e.related = NoDeployment

(* The audit's rows after event i.                                         *)
ReplayAt[i \in Nat] ==
    IF i = 0 THEN [d \in Deployments |-> AuditRow]
    ELSE [ReplayAt[i - 1] EXCEPT ![events[i].subject] = ReplayEvent(@, events[i], i)]

(* Event i is one that the rows before it allow.                           *)
Authorized(i, before) ==
    LET e == events[i]
    IN  CASE e.payload.action = "issue-client-token" -> IssueAuthorized(before[e.subject], e)
          [] e.payload.action = "revoke-client-token" -> RevocationAuthorized(i)
          [] e.payload.action = "redeem-client-token" -> RedemptionAuthorized(i, before)
          [] e.payload.action = "deactivate-deployment" ->
                DeactivationAuthorized(before[e.subject], e)
          [] e.payload.action = "reactivate-deployment" -> ~before[e.subject].active
          [] OTHER -> TRUE

VerifyOperatorActionSemantics == \A i \in DOMAIN events : Authorized(i, ReplayAt[i - 1])

-----------------------------------------------------------------------------
(* verifiedOperatorClaimReviewRows.                                        *)
VerifyOperatorClaimReviews ==
    /\ \A k \in DOMAIN reviews : \E s \in submissions :
            /\ s.claim = reviews[k].claim
            /\ s.deployment = reviews[k].deployment
            /\ s.group = reviews[k].group
            /\ s.company = reviews[k].company
            /\ s.at <= reviews[k].at
    /\ \A k \in 2..Len(reviews) : reviews[k - 1].at <= reviews[k].at
    /\ \A k, l \in DOMAIN reviews : reviews[k].claim = reviews[l].claim => k = l

(* operatorClaimWasSupersededBefore: what the audit takes for the end of   *)
(* claim i, and takes for its end before a decision of that time.          *)
Supersedes(j, i) ==
    /\ j > i
    /\ events[j].subject = events[i].deployment
    /\ \/ events[j].payload.action \in {"claim", "withdraw-claim", "deactivate-deployment"}
       \/ /\ events[j].payload.action = "redeem-client-token"
          /\ events[j].state = "pending-review"

SupersededBy(j, i, at) == Supersedes(j, i) /\ events[j].at < at

(* What verifiedOperatorClaimEligibilityRows asks of decision k, besides   *)
(* that its claim was not superseded before it.                            *)
DecisionFollows(k) ==
    LET prior == {l \in 1..(k - 1) : decisions[l].claim = decisions[k].claim}
        last == CHOOSE l \in prior : \A m \in prior : m <= l
    IN  /\ \E v \in DOMAIN reviews :
                /\ reviews[v].claim = decisions[k].claim
                /\ reviews[v].decision = "approved"
                /\ reviews[v].at <= decisions[k].at
        /\ \E s \in submissions :
                /\ s.claim = decisions[k].claim
                /\ s.deployment = decisions[k].deployment
                /\ s.group = decisions[k].group
                /\ s.company = decisions[k].company
        /\ k > 1 => decisions[k - 1].at <= decisions[k].at
        /\ IF decisions[k].decision = "suspend"
           THEN prior # {} => decisions[last].decision = "reinstate"
           ELSE prior # {} /\ decisions[last].decision = "suspend"

(* verifyOperatorClaimStatusRows: the status row of d rebuilt from the     *)
(* events and the reviews.                                                 *)
ClaimsOf(d) == {i \in DOMAIN events : events[i].deployment = d /\ IsStructuredClaim(i)}

(* A withdrawal changes updated_at every time, a deactivation only when    *)
(* the claim was not withdrawn before it.                                  *)
WithdrawalsAfter(d, i) ==
    {j \in DOMAIN events :
        /\ j > i
        /\ events[j].subject = d
        /\ events[j].payload.action \in {"withdraw-claim", "deactivate-deployment"}}

CountedWithdrawals(d, i) ==
    {j \in WithdrawalsAfter(d, i) :
        \/ events[j].payload.action = "withdraw-claim"
        \/ \A m \in WithdrawalsAfter(d, i) : j <= m}

ReviewsOf(i) == {k \in DOMAIN reviews : reviews[k].claim = i}
DecisionsOf(i) == {k \in DOMAIN decisions : decisions[k].claim = i}

ExpectedStatus(d) ==
    IF ClaimsOf(d) = {} THEN NoStatus
    ELSE LET i == Newest(ClaimsOf(d))
             gone == CountedWithdrawals(d, i)
             reviewed == ReviewsOf(i) # {}
             k == Newest(ReviewsOf(i))
         IN  [claim |-> i, group |-> events[i].group, company |-> events[i].company,
              submittedAt |-> events[i].at,
              state |-> IF gone # {} THEN "withdrawn"
                        ELSE IF reviewed THEN reviews[k].decision ELSE "pending-review",
              review |-> IF reviewed THEN k ELSE 0,
              approvedAt |-> IF reviewed /\ reviews[k].decision = "approved"
                             THEN reviews[k].at ELSE 0,
              updatedAt |-> IF gone # {} THEN events[Newest(gone)].at
                            ELSE IF reviewed THEN reviews[k].at ELSE events[i].at]

(* expectedOperatorClaimEligibilityCurrent.                                *)
ExpectedEligibility(d) ==
    IF ClaimsOf(d) = {} THEN NoEligibility
    ELSE LET s == ExpectedStatus(d)
             decided == DecisionsOf(s.claim) # {}
             k == Newest(DecisionsOf(s.claim))
             approved == s.state = "approved"
         IN  [claim |-> s.claim, group |-> s.group, company |-> s.company,
              state |-> IF ~approved THEN "inactive"
                        ELSE IF decided /\ decisions[k].decision = "suspend"
                             THEN "suspended" ELSE "active",
              review |-> IF s.approvedAt # 0 THEN s.review ELSE 0,
              decision |-> IF decided THEN k ELSE 0,
              updatedAt |-> IF decided /\ approved /\ decisions[k].at > s.updatedAt
                            THEN decisions[k].at ELSE s.updatedAt]

VerifyOperatorClaimStatusRows ==
    \A d \in Deployments :
        /\ status[d] = ExpectedStatus(d)
        /\ eligibility[d] = ExpectedEligibility(d)

-----------------------------------------------------------------------------
(* Properties.                                                             *)

(* Every reachable database passes VerifyOperatorNetwork but for one       *)
(* check: the direct claim rows are what the signed sources give, and each *)
(* event is authorized by the replay of the ones before it, however late   *)
(* transactions commit.  The check left out is the search for an event     *)
(* that superseded the claim of an eligibility decision: the store does    *)
(* not keep it (DecisionsKeptByLinks, DecisionsKeptInTime), only what      *)
(* DecidedOnLiveClaims says.                                               *)
AuditBesidesSuperseded ==
    /\ VerifyOperatorAuditEvents
    /\ VerifyOperatorActionNonces
    /\ VerifyOperatorNetworkStateRows
    /\ VerifyOperatorActionSemantics
    /\ VerifyOperatorClaimReviews
    /\ \A k \in DOMAIN decisions : DecisionFollows(k)
    /\ VerifyOperatorClaimStatusRows

(* An administrator suspends or reinstates a claim that has not ended:     *)
(* when the decision commits, the deployment has not withdrawn the claim,  *)
(* claimed again or been deactivated since, whatever clock value the       *)
(* decision or those actions carry (DecideOperatorClaimEligibility).       *)
DecidedOnLiveClaims ==
    [][\A k \in DOMAIN decisions' \ DOMAIN decisions : \A j \in DOMAIN events :
        Supersedes(j, decisions'[k].claim) => events[j].link = j]_operatorVars

(* The audit's search, in its two parts.  Joining another group by a link  *)
(* does not end the claim of a deployment, and is not taken for its end.   *)
DecisionsKeptByLinks ==
    \A k \in DOMAIN decisions : \A j \in DOMAIN events :
        SupersededBy(j, decisions[k].claim, decisions[k].at) => events[j].link # j

(* No action that ends a claim is older than a decision on the claim.      *)
DecisionsKeptInTime ==
    \A k \in DOMAIN decisions : \A j \in DOMAIN events :
        SupersededBy(j, decisions[k].claim, decisions[k].at) => events[j].link = j

(* An approval counts for the generation it was given for and no other:    *)
(* an approved status row belongs to the deployment's newest claim, which  *)
(* an administrator approved as it stands, and the deployment is active    *)
(* and has not withdrawn it (DecideOperatorClaim against Claim, Withdraw-  *)
(* Claim, DeactivateDeployment).                                           *)
ApprovalIsCurrent ==
    \A d \in Deployments : status[d].state = "approved" =>
        /\ network[d].active
        /\ network[d].claimed
        /\ network[d].profile = status[d].claim
        /\ network[d].company = status[d].company
        /\ \E k \in DOMAIN reviews :
                /\ reviews[k].claim = status[d].claim
                /\ reviews[k].company = status[d].company
                /\ reviews[k].decision = "approved"

(* A client token is redeemed at most once, never once it is revoked and   *)
(* never at or after its expiry, and a deployment's retries of an action   *)
(* leave one event (AppendOperatorAction, activeClientTokenTx).            *)
TokensSpentOnce ==
    /\ \A i, j \in DOMAIN events :
            /\ events[i].payload.action = "redeem-client-token"
            /\ events[j].payload.action = "redeem-client-token"
            /\ events[i].token = events[j].token
            => i = j
    /\ \A i \in DOMAIN events : events[i].payload.action = "redeem-client-token" =>
            /\ events[i].at < events[events[i].token].expires
            /\ \A j \in DOMAIN events :
                    /\ events[j].payload.action = "revoke-client-token"
                    /\ events[j].token = events[i].token
                    => i < j
    /\ \A i, j \in DOMAIN events :
            events[i].deployment = events[j].deployment /\ events[i].key = events[j].key
            => i = j

(* Who acts in a group was let in: a deployment's effective group is the   *)
(* group of its own claim or that of a link it redeemed, which nobody has  *)
(* revoked since (applyOperatorNetworkEvent).                              *)
MembershipTraceable ==
    \A d \in Deployments :
        LET row == network[d]
        IN  IF row.link = 0
            THEN row.effective = IF row.claimed THEN row.group ELSE 0
            ELSE /\ row.claimed
                 /\ ActiveOperatorLink(row.link)
                 /\ events[row.link].subject = d
                 /\ events[row.link].group = row.effective
                 /\ events[row.link].related = row.related
=============================================================================
