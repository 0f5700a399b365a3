----------------------- MODULE OperatorNetwork_proofs -----------------------
(***************************************************************************)
(* Proofs about the operator network, for every number of deployments,     *)
(* companies, events, nonces, reviews and decisions and every clock lag.   *)
(***************************************************************************)
EXTENDS OperatorAudit, Sums_proofs, SequenceTheorems

-----------------------------------------------------------------------------
(* What the transactions of the operator network do, action by action.     *)

(* A validated request: its action is a known one, and it carries the      *)
(* company, the token or the link that the action names.                   *)
LEMMA RequestFacts ==
    ASSUME NEW d \in Deployments, NEW r \in Requests(d)
    PROVE  /\ r.deployment = d
           /\ r.nonce = Len(nonces[d]) + 1
           /\ r.key \in Nat
           /\ r.payload \in Payloads
           /\ r.payload.action \in OperatorActions
           /\ r.payload.action = "claim" => r.payload.company \in Companies
           /\ r.payload.action \in {"revoke-client-token", "redeem-client-token"}
                => r.payload.token \in DOMAIN events
           /\ r.payload.action = "revoke-group-link" => r.payload.link \in DOMAIN events
           /\ r.payload.action = "issue-client-token" => r.payload.ttl \in TTLs
<1>1. r.deployment = d /\ r.nonce = Len(nonces[d]) + 1 /\ r.payload \in Payloads
  BY DEF Requests
<1>2. r.key \in Nat
  BY DEF Requests
<1>3. QED
  BY <1>1, <1>2 DEF Payloads, Payload, OperatorActions

(* The rows of a deployment's claim agree: a claimed deployment is active, *)
(* and its network row, its status row and its eligibility row are about   *)
(* one claim generation, with a company.                                   *)
ClaimRowsOK ==
    \A d \in Deployments :
        /\ network[d].claimed <=> status[d].state \in {"pending-review", "approved", "rejected"}
        /\ network[d].claimed =>
            /\ network[d].active
            /\ network[d].state = "pending-review"
            /\ network[d].profile = status[d].claim
            /\ network[d].group = status[d].group
            /\ network[d].company = status[d].company
        /\ status[d].state # "none" =>
            /\ status[d].claim \in DOMAIN events
            /\ status[d].group \in DOMAIN events
            /\ status[d].company \in Companies
        /\ eligibility[d].claim = status[d].claim
        /\ eligibility[d].group = status[d].group
        /\ eligibility[d].company = status[d].company

(* The rows of events once there is one more event.                        *)
NextIds == 0..(Len(events) + 1)

NextEventRows ==
    [deployment: Deployments, nonce: Nat, key: Nat, payload: PayloadRows,
     subject: Deployments, related: AnyDeployment, state: ClaimStates,
     company: AnyCompany, group: NextIds, link: NextIds, token: NextIds, source: NextIds,
     expires: Nat, at: Times]

(* What deriveOperatorActionTx puts into event e and what the transaction  *)
(* writes besides it, action by action.                                    *)
DerivedClaim(e) ==
    /\ e.payload.action = "claim"
    /\ network[e.subject].active
    /\ e.subject = e.deployment
    /\ e.related = NoDeployment
    /\ e.state = "pending-review"
    /\ e.company \in Companies
    /\ e.group = IF network[e.subject].claimed THEN network[e.subject].group
                 ELSE Len(events) + 1
    /\ e.link = 0 /\ e.token = 0 /\ e.source = 0
    /\ WritePendingClaim(e, Len(events) + 1, e.company)

DerivedWithdrawal(e) ==
    /\ e.payload.action = "withdraw-claim"
    /\ network[e.subject].claimed
    /\ e.subject = e.deployment
    /\ e.state = "withdrawn"
    /\ e.link = 0 /\ e.token = 0 /\ e.source = 0
    /\ WithdrawCurrentClaim(e)

DerivedIssue(e) ==
    /\ e.payload.action = "issue-client-token"
    /\ network[e.subject].active
    /\ network[e.subject].claimed
    /\ e.subject = e.deployment
    /\ ApprovedClaim(e.subject, e.group, e.at)
    /\ e.group = network[e.subject].effective
    /\ e.state = "pending-review"
    /\ e.link = 0 /\ e.token = Len(events) + 1 /\ e.source = 0
    /\ e.expires = e.at + e.payload.ttl
    /\ KeepClaims

DerivedTokenRevocation(e) ==
    /\ e.payload.action = "revoke-client-token"
    /\ e.subject = e.deployment
    /\ e.token \in DOMAIN events
    /\ ActiveClientToken(e.token, FALSE, e.at)
    /\ events[e.token].deployment = e.deployment
    /\ e.group = events[e.token].group
    /\ e.state = "" /\ e.link = 0 /\ e.source = 0
    /\ KeepClaims

DerivedRedemption(e) ==
    /\ e.payload.action = "redeem-client-token"
    /\ e.subject = e.deployment
    /\ e.token \in DOMAIN events
    /\ MayRedeem(e.subject, e.token, e.at)
    /\ e.group = events[e.token].group
    /\ e.group \in DOMAIN events
    /\ e.related = events[e.token].deployment
    /\ e.state = "pending-review"

DerivedLink(e) ==
    /\ DerivedRedemption(e)
    /\ network[e.subject].claimed
    /\ e.link = Len(events) + 1 /\ e.source = 0
    /\ e.company = NoCompany
    /\ KeepClaims

DerivedClaimCopy(e) ==
    /\ DerivedRedemption(e)
    /\ ~network[e.subject].claimed
    /\ e.link = 0
    /\ e.company \in Companies
    /\ e.company = status[e.related].company
    /\ e.source = status[e.related].claim
    /\ WritePendingClaim(e, Len(events) + 1, e.company)

DerivedLinkRevocation(e) ==
    /\ e.payload.action = "revoke-group-link"
    /\ e.link \in DOMAIN events
    /\ ActiveOperatorLink(e.link)
    /\ e.subject = events[e.link].subject
    /\ e.source = 0
    /\ KeepClaims

DerivedDeactivation(e) ==
    /\ e.payload.action = "deactivate-deployment"
    /\ network[e.subject].active
    /\ e.subject = e.deployment
    /\ e.token = 0 /\ e.source = 0
    /\ IF network[e.subject].claimed
       THEN /\ e.state = "withdrawn"
            /\ e.group = network[e.subject].effective
            /\ e.company = network[e.subject].company
            /\ e.link = network[e.subject].link
            /\ e.related = network[e.subject].related
            /\ WithdrawCurrentClaim(e)
       ELSE /\ e.state = "" /\ e.group = 0 /\ e.link = 0 /\ e.related = NoDeployment
            /\ KeepClaims

DerivedReactivation(e) ==
    /\ e.payload.action = "reactivate-deployment"
    /\ ~network[e.subject].active
    /\ e.subject = e.deployment
    /\ e.link = 0 /\ e.token = 0 /\ e.source = 0
    /\ KeepClaims

DerivedEvent(e) ==
    \/ DerivedClaim(e)
    \/ DerivedWithdrawal(e)
    \/ DerivedIssue(e)
    \/ DerivedTokenRevocation(e)
    \/ DerivedLink(e)
    \/ DerivedClaimCopy(e)
    \/ DerivedLinkRevocation(e)
    \/ DerivedDeactivation(e)
    \/ DerivedReactivation(e)

(* Event e of request r, made at a time.                                   *)
EventFor(r, at, e) ==
    /\ e \in NextEventRows
    /\ e.deployment = r.deployment
    /\ e.nonce = r.nonce
    /\ e.key = r.key
    /\ e.payload = r.payload
    /\ e.at = at
    /\ DerivedEvent(e)
    /\ AppendOperatorAction(r, e)

(* The types of the pieces the transactions read.                          *)
LEMMA TableTypes ==
    ASSUME OperatorTypeOK
    PROVE  /\ Len(events) \in Nat
           /\ DOMAIN events = 1..Len(events)
           /\ \A i \in DOMAIN events : events[i] \in EventRows
           /\ \A d \in Deployments :
                /\ network[d] \in NetworkRows
                /\ status[d] \in StatusRows
                /\ eligibility[d] \in EligibilityRows
                /\ Len(nonces[d]) \in Nat
                /\ DOMAIN nonces[d] = 1..Len(nonces[d])
                /\ \A n \in DOMAIN nonces[d] : nonces[d][n] \in NonceRows
           /\ Len(reviews) \in Nat
           /\ DOMAIN reviews = 1..Len(reviews)
           /\ \A k \in DOMAIN reviews : reviews[k] \in ReviewRows
           /\ Len(decisions) \in Nat
           /\ DOMAIN decisions = 1..Len(decisions)
           /\ \A k \in DOMAIN decisions : decisions[k] \in DecisionRows
<1>1. /\ events \in Seq(EventRows)
      /\ network \in [Deployments -> NetworkRows]
      /\ status \in [Deployments -> StatusRows]
      /\ eligibility \in [Deployments -> EligibilityRows]
      /\ reviews \in Seq(ReviewRows)
      /\ decisions \in Seq(DecisionRows)
      /\ nonces \in [Deployments -> Seq(NonceRows)]
  BY DEF OperatorTypeOK
<1> HIDE DEF EventRows, NetworkRows, StatusRows, EligibilityRows, ReviewRows, DecisionRows,
             NonceRows
<1>2. QED
  BY <1>1

(* Every request of the wire form is a request with typed fields.          *)
LEMMA EventOfRequest ==
    ASSUME NEW d \in Deployments, NEW r \in Requests(d), NEW at \in Times,
           OperatorTypeOK
    PROVE  Event(r, at) \in NextEventRows
<1>1. Len(nonces[d]) + 1 \in Nat /\ Len(events) \in Nat /\ DOMAIN events = 1..Len(events)
  BY TableTypes
<1>2. r.payload \in PayloadRows
  <2>1. r.payload \in Payloads
    BY RequestFacts
  <2>2. /\ \A c \in Companies : [Payload("claim") EXCEPT !.company = c] \in PayloadRows
        /\ \A t \in TTLs : [Payload("issue-client-token") EXCEPT !.ttl = t] \in PayloadRows
        /\ \A i \in DOMAIN events :
            /\ [Payload("revoke-client-token") EXCEPT !.token = i] \in PayloadRows
            /\ [Payload("redeem-client-token") EXCEPT !.token = i] \in PayloadRows
            /\ [Payload("revoke-group-link") EXCEPT !.link = i] \in PayloadRows
        /\ Payload("withdraw-claim") \in PayloadRows
        /\ Payload("deactivate-deployment") \in PayloadRows
        /\ Payload("reactivate-deployment") \in PayloadRows
    BY <1>1 DEF Payload, PayloadRows, AnyCompany, OperatorActions
  <2>3. QED
    BY <2>1, <2>2, Zenon DEF Payloads
<1>3. QED
  BY <1>1, <1>2, RequestFacts DEF Event, NextEventRows, NextIds, AnyDeployment, AnyCompany,
     ClaimStates

(* Every accepted action appends one event of its request, filled in as    *)
(* deriveOperatorActionTx does for its action.                             *)
LEMMA ActionAppends ==
    ASSUME OperatorTypeOK, ClaimRowsOK,
           NEW d \in Deployments, NEW r \in Requests(d), NEW at \in Times,
           ApplyOperatorAction(r, at)
    PROVE  \E e : EventFor(r, at, e)
<1> DEFINE n == Len(events) + 1
           b == Event(r, at)
<1>1. /\ r.deployment = d
      /\ r.nonce = Len(nonces[d]) + 1
      /\ r.payload.action = "claim" => r.payload.company \in Companies
      /\ r.payload.action \in {"revoke-client-token", "redeem-client-token"}
           => r.payload.token \in DOMAIN events
      /\ r.payload.action = "revoke-group-link" => r.payload.link \in DOMAIN events
      /\ r.payload.action = "issue-client-token" => r.payload.ttl \in TTLs
  BY RequestFacts
<1>2. /\ b \in NextEventRows
      /\ b.deployment = d /\ b.nonce = r.nonce /\ b.key = r.key /\ b.payload = r.payload
      /\ b.subject = d /\ b.related = NoDeployment /\ b.state = ""
      /\ b.company = NoCompany /\ b.group = 0 /\ b.link = 0 /\ b.token = 0 /\ b.source = 0
      /\ b.expires = 0 /\ b.at = at
  BY <1>1, EventOfRequest DEF Event
<1>3. /\ Len(events) \in Nat /\ DOMAIN events = 1..Len(events) /\ n \in NextIds
      /\ Ids \subseteq NextIds /\ DOMAIN events \subseteq Ids
  BY TableTypes DEF Ids, NextIds
<1>4. \A x \in Deployments :
        /\ network[x].state \in ClaimStates /\ network[x].group \in Ids
        /\ network[x].effective \in Ids /\ network[x].company \in AnyCompany
        /\ network[x].link \in Ids /\ network[x].related \in AnyDeployment
        /\ status[x].claim \in Ids /\ status[x].company \in AnyCompany
        /\ status[x].group \in Ids
  BY TableTypes DEF NetworkRows, StatusRows
<1>5. \A i \in DOMAIN events :
        /\ events[i].deployment \in Deployments /\ events[i].subject \in Deployments
        /\ events[i].related \in AnyDeployment /\ events[i].group \in Ids
        /\ events[i].token \in Ids /\ events[i].link \in Ids /\ events[i].expires \in Nat
  BY TableTypes DEF EventRows
<1>6. Companies \subseteq AnyCompany /\ Deployments \subseteq AnyDeployment
      /\ {"", "pending-review", "withdrawn"} = ClaimStates
  BY DEF AnyCompany, AnyDeployment, ClaimStates
<1> HIDE DEF b
<1>7. CASE Claim(r, at)
  <2> DEFINE e == [b EXCEPT !.state = "pending-review", !.company = r.payload.company,
                   !.group = IF network[r.deployment].claimed
                             THEN network[r.deployment].group ELSE n]
  <2>1. AppendOperatorAction(r, e) /\ WritePendingClaim(e, n, r.payload.company) /\ r.payload.action = "claim"
    BY <1>7 DEF Claim, b
  <2>2. /\ e \in NextEventRows
        /\ e.deployment = d /\ e.nonce = r.nonce /\ e.key = r.key /\ e.payload = r.payload
        /\ e.at = at
        /\ e.subject = d /\ e.related = NoDeployment /\ e.state = "pending-review"
        /\ e.company = r.payload.company
        /\ e.group = IF network[d].claimed THEN network[d].group ELSE n
        /\ e.link = 0 /\ e.token = 0 /\ e.source = 0
    BY <1>7, <1>1, <1>2, <1>3, <1>4, <1>5, <1>6, TimeAssumption
       DEF Claim, NextEventRows, MembershipGroup, Times, MayRedeem, ActiveClientToken
  <2> HIDE DEF e
  <2>3. DerivedClaim(e)
    BY <1>7, <1>1, <1>3, <1>4, <1>5, <2>1, <2>2
       DEF Claim, DerivedClaim
  <2>4. QED
    BY <2>1, <2>2, <2>3, <1>1, Zenon DEF EventFor, DerivedEvent
<1>8. CASE WithdrawClaim(r, at)
  <2> DEFINE e == [b EXCEPT !.state = "withdrawn", !.group = network[r.deployment].group,
                   !.company = network[r.deployment].company]
  <2>1. AppendOperatorAction(r, e) /\ WithdrawCurrentClaim(e) /\ r.payload.action = "withdraw-claim"
    BY <1>8 DEF WithdrawClaim, b
  <2>2. /\ e \in NextEventRows
        /\ e.deployment = d /\ e.nonce = r.nonce /\ e.key = r.key /\ e.payload = r.payload
        /\ e.at = at
        /\ e.subject = d /\ e.state = "withdrawn" /\ e.link = 0 /\ e.token = 0 /\ e.source = 0
    BY <1>8, <1>1, <1>2, <1>3, <1>4, <1>5, <1>6, TimeAssumption
       DEF WithdrawClaim, NextEventRows, MembershipGroup, Times, MayRedeem, ActiveClientToken
  <2> HIDE DEF e
  <2>3. DerivedWithdrawal(e)
    BY <1>8, <1>1, <1>3, <1>4, <1>5, <2>1, <2>2
       DEF WithdrawClaim, DerivedWithdrawal
  <2>4. QED
    BY <2>1, <2>2, <2>3, <1>1, Zenon DEF EventFor, DerivedEvent
<1>9. CASE IssueClientToken(r, at)
  <2> DEFINE e == [b EXCEPT !.state = network[r.deployment].state,
                   !.group = MembershipGroup(r.deployment), !.token = n,
                   !.expires = at + r.payload.ttl]
  <2>1. AppendOperatorAction(r, e) /\ KeepClaims /\ r.payload.action = "issue-client-token"
    BY <1>9 DEF IssueClientToken, b
  <2>5. at + r.payload.ttl \in Nat
    BY <2>1, <1>1, TimeAssumption DEF Times
  <2>2. /\ e \in NextEventRows
        /\ e.deployment = d /\ e.nonce = r.nonce /\ e.key = r.key /\ e.payload = r.payload
        /\ e.at = at
        /\ e.subject = d /\ e.state = network[d].state /\ e.group = MembershipGroup(d)
        /\ e.link = 0 /\ e.token = n /\ e.source = 0 /\ e.expires = at + e.payload.ttl
    BY <2>1, <2>5, <1>1, <1>2, <1>3, <1>4 DEF NextEventRows, MembershipGroup
  <2> HIDE DEF e
  <2>3. DerivedIssue(e)
    BY <1>9, <1>1, <1>3, <1>4, <1>5, <2>1, <2>2
       DEF IssueClientToken, DerivedIssue, MembershipGroup, ClaimRowsOK
  <2>4. QED
    BY <2>1, <2>2, <2>3, <1>1, Zenon DEF EventFor, DerivedEvent
<1>10. CASE RevokeClientToken(r, at)
  <2> DEFINE e == [b EXCEPT !.group = events[r.payload.token].group, !.token = r.payload.token,
                   !.expires = events[r.payload.token].expires]
  <2>1. AppendOperatorAction(r, e) /\ KeepClaims /\ r.payload.action = "revoke-client-token"
    BY <1>10 DEF RevokeClientToken, b
  <2>2. /\ e \in NextEventRows
        /\ e.deployment = d /\ e.nonce = r.nonce /\ e.key = r.key /\ e.payload = r.payload
        /\ e.at = at
        /\ e.subject = d /\ e.state = "" /\ e.group = events[r.payload.token].group
        /\ e.link = 0 /\ e.token = r.payload.token /\ e.source = 0
    BY <1>10, <1>1, <1>2, <1>3, <1>4, <1>5, <1>6, TimeAssumption
       DEF RevokeClientToken, NextEventRows, MembershipGroup, Times, MayRedeem, ActiveClientToken
  <2> HIDE DEF e
  <2>3. DerivedTokenRevocation(e)
    BY <1>10, <1>1, <1>3, <1>4, <1>5, <2>1, <2>2
       DEF RevokeClientToken, DerivedTokenRevocation
  <2>4. QED
    BY <2>1, <2>2, <2>3, <1>1, Zenon DEF EventFor, DerivedEvent
<1>11. CASE RedeemLink(r, at)
  <2> DEFINE e == [[b EXCEPT !.group = events[r.payload.token].group, !.token = r.payload.token,
                    !.related = events[r.payload.token].deployment]
                   EXCEPT !.state = network[r.deployment].state, !.link = n]
  <2>1. AppendOperatorAction(r, e) /\ KeepClaims /\ r.payload.action = "redeem-client-token"
    BY <1>11, SMTT(30) DEF RedeemLink, b, Redemption
  <2>2. /\ e \in NextEventRows
        /\ e.deployment = d /\ e.nonce = r.nonce /\ e.key = r.key /\ e.payload = r.payload
        /\ e.at = at
        /\ e.subject = d /\ e.state = network[d].state /\ e.group = events[r.payload.token].group
        /\ e.related = events[r.payload.token].deployment /\ e.company = NoCompany
        /\ e.link = n /\ e.token = r.payload.token /\ e.source = 0
    BY <1>11, <1>1, <1>2, <1>3, <1>4, <1>5, <1>6, TimeAssumption
       DEF RedeemLink, NextEventRows, MembershipGroup, Times, MayRedeem, ActiveClientToken
  <2> HIDE DEF e
  <2>3. /\ r.payload.token \in DOMAIN events
        /\ MayRedeem(d, r.payload.token, at)
        /\ network[d].claimed
    BY <1>11, <1>1, <2>1 DEF RedeemLink
  <2>4. /\ events[r.payload.token].group \in DOMAIN events
        /\ status[events[r.payload.token].deployment].company \in Companies
    BY <2>3, <1>5 DEF MayRedeem, ApprovedClaim, ClaimRowsOK
  <2>5. e.state = "pending-review"
    BY <2>2, <2>3 DEF ClaimRowsOK
  <2>6. DerivedRedemption(e)
    BY <2>1, <2>2, <2>3, <2>4, <2>5 DEF DerivedRedemption
  <2>7. DerivedLink(e)
    BY <2>1, <2>2, <2>3, <2>4, <2>6 DEF DerivedLink
  <2>8. QED
    BY <2>1, <2>2, <2>7, <1>1, Zenon DEF EventFor, DerivedEvent
<1>12. CASE RedeemClaim(r, at)
  <2> DEFINE e == [[b EXCEPT !.group = events[r.payload.token].group, !.token = r.payload.token,
                    !.related = events[r.payload.token].deployment]
                   EXCEPT !.state = "pending-review",
                          !.company = status[events[r.payload.token].deployment].company,
                          !.source = status[events[r.payload.token].deployment].claim]
  <2>1. /\ AppendOperatorAction(r, e)
        /\ WritePendingClaim(e, n, status[events[r.payload.token].deployment].company)
        /\ r.payload.action = "redeem-client-token"
    BY <1>12 DEF RedeemClaim, b, Redemption
  <2>2. /\ e \in NextEventRows
        /\ e.deployment = d /\ e.nonce = r.nonce /\ e.key = r.key /\ e.payload = r.payload
        /\ e.at = at
        /\ e.subject = d /\ e.state = "pending-review" /\ e.group = events[r.payload.token].group
        /\ e.related = events[r.payload.token].deployment
        /\ e.company = status[e.related].company /\ e.source = status[e.related].claim
        /\ e.link = 0 /\ e.token = r.payload.token
    BY <1>12, <1>1, <1>2, <1>3, <1>4, <1>5, <1>6, TimeAssumption
       DEF RedeemClaim, NextEventRows, MembershipGroup, Times, MayRedeem, ActiveClientToken
  <2> HIDE DEF e
  <2>3. /\ r.payload.token \in DOMAIN events
        /\ MayRedeem(d, r.payload.token, at)
        /\ ~network[d].claimed
    BY <1>12, <1>1, <2>1 DEF RedeemClaim
  <2>4. /\ events[r.payload.token].group \in DOMAIN events
        /\ status[events[r.payload.token].deployment].company \in Companies
    BY <2>3, <1>5 DEF MayRedeem, ApprovedClaim, ClaimRowsOK
  <2>6. DerivedRedemption(e)
    BY <2>1, <2>2, <2>3, <2>4 DEF DerivedRedemption
  <2>7. DerivedClaimCopy(e)
    BY <2>1, <2>2, <2>3, <2>4, <2>6 DEF DerivedClaimCopy
  <2>8. QED
    BY <2>1, <2>2, <2>7, <1>1, Zenon DEF EventFor, DerivedEvent
<1>13. CASE RevokeGroupLink(r, at)
  <2> DEFINE e == [b EXCEPT !.subject = events[r.payload.link].subject,
                   !.related = events[r.payload.link].related,
                   !.group = events[r.payload.link].group, !.link = r.payload.link,
                   !.token = events[r.payload.link].token]
  <2>1. AppendOperatorAction(r, e) /\ KeepClaims /\ r.payload.action = "revoke-group-link"
    BY <1>13, SMTT(30) DEF RevokeGroupLink, b
  <2>2. /\ e \in NextEventRows
        /\ e.deployment = d /\ e.nonce = r.nonce /\ e.key = r.key /\ e.payload = r.payload
        /\ e.at = at
        /\ e.subject = events[r.payload.link].subject /\ e.link = r.payload.link
        /\ e.source = 0
    BY <1>13, <1>1, <1>2, <1>3, <1>4, <1>5, <1>6, TimeAssumption
       DEF RevokeGroupLink, NextEventRows, MembershipGroup, Times, MayRedeem, ActiveClientToken
  <2> HIDE DEF e
  <2>3. DerivedLinkRevocation(e)
    BY <1>13, <1>1, <1>3, <1>4, <1>5, <2>1, <2>2
       DEF RevokeGroupLink, DerivedLinkRevocation
  <2>4. QED
    BY <2>1, <2>2, <2>3, <1>1, Zenon DEF EventFor, DerivedEvent
<1>16. CASE ReactivateDeployment(r, at)
  <2> DEFINE e == b
  <2>1. AppendOperatorAction(r, e) /\ KeepClaims /\ r.payload.action = "reactivate-deployment"
    BY <1>16 DEF ReactivateDeployment, b
  <2>2. /\ e \in NextEventRows
        /\ e.deployment = d /\ e.nonce = r.nonce /\ e.key = r.key /\ e.payload = r.payload
        /\ e.at = at
        /\ e.subject = d /\ e.link = 0 /\ e.token = 0 /\ e.source = 0
    BY <1>16, <1>1, <1>2, <1>3, <1>4, <1>5, <1>6, TimeAssumption
       DEF ReactivateDeployment, NextEventRows, MembershipGroup, Times, MayRedeem, ActiveClientToken
  <2> HIDE DEF e
  <2>3. DerivedReactivation(e)
    BY <1>16, <1>1, <1>3, <1>4, <1>5, <2>1, <2>2
       DEF ReactivateDeployment, DerivedReactivation
  <2>4. QED
    BY <2>1, <2>2, <2>3, <1>1, Zenon DEF EventFor, DerivedEvent
<1>14. CASE DeactivateDeployment(r, at) /\ network[d].claimed
  <2> DEFINE e == [b EXCEPT !.state = "withdrawn", !.group = MembershipGroup(r.deployment),
                   !.company = network[r.deployment].company,
                   !.link = network[r.deployment].link,
                   !.related = network[r.deployment].related]
  <2>1. /\ AppendOperatorAction(r, e) /\ WithdrawCurrentClaim(e)
        /\ r.payload.action = "deactivate-deployment"
    BY <1>14, <1>1 DEF DeactivateDeployment, b
  <2>2. /\ e \in NextEventRows
        /\ e.deployment = d /\ e.nonce = r.nonce /\ e.key = r.key /\ e.payload = r.payload
        /\ e.at = at
        /\ e.subject = d /\ e.state = "withdrawn" /\ e.group = MembershipGroup(d)
        /\ e.company = network[d].company /\ e.link = network[d].link
        /\ e.related = network[d].related /\ e.token = 0 /\ e.source = 0
    BY <1>1, <1>2, <1>3, <1>4, <1>5, <1>6 DEF NextEventRows, MembershipGroup
  <2> HIDE DEF e
  <2>3. DerivedDeactivation(e)
    BY <1>14, <1>1, <2>1, <2>2 DEF DeactivateDeployment, DerivedDeactivation, MembershipGroup
  <2>4. QED
    BY <2>1, <2>2, <2>3, <1>1, Zenon DEF EventFor, DerivedEvent
<1>15. CASE DeactivateDeployment(r, at) /\ ~network[d].claimed
  <2>1. /\ AppendOperatorAction(r, b) /\ KeepClaims
        /\ r.payload.action = "deactivate-deployment"
    BY <1>15, <1>1 DEF DeactivateDeployment, b
  <2>2. DerivedDeactivation(b)
    BY <1>15, <1>1, <1>2, <2>1 DEF DeactivateDeployment, DerivedDeactivation
  <2>3. QED
    BY <1>1, <1>2, <2>1, <2>2, Zenon DEF EventFor, DerivedEvent
<1>17. QED
  BY <1>7, <1>8, <1>9, <1>10, <1>11, <1>12, <1>13, <1>14, <1>15, <1>16
     DEF ApplyOperatorAction

(* The tables after an event: the chain has one more event, and only the   *)
(* rows of its deployment and of its subject have changed.                 *)
LEMMA EventTables ==
    ASSUME OperatorTypeOK, NEW d \in Deployments, NEW r \in Requests(d), NEW at, NEW e,
           EventFor(r, at, e)
    PROVE  /\ Len(events') = Len(events) + 1
           /\ DOMAIN events' = 1..(Len(events) + 1)
           /\ \A i \in DOMAIN events : events'[i] = events[i]
           /\ events'[Len(events) + 1] = e
           /\ e.subject \in Deployments
           /\ network'[e.subject] = ApplyEvent(network[e.subject], e, Len(events) + 1)
           /\ \A x \in Deployments : x # e.subject => network'[x] = network[x]
           /\ e.deployment = d
           /\ nonces'[d] = Append(nonces[d], NonceRow(r, Len(events) + 1))
           /\ \A x \in Deployments : x # d => nonces'[x] = nonces[x]
           /\ UNCHANGED <<clock, reviews, decisions, transferredAt>>
<1>1. /\ events' = Append(events, e)
      /\ network' = [network EXCEPT ![e.subject] = ApplyEvent(@, e, Len(events) + 1)]
      /\ nonces' = [nonces EXCEPT ![r.deployment] = Append(@, NonceRow(r, Len(events) + 1))]
      /\ UNCHANGED <<clock, reviews, decisions, transferredAt>>
  BY DEF EventFor, AppendOperatorAction
<1>2. e.subject \in Deployments /\ r.deployment = d /\ e.deployment = d
  BY RequestFacts DEF EventFor, NextEventRows
<1>3. events \in Seq(EventRows) /\ DOMAIN network = Deployments /\ DOMAIN nonces = Deployments
  BY DEF OperatorTypeOK
<1>4. /\ Len(events') = Len(events) + 1
      /\ \A i \in DOMAIN events : events'[i] = events[i]
      /\ events'[Len(events) + 1] = e
      /\ DOMAIN events' = 1..(Len(events) + 1)
  <2> HIDE DEF EventRows
  <2>1. DOMAIN events = 1..Len(events) /\ Len(events) \in Nat
    BY <1>3
  <2>2. QED
    BY <1>1, <1>3, <2>1
<1>5. QED
  BY <1>1, <1>2, <1>3, <1>4

SameClaim(old, new) ==
    /\ new.group = old.group
    /\ new.company = old.company
    /\ new.profile = old.profile

(* What applyOperatorNetworkEvent makes of the row of the event's subject, *)
(* field by field.                                                         *)
RowEffect(e, old, new) ==
    /\ DerivedClaim(e) \/ DerivedClaimCopy(e) =>
         /\ new.claimed = TRUE /\ new.active = TRUE /\ new.state = "pending-review"
         /\ new.group = e.group /\ new.effective = e.group
         /\ new.company = e.company /\ new.profile = Len(events) + 1
         /\ new.link = 0 /\ new.related = NoDeployment
    /\ DerivedWithdrawal(e) =>
         /\ new.claimed = FALSE /\ new.active = old.active /\ SameClaim(old, new)
         /\ new.effective = 0 /\ new.link = 0 /\ new.related = NoDeployment
    /\ DerivedIssue(e) \/ DerivedTokenRevocation(e) => new = old
    /\ DerivedLink(e) =>
         /\ new.claimed = TRUE /\ new.active = TRUE /\ SameClaim(old, new)
         /\ new.state = old.state /\ new.effective = e.group
         /\ new.link = Len(events) + 1 /\ new.related = e.related
    /\ DerivedLinkRevocation(e) =>
         /\ new.claimed = old.claimed /\ new.active = old.active /\ SameClaim(old, new)
         /\ new.state = old.state
         /\ new.effective = IF old.claimed THEN old.group ELSE 0
         /\ new.link = 0 /\ new.related = NoDeployment
    /\ DerivedDeactivation(e) =>
         /\ new.claimed = FALSE /\ new.active = FALSE /\ SameClaim(old, new)
         /\ old.claimed => /\ new.effective = 0 /\ new.link = 0
                           /\ new.related = NoDeployment
         /\ ~old.claimed => /\ new.effective = old.effective /\ new.link = old.link
                            /\ new.related = old.related
    /\ DerivedReactivation(e) =>
         /\ new.claimed = old.claimed /\ new.active = TRUE /\ SameClaim(old, new)
         /\ new.state = old.state /\ new.effective = old.effective
         /\ new.link = old.link /\ new.related = old.related

(* The subject's row is the old one with the event applied.                *)
LEMMA EventRow ==
    ASSUME OperatorTypeOK, NEW d \in Deployments, NEW r \in Requests(d), NEW at, NEW e,
           EventFor(r, at, e)
    PROVE  RowEffect(e, network[e.subject], network'[e.subject])
<1> DEFINE old == network[e.subject]
           new == network'[e.subject]
<1> DEFINE n == Len(events) + 1
<1>1. new = ApplyEvent(old, e, n) /\ e.subject \in Deployments
  BY EventTables
<1>2. old \in NetworkRows /\ old.claimed \in BOOLEAN /\ old.active \in BOOLEAN
  BY <1>1, TableTypes DEF NetworkRows
<1> HIDE DEF old, new
<1>3. old = network[e.subject] /\ new = network'[e.subject]
  BY DEF old, new
<1>4. ASSUME DerivedClaim(e)
      PROVE  /\ new.claimed = TRUE /\ new.active = TRUE /\ new.state = "pending-review"
             /\ new.group = e.group /\ new.effective = e.group
             /\ new.company = e.company /\ new.profile = Len(events) + 1
             /\ new.link = 0 /\ new.related = NoDeployment
  <2>1. new = [Claimed(old, e, n) EXCEPT !.link = 0] /\ old.active = TRUE
    BY <1>3, <1>1, <1>2, <1>4 DEF DerivedClaim, ApplyEvent
  <2>2. QED
    BY <2>1, <1>2, <1>4 DEF DerivedClaim, NetworkRows, Claimed
<1>5. ASSUME DerivedClaimCopy(e)
      PROVE  /\ new.claimed = TRUE /\ new.active = TRUE /\ new.state = "pending-review"
             /\ new.group = e.group /\ new.effective = e.group
             /\ new.company = e.company /\ new.profile = Len(events) + 1
             /\ new.link = 0 /\ new.related = NoDeployment
  <2>1. /\ e.payload.action = "redeem-client-token" /\ ~old.claimed /\ old.link = 0
        /\ old.active = TRUE /\ DerivesClaim(e) /\ e.state = "pending-review"
    BY <1>3, <1>5, <1>2, NoneAssumption
       DEF DerivedClaimCopy, DerivedRedemption, MayRedeem, DerivesClaim
  <2>2. new = Claimed(old, e, n)
    BY <2>1, <1>1 DEF ApplyEvent
  <2>3. QED
    BY <2>1, <2>2, <1>2 DEF NetworkRows, Claimed
<1>6. ASSUME DerivedWithdrawal(e)
      PROVE  /\ new.claimed = FALSE /\ new.active = old.active /\ SameClaim(old, new)
             /\ new.effective = 0 /\ new.link = 0 /\ new.related = NoDeployment
  <2>1. new = Withdrawn(old)
    BY <1>1, <1>6 DEF DerivedWithdrawal, ApplyEvent
  <2>2. QED
    BY <2>1, <1>2 DEF NetworkRows, Withdrawn, SameClaim
<1>7. ASSUME DerivedIssue(e) \/ DerivedTokenRevocation(e) PROVE new = old
  BY <1>1, <1>7 DEF DerivedIssue, DerivedTokenRevocation, ApplyEvent
<1>8. ASSUME DerivedLink(e)
      PROVE  /\ new.claimed = TRUE /\ new.active = TRUE /\ SameClaim(old, new)
             /\ new.state = old.state /\ new.effective = e.group
             /\ new.link = Len(events) + 1 /\ new.related = e.related
  <2>1. /\ e.payload.action = "redeem-client-token" /\ old.claimed = TRUE /\ old.active = TRUE
        /\ e.link = n
    BY <1>3, <1>2, <1>8 DEF DerivedLink, DerivedRedemption, MayRedeem
  <2>2. new = [old EXCEPT !.effective = e.group, !.link = e.link, !.related = e.related]
    BY <1>1, <2>1 DEF ApplyEvent
  <2>3. QED
    BY <2>1, <2>2, <1>2 DEF NetworkRows, SameClaim
<1>9. ASSUME DerivedLinkRevocation(e)
      PROVE  /\ new.claimed = old.claimed /\ new.active = old.active /\ SameClaim(old, new)
             /\ new.state = old.state
             /\ new.effective = IF old.claimed THEN old.group ELSE 0
             /\ new.link = 0 /\ new.related = NoDeployment
  <2>1. new = [old EXCEPT !.effective = IF old.claimed THEN old.group ELSE 0,
                          !.link = 0, !.related = NoDeployment]
    BY <1>1, <1>9 DEF DerivedLinkRevocation, ApplyEvent
  <2>2. QED
    BY <2>1, <1>2 DEF NetworkRows, SameClaim
<1>10. ASSUME DerivedDeactivation(e)
      PROVE  /\ new.claimed = FALSE /\ new.active = FALSE /\ SameClaim(old, new)
             /\ old.claimed => /\ new.effective = 0 /\ new.link = 0
                               /\ new.related = NoDeployment
             /\ ~old.claimed => /\ new.effective = old.effective /\ new.link = old.link
                                /\ new.related = old.related
  <2>1. new = [(IF old.claimed THEN Withdrawn(old) ELSE old) EXCEPT !.active = FALSE]
    BY <1>1, <1>10 DEF DerivedDeactivation, ApplyEvent
  <2>2. QED
    BY <2>1, <1>2 DEF NetworkRows, Withdrawn, SameClaim
<1>11. ASSUME DerivedReactivation(e)
      PROVE  /\ new.claimed = old.claimed /\ new.active = TRUE /\ SameClaim(old, new)
             /\ new.state = old.state /\ new.effective = old.effective
             /\ new.link = old.link /\ new.related = old.related
  <2>1. new = [old EXCEPT !.active = TRUE]
    BY <1>1, <1>11 DEF DerivedReactivation, ApplyEvent
  <2>2. QED
    BY <2>1, <1>2 DEF NetworkRows, SameClaim
<1>12. QED
  BY <1>4, <1>5, <1>6, <1>7, <1>8, <1>9, <1>10, <1>11 DEF RowEffect, old, new

(* A sequence over a set is one over every larger set.                     *)
LEMMA SeqSubset ==
    ASSUME NEW S, NEW T, S \subseteq T, NEW s \in Seq(S)
    PROVE  s \in Seq(T)
OBVIOUS

(* The tables only grow, so a row stays a row of its table.                *)
LEMMA RowsGrow ==
    ASSUME Len(events) \in Nat, Len(reviews) \in Nat, Len(decisions) \in Nat,
           DOMAIN events = 1..Len(events), DOMAIN events' = 1..Len(events'),
           Len(events') \in Nat, Len(events) <= Len(events'),
           Len(reviews') \in Nat, Len(reviews) <= Len(reviews'),
           Len(decisions') \in Nat, Len(decisions) <= Len(decisions')
    PROVE  /\ EventRows \subseteq EventRows'
           /\ NetworkRows \subseteq NetworkRows'
           /\ StatusRows \subseteq StatusRows'
           /\ EligibilityRows \subseteq EligibilityRows'
           /\ SubmissionRows \subseteq SubmissionRows'
           /\ ReviewRows \subseteq ReviewRows'
           /\ DecisionRows \subseteq DecisionRows'
           /\ NonceRows \subseteq NonceRows'
<1>1. Ids \subseteq Ids' /\ DOMAIN events \subseteq DOMAIN events'
      /\ 0..Len(reviews) \subseteq 0..Len(reviews')
      /\ 0..Len(decisions) \subseteq 0..Len(decisions')
  BY DEF Ids
<1>2. EventRows \subseteq EventRows'
  BY <1>1 DEF EventRows
<1>3. NetworkRows \subseteq NetworkRows'
  BY <1>1 DEF NetworkRows
<1>4. StatusRows \subseteq StatusRows'
  BY <1>1 DEF StatusRows
<1>5. EligibilityRows \subseteq EligibilityRows'
  BY <1>1 DEF EligibilityRows
<1>6. SubmissionRows \subseteq SubmissionRows'
  BY <1>1 DEF SubmissionRows
<1>7. ReviewRows \subseteq ReviewRows' /\ DecisionRows \subseteq DecisionRows'
  BY <1>1 DEF ReviewRows, DecisionRows
<1>8. NonceRows \subseteq NonceRows'
  BY <1>1 DEF NonceRows
<1>9. QED
  BY <1>2, <1>3, <1>4, <1>5, <1>6, <1>7, <1>8

(* An accepted action keeps every table's type.                            *)
LEMMA EventKeepsTypes ==
    ASSUME OperatorTypeOK, ClaimRowsOK,
           NEW d \in Deployments, NEW r \in Requests(d), NEW at \in Times, NEW e,
           EventFor(r, at, e)
    PROVE  OperatorTypeOK'
<1> DEFINE n == Len(events) + 1
           s == e.subject
           row == network[s]
           new == ApplyEvent(row, e, n)
<1>1. /\ e \in NextEventRows /\ DerivedEvent(e) /\ e.deployment = d /\ e.at = at
      /\ e.at \in Times /\ e.group \in NextIds /\ e.link \in NextIds
      /\ e.related \in AnyDeployment /\ e.state \in ClaimStates /\ e.company \in AnyCompany
      /\ s \in Deployments
  BY RequestFacts DEF EventFor, NextEventRows
<1>2. /\ Len(events') = n /\ DOMAIN events' = 1..n
      /\ events' = Append(events, e)
      /\ network' = [network EXCEPT ![s] = new]
      /\ nonces' = [nonces EXCEPT ![d] = Append(@, NonceRow(r, n))]
      /\ UNCHANGED <<clock, reviews, decisions, transferredAt>>
  <2>1. AppendOperatorAction(r, e) /\ r.deployment = d
    BY RequestFacts DEF EventFor
  <2>2. QED
    BY <2>1, EventTables DEF AppendOperatorAction
<1>3. /\ Len(events) \in Nat /\ DOMAIN events = 1..Len(events)
      /\ n \in NextIds /\ n \in 1..n /\ Ids \subseteq NextIds /\ 0 \in Ids
      /\ row \in NetworkRows /\ status[s] \in StatusRows /\ eligibility[s] \in EligibilityRows
      /\ Len(reviews) \in Nat /\ Len(decisions) \in Nat
  BY <1>1, TableTypes DEF Ids, NextIds
<1>4. Ids' = NextIds /\ EventRows' = NextEventRows
  BY <1>2 DEF Ids, NextIds, EventRows, NextEventRows
<1>5. /\ EventRows \subseteq EventRows' /\ NetworkRows \subseteq NetworkRows'
      /\ StatusRows \subseteq StatusRows' /\ EligibilityRows \subseteq EligibilityRows'
      /\ SubmissionRows \subseteq SubmissionRows' /\ ReviewRows \subseteq ReviewRows'
      /\ DecisionRows \subseteq DecisionRows' /\ NonceRows \subseteq NonceRows'
  BY <1>2, <1>3, RowsGrow
<1>6. /\ row.claimed \in BOOLEAN /\ row.active \in BOOLEAN /\ row.state \in ClaimStates
      /\ row.group \in Ids /\ row.effective \in Ids /\ row.company \in AnyCompany
      /\ row.link \in Ids /\ row.related \in AnyDeployment /\ row.profile \in Ids
  BY <1>3 DEF NetworkRows
<1>7. "withdrawn" \in ClaimStates /\ NoDeployment \in AnyDeployment /\ NoCompany \notin Companies
  BY NoneAssumption DEF ClaimStates, AnyDeployment
<1>8. new \in NetworkRows'
  <2>1. CASE e.payload.action = "claim"
    <3>1. new = [Claimed(row, e, n) EXCEPT !.link = 0]
      BY <2>1 DEF ApplyEvent
    <3>2. QED
      BY <3>1, <1>1, <1>3, <1>4, <1>6, <1>7 DEF NetworkRows, Claimed
  <2>2. CASE e.payload.action = "redeem-client-token" /\ row.claimed
    <3>1. new = [row EXCEPT !.effective = e.group, !.link = e.link, !.related = e.related]
      BY <2>2 DEF ApplyEvent
    <3>2. QED
      BY <3>1, <1>1, <1>3, <1>4, <1>6, <1>7 DEF NetworkRows
  <2>3. CASE e.payload.action = "redeem-client-token" /\ ~row.claimed
    <3>1. DerivesClaim(e)
      BY <2>3, <1>1, <1>7
         DEF DerivedEvent, DerivedClaim, DerivedWithdrawal, DerivedIssue, DerivedTokenRevocation,
             DerivedLink, DerivedClaimCopy, DerivedRedemption, DerivedLinkRevocation,
             DerivedDeactivation, DerivedReactivation, DerivesClaim
    <3>2. new = Claimed(row, e, n)
      BY <2>3, <3>1 DEF ApplyEvent
    <3>3. QED
      BY <3>2, <1>1, <1>3, <1>4, <1>6, <1>7 DEF NetworkRows, Claimed
  <2>4. CASE e.payload.action = "withdraw-claim"
    <3>1. new = Withdrawn(row)
      BY <2>4 DEF ApplyEvent
    <3>2. QED
      BY <3>1, <1>3, <1>4, <1>6, <1>7, ZenonT(30) DEF NetworkRows, Withdrawn
  <2>5. CASE e.payload.action = "revoke-group-link"
    <3>1. new = [row EXCEPT !.effective = IF row.claimed THEN row.group ELSE 0,
                            !.link = 0, !.related = NoDeployment]
      BY <2>5 DEF ApplyEvent
    <3>2. QED
      BY <3>1, <1>3, <1>4, <1>6, <1>7, ZenonT(30) DEF NetworkRows
  <2>6. CASE e.payload.action = "deactivate-deployment"
    <3>1. new = IF row.claimed THEN [Withdrawn(row) EXCEPT !.active = FALSE]
                ELSE [row EXCEPT !.active = FALSE]
      BY <2>6 DEF ApplyEvent
    <3>2. QED
      BY <3>1, <1>3, <1>4, <1>6, <1>7, ZenonT(30) DEF NetworkRows, Withdrawn
  <2>7. CASE e.payload.action = "reactivate-deployment"
    <3>1. new = [row EXCEPT !.active = TRUE]
      BY <2>7 DEF ApplyEvent
    <3>2. QED
      BY <3>1, <1>3, <1>4, <1>6, <1>7 DEF NetworkRows
  <2>8. CASE e.payload.action \in {"issue-client-token", "revoke-client-token"}
    <3>1. new = row
      BY <2>8 DEF ApplyEvent
    <3>2. QED
      BY <3>1, <1>3, <1>5
  <2>9. QED
    BY <2>1, <2>2, <2>3, <2>4, <2>5, <2>6, <2>7, <2>8, <1>1
       DEF NextEventRows, PayloadRows, OperatorActions
<1> HIDE DEF n, s, row, new
<1>9. /\ events' \in Seq(EventRows')
      /\ network' \in [Deployments -> NetworkRows']
      /\ reviews' \in Seq(ReviewRows') /\ decisions' \in Seq(DecisionRows')
      /\ clock' \in Times /\ transferredAt' \in Stamps
  <2>1. events \in Seq(EventRows') /\ reviews \in Seq(ReviewRows')
        /\ decisions \in Seq(DecisionRows')
    BY <1>5, SeqSubset DEF OperatorTypeOK
  <2>2. network \in [Deployments -> NetworkRows'] /\ clock \in Times /\ transferredAt \in Stamps
    BY <1>5 DEF OperatorTypeOK
  <2> HIDE DEF EventRows, NetworkRows, ReviewRows, DecisionRows
  <2>3. QED
    BY <2>1, <2>2, <1>1, <1>2, <1>4, <1>8
<1>10. nonces' \in [Deployments -> Seq(NonceRows')]
  <2>1. NonceRow(r, n) \in NonceRows'
    BY <1>1, <1>2, <1>3, RequestFacts DEF NonceRow, NonceRows, EventFor, NextEventRows
  <2>2. nonces \in [Deployments -> Seq(NonceRows')]
    BY <1>5, SeqSubset DEF OperatorTypeOK
  <2> HIDE DEF NonceRows, NonceRow
  <2>3. QED
    BY <2>1, <2>2, <1>2
<1>11. \/ /\ WritePendingClaim(e, n, e.company)
          /\ e.company \in Companies /\ e.group \in 1..n
       \/ WithdrawCurrentClaim(e)
       \/ KeepClaims
  <2>1. \A x \in Deployments : network[x].claimed => network[x].group \in DOMAIN events
    BY DEF ClaimRowsOK
  <2>2. ASSUME DerivedClaim(e) PROVE WritePendingClaim(e, n, e.company)
                                     /\ e.company \in Companies /\ e.group \in 1..n
    BY <2>1, <2>2, <1>1, <1>3 DEF DerivedClaim, n, s
  <2>3. ASSUME DerivedClaimCopy(e) PROVE WritePendingClaim(e, n, e.company)
                                         /\ e.company \in Companies /\ e.group \in 1..n
    BY <2>3, <1>3 DEF DerivedClaimCopy, DerivedRedemption, n
  <2>4. QED
    BY <2>2, <2>3, <1>1
       DEF DerivedEvent, DerivedWithdrawal, DerivedIssue, DerivedTokenRevocation,
           DerivedLink, DerivedLinkRevocation, DerivedDeactivation, DerivedReactivation
<1>12. /\ submissions' \subseteq SubmissionRows'
       /\ status' \in [Deployments -> StatusRows']
       /\ eligibility' \in [Deployments -> EligibilityRows']
  <2>1. /\ submissions \subseteq SubmissionRows'
        /\ status \in [Deployments -> StatusRows']
        /\ eligibility \in [Deployments -> EligibilityRows']
    BY <1>5 DEF OperatorTypeOK
  <2>2. CASE KeepClaims
    BY <2>1, <2>2 DEF KeepClaims
  <2>3. CASE WithdrawCurrentClaim(e)
    <3>1. /\ status[s] \in StatusRows' /\ eligibility[s] \in EligibilityRows'
          /\ e.at \in Stamps
      BY <2>1, <1>1, TimeAssumption DEF Times, Stamps
    <3>2. /\ [status[s] EXCEPT !.state = "withdrawn", !.updatedAt = e.at] \in StatusRows'
          /\ [eligibility[s] EXCEPT !.state = "inactive", !.updatedAt = e.at]
                \in EligibilityRows'
      BY <3>1 DEF StatusRows, EligibilityRows, VerificationStates, EligibilityStates
    <3>3. /\ status' = [status EXCEPT ![s] =
                [status[s] EXCEPT !.state = "withdrawn", !.updatedAt = e.at]]
          /\ eligibility' = [eligibility EXCEPT ![s] =
                [eligibility[s] EXCEPT !.state = "inactive", !.updatedAt = e.at]]
          /\ submissions' = submissions
      BY <2>1, <2>3, <1>1 DEF WithdrawCurrentClaim, s
    <3> HIDE DEF StatusRows, EligibilityRows, SubmissionRows
    <3>4. QED
      BY <2>1, <3>2, <3>3, <1>1
  <2>4. CASE WritePendingClaim(e, n, e.company) /\ e.company \in Companies /\ e.group \in 1..n
    <3>1. e.at \in Stamps /\ n \in Ids' /\ e.group \in Ids' /\ 0 \in 0..Len(reviews')
          /\ 0 \in 0..Len(decisions') /\ e.company \in AnyCompany /\ 0 \in Stamps
      BY <2>4, <1>1, <1>2, <1>3, <1>4, TimeAssumption DEF Times, Stamps
    <3>2. /\ [claim |-> n, group |-> e.group, company |-> e.company,
              state |-> "pending-review", submittedAt |-> e.at, review |-> 0,
              approvedAt |-> 0, updatedAt |-> e.at] \in StatusRows'
          /\ [claim |-> n, group |-> e.group, company |-> e.company,
              state |-> "inactive", review |-> 0, decision |-> 0, updatedAt |-> e.at]
                \in EligibilityRows'
          /\ [claim |-> n, deployment |-> d, group |-> e.group,
              company |-> e.company, at |-> e.at] \in SubmissionRows'
      BY <3>1, <2>4, <1>1, <1>2, <1>3
         DEF StatusRows, EligibilityRows, SubmissionRows, VerificationStates,
             EligibilityStates
    <3> HIDE DEF StatusRows, EligibilityRows, SubmissionRows
    <3>3. QED
      BY <2>1, <2>4, <3>2, <1>1 DEF WritePendingClaim
  <2>5. QED
    BY <2>2, <2>3, <2>4, <1>11
<1>13. QED
  BY <1>9, <1>10, <1>12 DEF OperatorTypeOK

(* An accepted action keeps the rows of each claim in accord.              *)
LEMMA EventKeepsClaims ==
    ASSUME OperatorTypeOK, ClaimRowsOK,
           NEW d \in Deployments, NEW r \in Requests(d), NEW at \in Times, NEW e,
           EventFor(r, at, e)
    PROVE  ClaimRowsOK'
<1> DEFINE n == Len(events) + 1
<1>1. /\ e.subject \in Deployments /\ e.deployment = d /\ DerivedEvent(e)
      /\ DOMAIN events = 1..Len(events) /\ Len(events) \in Nat
      /\ DOMAIN events' = 1..n
      /\ \A x \in Deployments : x # e.subject => network'[x] = network[x]
  BY EventTables, TableTypes DEF EventFor
<1>2. DOMAIN status = Deployments /\ DOMAIN eligibility = Deployments
  BY DEF OperatorTypeOK
<1> SUFFICES ASSUME NEW x \in Deployments
             PROVE  /\ network'[x].claimed <=>
                        status'[x].state \in {"pending-review", "approved", "rejected"}
                    /\ network'[x].claimed =>
                        /\ network'[x].active
                        /\ network'[x].state = "pending-review"
                        /\ network'[x].profile = status'[x].claim
                        /\ network'[x].group = status'[x].group
                        /\ network'[x].company = status'[x].company
                    /\ status'[x].state # "none" =>
                        /\ status'[x].claim \in 1..n
                        /\ status'[x].group \in 1..n
                        /\ status'[x].company \in Companies
                    /\ eligibility'[x].claim = status'[x].claim
                    /\ eligibility'[x].group = status'[x].group
                    /\ eligibility'[x].company = status'[x].company
  BY <1>1 DEF ClaimRowsOK
<1>3. /\ network[x].claimed <=> status[x].state \in {"pending-review", "approved", "rejected"}
      /\ network[x].claimed =>
            /\ network[x].active
            /\ network[x].state = "pending-review"
            /\ network[x].profile = status[x].claim
            /\ network[x].group = status[x].group
            /\ network[x].company = status[x].company
      /\ status[x].state # "none" =>
            /\ status[x].claim \in 1..n
            /\ status[x].group \in 1..n
            /\ status[x].company \in Companies
      /\ eligibility[x].claim = status[x].claim
      /\ eligibility[x].group = status[x].group
      /\ eligibility[x].company = status[x].company
  BY <1>1 DEF ClaimRowsOK
<1>4. CASE x # e.subject
  <2>1. network'[x] = network[x]
    BY <1>1, <1>4
  <2>2. CASE DerivedLinkRevocation(e)
    BY <2>1, <2>2, <1>3 DEF DerivedLinkRevocation, KeepClaims
  <2>3. CASE ~DerivedLinkRevocation(e)
    <3>1. e.subject = d
      BY <2>3, <1>1
         DEF DerivedEvent, DerivedClaim, DerivedWithdrawal, DerivedIssue, DerivedTokenRevocation,
             DerivedLink, DerivedClaimCopy, DerivedRedemption, DerivedDeactivation,
             DerivedReactivation
    <3>2. \/ WritePendingClaim(e, n, e.company)
          \/ WithdrawCurrentClaim(e)
          \/ KeepClaims
      BY <2>3, <1>1
         DEF DerivedEvent, DerivedClaim, DerivedWithdrawal, DerivedIssue, DerivedTokenRevocation,
             DerivedLink, DerivedClaimCopy, DerivedRedemption, DerivedDeactivation,
             DerivedReactivation
    <3>3. status'[x] = status[x] /\ eligibility'[x] = eligibility[x]
      BY <3>1, <3>2, <1>1, <1>2, <1>4 DEF WritePendingClaim, WithdrawCurrentClaim, KeepClaims
    <3>4. QED
      BY <2>1, <3>3, <1>3
  <2>4. QED
    BY <2>2, <2>3
<1>5. CASE x = e.subject
  <2>1. RowEffect(e, network[e.subject], network'[e.subject])
    BY EventRow
  <2>2. CASE DerivedClaim(e) \/ DerivedClaimCopy(e)
    <3>1. /\ e.subject = d /\ WritePendingClaim(e, n, e.company)
          /\ e.company \in Companies /\ e.group \in 1..n
      BY <2>2, <1>1, <1>3, <1>5
         DEF DerivedClaim, DerivedClaimCopy, DerivedRedemption
    <3>2. /\ network'[x].claimed = TRUE /\ network'[x].active = TRUE
          /\ network'[x].state = "pending-review"
          /\ network'[x].group = e.group /\ network'[x].company = e.company
          /\ network'[x].profile = n
      BY <2>2, <1>5, <2>1 DEF RowEffect
    <3>3. QED
      BY <3>1, <3>2, <1>1, <1>2, <1>5 DEF WritePendingClaim
  <2>3. CASE DerivedWithdrawal(e) \/ (DerivedDeactivation(e) /\ network[x].claimed)
    <3>1. WithdrawCurrentClaim(e) /\ network[x].claimed
      BY <2>3, <1>5 DEF DerivedWithdrawal, DerivedDeactivation
    <3>2. ~network'[x].claimed
      BY <2>3, <1>5, <2>1 DEF RowEffect
    <3>3. /\ status'[x] = [status[x] EXCEPT !.state = "withdrawn", !.updatedAt = e.at]
          /\ eligibility'[x] = [eligibility[x] EXCEPT !.state = "inactive",
                                                      !.updatedAt = e.at]
      BY <3>1, <1>1, <1>2, <1>5 DEF WithdrawCurrentClaim
    <3>4. /\ status'[x].state = "withdrawn" /\ status'[x].claim = status[x].claim
          /\ status'[x].group = status[x].group /\ status'[x].company = status[x].company
          /\ eligibility'[x].claim = eligibility[x].claim
          /\ eligibility'[x].group = eligibility[x].group
          /\ eligibility'[x].company = eligibility[x].company
      BY <3>3, TableTypes DEF StatusRows, EligibilityRows
    <3>5. QED
      BY <3>1, <3>2, <3>4, <1>3
  <2>4. CASE \/ DerivedIssue(e) \/ DerivedTokenRevocation(e) \/ DerivedLink(e)
             \/ DerivedLinkRevocation(e) \/ DerivedReactivation(e)
             \/ DerivedDeactivation(e) /\ ~network[x].claimed
    <3>1. KeepClaims
      BY <2>4, <1>5
         DEF DerivedIssue, DerivedTokenRevocation, DerivedLink, DerivedLinkRevocation,
             DerivedReactivation, DerivedDeactivation
    <3>2. network[x].claimed \in BOOLEAN /\ network[x].active \in BOOLEAN
      BY TableTypes DEF NetworkRows
    <3>3. CASE DerivedIssue(e) \/ DerivedTokenRevocation(e)
      <4>1. network'[x] = network[x]
        BY <3>3, <1>5, <2>1 DEF RowEffect
      <4>2. QED
        BY <4>1, <3>1, <1>3 DEF KeepClaims
    <3>4. CASE DerivedLink(e)
      <4>1. /\ network'[x].claimed = TRUE /\ network'[x].active = TRUE
            /\ network'[x].state = network[x].state /\ SameClaim(network[x], network'[x])
            /\ network[x].claimed
        BY <3>4, <1>5, <2>1 DEF RowEffect, DerivedLink
      <4>2. QED
        BY <4>1, <3>1, <3>2, <1>3 DEF KeepClaims, SameClaim
    <3>5. CASE DerivedLinkRevocation(e) \/ DerivedReactivation(e)
      <4>1. /\ network'[x].claimed = network[x].claimed
            /\ network[x].active => network'[x].active
            /\ network'[x].state = network[x].state /\ SameClaim(network[x], network'[x])
        BY <3>5, <1>5, <2>1 DEF RowEffect
      <4>2. QED
        BY <4>1, <3>1, <3>2, <1>3 DEF KeepClaims, SameClaim
    <3>6. CASE DerivedDeactivation(e) /\ ~network[x].claimed
      <4>1. network'[x].claimed = FALSE
        BY <3>6, <1>5, <2>1 DEF RowEffect
      <4>2. QED
        BY <4>1, <3>1, <3>6, <1>3 DEF KeepClaims
    <3>7. QED
      BY <2>4, <3>3, <3>4, <3>5, <3>6
  <2>5. QED
    BY <2>2, <2>3, <2>4, <1>1 DEF DerivedEvent
<1>6. QED
  BY <1>4, <1>5

(* A retry records its nonce and nothing else.                             *)
LEMMA DuplicateKeepsRows ==
    ASSUME OperatorTypeOK, ClaimRowsOK, NEW d \in Deployments, NEW r \in Requests(d),
           RecordDuplicate(r)
    PROVE  OperatorTypeOK' /\ ClaimRowsOK'
<1>1. UNCHANGED <<clock, events, network, submissions, status, eligibility, reviews,
                  decisions, transferredAt>>
  BY DEF RecordDuplicate
<1>2. ClaimRowsOK'
  BY <1>1 DEF ClaimRowsOK
<1>3. nonces' \in [Deployments -> Seq(NonceRows)]
  <2>1. PICK i \in EventsByKey(d, r.key) :
            /\ events[i].payload = r.payload
            /\ nonces' = [nonces EXCEPT ![d] = Append(@, NonceRow(r, i))]
    BY RequestFacts DEF RecordDuplicate
  <2>2. i \in DOMAIN events /\ events[i] \in EventRows
    BY <2>1, TableTypes DEF EventsByKey, EventsOf
  <2>3. NonceRow(r, i) \in NonceRows
    BY <2>1, <2>2, RequestFacts DEF NonceRow, NonceRows, EventRows
  <2>4. nonces \in [Deployments -> Seq(NonceRows)]
    BY DEF OperatorTypeOK
  <2> HIDE DEF NonceRow, NonceRows
  <2>5. QED
    BY <2>1, <2>3, <2>4
<1>4. QED
  BY <1>1, <1>2, <1>3
     DEF OperatorTypeOK, EventRows, NetworkRows, StatusRows, EligibilityRows,
         SubmissionRows, ReviewRows, DecisionRows, NonceRows, Ids

(* What an administrator's review writes: a row of the review chain, and   *)
(* the state of the claim it names in both current rows.                   *)
Reviewed(s, decision, at) ==
    LET d == s.deployment
        index == Len(reviews) + 1
        approved == decision = "approved"
    IN  /\ reviews' = Append(reviews, [claim |-> s.claim, deployment |-> d, group |-> s.group,
                                       company |-> s.company, decision |-> decision,
                                       at |-> at])
        /\ status' = [status EXCEPT ![d] =
                [@ EXCEPT !.state = decision, !.review = index,
                          !.approvedAt = IF approved THEN at ELSE 0, !.updatedAt = at]]
        /\ eligibility' = [eligibility EXCEPT ![d] =
                [@ EXCEPT !.state = IF approved THEN "active" ELSE "inactive",
                          !.review = IF approved THEN index ELSE 0,
                          !.decision = 0, !.updatedAt = at]]
        /\ UNCHANGED <<clock, events, nonces, network, submissions, decisions,
                       transferredAt>>

(* DecideOperatorClaim writes those rows.                                  *)
LEMMA ReviewEffect ==
    ASSUME OperatorTypeOK, NEW s \in submissions, NEW decision, NEW at,
           DecideOperatorClaim(s, decision, at)
    PROVE  Reviewed(s, decision, at)
<1>1. s.deployment \in Deployments
  BY DEF OperatorTypeOK, SubmissionRows
<1>2. DOMAIN status = Deployments /\ DOMAIN eligibility = Deployments
  BY DEF OperatorTypeOK
<1>3. QED
  BY <1>1, <1>2 DEF DecideOperatorClaim, Reviewed

(* An administrator's review keeps the types and the claim rows' accord:   *)
(* it is about the claim the status row holds.                             *)
LEMMA ReviewKeepsRows ==
    ASSUME OperatorTypeOK, ClaimRowsOK, NEW s \in submissions, NEW at \in Times,
           NEW decision \in {"approved", "rejected"}, DecideOperatorClaim(s, decision, at)
    PROVE  OperatorTypeOK' /\ ClaimRowsOK'
<1> DEFINE d == s.deployment
           index == Len(reviews) + 1
<1>1. /\ s \in SubmissionRows /\ d \in Deployments /\ s.claim \in DOMAIN events
      /\ s.group \in DOMAIN events /\ s.company \in Companies
  BY SMTT(30) DEF OperatorTypeOK, SubmissionRows
<1>2. /\ Reviewed(s, decision, at)
      /\ status[d].state = "pending-review"
      /\ UNCHANGED <<clock, events, nonces, network, submissions, decisions, transferredAt>>
  BY ReviewEffect DEF DecideOperatorClaim
<1>3. /\ status[d] \in StatusRows /\ eligibility[d] \in EligibilityRows
      /\ Len(reviews) \in Nat /\ Len(events) \in Nat /\ Len(decisions) \in Nat
      /\ DOMAIN events = 1..Len(events)
  BY <1>1, TableTypes
<1>4. reviews \in Seq(ReviewRows) /\ DOMAIN status = Deployments
      /\ DOMAIN eligibility = Deployments
  BY DEF OperatorTypeOK
<1>5. Len(reviews') = index
  <2> HIDE DEF ReviewRows
  <2>1. QED
    BY <1>2, <1>4 DEF Reviewed
<1>6. /\ EventRows \subseteq EventRows' /\ NetworkRows \subseteq NetworkRows'
      /\ StatusRows \subseteq StatusRows' /\ EligibilityRows \subseteq EligibilityRows'
      /\ SubmissionRows \subseteq SubmissionRows' /\ ReviewRows \subseteq ReviewRows'
      /\ DecisionRows \subseteq DecisionRows' /\ NonceRows \subseteq NonceRows'
  BY <1>2, <1>3, <1>5, RowsGrow
<1>7. at \in Stamps /\ 0 \in Stamps /\ index \in 0..Len(reviews') /\ 0 \in 0..Len(reviews')
      /\ 0 \in 0..Len(decisions')
  BY <1>2, <1>3, <1>5, TimeAssumption DEF Times, Stamps
<1> DEFINE st == [status[d] EXCEPT !.state = decision, !.review = index,
                    !.approvedAt = IF decision = "approved" THEN at ELSE 0, !.updatedAt = at]
           el == [eligibility[d] EXCEPT
                    !.state = IF decision = "approved" THEN "active" ELSE "inactive",
                    !.review = IF decision = "approved" THEN index ELSE 0,
                    !.decision = 0, !.updatedAt = at]
           rv == [claim |-> s.claim, deployment |-> d, group |-> s.group,
                  company |-> s.company, decision |-> decision, at |-> at]
<1>8. /\ status' = [status EXCEPT ![d] = st]
      /\ eligibility' = [eligibility EXCEPT ![d] = el]
      /\ reviews' = Append(reviews, rv)
  BY <1>2 DEF Reviewed
<1>9. st \in StatusRows'
  <2>1. status[d] \in StatusRows'
    BY <1>3, <1>6
  <2>2. QED
    BY <2>1, <1>7 DEF StatusRows, VerificationStates
<1>10. el \in EligibilityRows'
  <2>1. eligibility[d] \in EligibilityRows'
    BY <1>3, <1>6
  <2>2. QED
    BY <2>1, <1>7 DEF EligibilityRows, EligibilityStates
<1>11. rv \in ReviewRows'
  BY <1>1, <1>2 DEF ReviewRows
<1>12. /\ st.claim = status[d].claim /\ st.group = status[d].group
       /\ st.company = status[d].company /\ st.state = decision
       /\ el.claim = eligibility[d].claim /\ el.group = eligibility[d].group
       /\ el.company = eligibility[d].company
  BY <1>3 DEF StatusRows, EligibilityRows
<1> HIDE DEF st, el, rv, d, index
<1>13. OperatorTypeOK'
  <2>1. /\ events' \in Seq(EventRows') /\ reviews' \in Seq(ReviewRows')
        /\ decisions' \in Seq(DecisionRows')
    <3>1. /\ events \in Seq(EventRows') /\ reviews \in Seq(ReviewRows')
          /\ decisions \in Seq(DecisionRows')
      BY <1>6, SeqSubset DEF OperatorTypeOK
    <3> HIDE DEF EventRows, ReviewRows, DecisionRows
    <3>2. QED
      BY <3>1, <1>2, <1>8, <1>11
  <2>2. nonces' \in [Deployments -> Seq(NonceRows')]
    <3>1. nonces \in [Deployments -> Seq(NonceRows')]
      BY <1>6, SeqSubset DEF OperatorTypeOK
    <3>2. QED
      BY <3>1, <1>2
  <2>3. network' \in [Deployments -> NetworkRows'] /\ submissions' \subseteq SubmissionRows'
        /\ clock' \in Times /\ transferredAt' \in Stamps
    <3>1. network \in [Deployments -> NetworkRows'] /\ submissions \subseteq SubmissionRows'
          /\ clock \in Times /\ transferredAt \in Stamps
      BY <1>6 DEF OperatorTypeOK
    <3>2. QED
      BY <3>1, <1>2
  <2>4. /\ status' \in [Deployments -> StatusRows']
        /\ eligibility' \in [Deployments -> EligibilityRows']
    <3>1. /\ status \in [Deployments -> StatusRows']
          /\ eligibility \in [Deployments -> EligibilityRows']
      BY <1>6 DEF OperatorTypeOK
    <3> HIDE DEF StatusRows, EligibilityRows
    <3>2. QED
      BY <3>1, <1>1, <1>8, <1>9, <1>10
  <2>5. QED
    BY <2>1, <2>2, <2>3, <2>4 DEF OperatorTypeOK
<1>14. ClaimRowsOK'
  <2>1. \A x \in Deployments :
            /\ status'[x].claim = status[x].claim /\ status'[x].group = status[x].group
            /\ status'[x].company = status[x].company
            /\ eligibility'[x].claim = eligibility[x].claim
            /\ eligibility'[x].group = eligibility[x].group
            /\ eligibility'[x].company = eligibility[x].company
            /\ x # d => status'[x].state = status[x].state
    BY <1>4, <1>8, <1>12
  <2>2. status'[d].state = decision
    BY <1>1, <1>4, <1>8, <1>12
  <2>3. network[d].claimed /\ network' = network /\ events' = events
    BY <1>1, <1>2 DEF ClaimRowsOK
  <2>4. status[d].state # "none"
    BY <1>2
  <2>5. QED
    BY <1>1, <2>1, <2>2, <2>3, <2>4 DEF ClaimRowsOK
<1>15. QED
  BY <1>13, <1>14

(* What an eligibility decision writes: a row of the decision chain, and   *)
(* the state of the eligibility row of the claim it names.                 *)
DecidedEligibility(s, decision, at) ==
    LET d == s.deployment
    IN  /\ decisions' = Append(decisions,
                [claim |-> s.claim, deployment |-> d, group |-> s.group,
                 company |-> s.company, decision |-> decision, at |-> at])
        /\ eligibility' = [eligibility EXCEPT ![d] =
                [@ EXCEPT !.state = IF decision = "suspend" THEN "suspended" ELSE "active",
                          !.decision = Len(decisions) + 1, !.updatedAt = at]]
        /\ UNCHANGED <<clock, events, nonces, network, submissions, status, reviews,
                       transferredAt>>

(* DecideOperatorClaimEligibility writes those rows.                       *)
LEMMA DecisionEffect ==
    ASSUME OperatorTypeOK, NEW s \in submissions, NEW decision, NEW at,
           DecideOperatorClaimEligibility(s, decision, at)
    PROVE  DecidedEligibility(s, decision, at)
<1>1. s.deployment \in Deployments
  BY DEF OperatorTypeOK, SubmissionRows
<1>2. DOMAIN eligibility = Deployments
  BY DEF OperatorTypeOK
<1>3. QED
  BY <1>1, <1>2 DEF DecideOperatorClaimEligibility, DecidedEligibility

(* An eligibility decision keeps the types and the claim rows' accord.     *)
LEMMA DecisionKeepsRows ==
    ASSUME OperatorTypeOK, ClaimRowsOK, NEW s \in submissions, NEW at \in Times,
           NEW decision \in {"suspend", "reinstate"},
           DecideOperatorClaimEligibility(s, decision, at)
    PROVE  OperatorTypeOK' /\ ClaimRowsOK'
<1> DEFINE d == s.deployment
           index == Len(decisions) + 1
<1>1. /\ s \in SubmissionRows /\ d \in Deployments /\ s.claim \in DOMAIN events
      /\ s.group \in DOMAIN events /\ s.company \in Companies
  BY DEF OperatorTypeOK, SubmissionRows
<1>2. /\ DecidedEligibility(s, decision, at)
      /\ UNCHANGED <<clock, events, nonces, network, submissions, status, reviews,
                     transferredAt>>
  BY DecisionEffect DEF DecideOperatorClaimEligibility
<1>3. /\ eligibility[d] \in EligibilityRows
      /\ Len(reviews) \in Nat /\ Len(events) \in Nat /\ Len(decisions) \in Nat
      /\ DOMAIN events = 1..Len(events)
  BY <1>1, TableTypes
<1>4. decisions \in Seq(DecisionRows) /\ DOMAIN eligibility = Deployments
  BY DEF OperatorTypeOK
<1>5. Len(decisions') = index
  <2> HIDE DEF DecisionRows
  <2>1. QED
    BY <1>2, <1>4 DEF DecidedEligibility
<1>6. /\ EventRows \subseteq EventRows' /\ NetworkRows \subseteq NetworkRows'
      /\ StatusRows \subseteq StatusRows' /\ EligibilityRows \subseteq EligibilityRows'
      /\ SubmissionRows \subseteq SubmissionRows' /\ ReviewRows \subseteq ReviewRows'
      /\ DecisionRows \subseteq DecisionRows' /\ NonceRows \subseteq NonceRows'
  BY <1>2, <1>3, <1>5, RowsGrow
<1>7. at \in Stamps /\ index \in 0..Len(decisions')
  BY <1>3, <1>5, TimeAssumption DEF Times, Stamps
<1> DEFINE el == [eligibility[d] EXCEPT
                    !.state = IF decision = "suspend" THEN "suspended" ELSE "active",
                    !.decision = index, !.updatedAt = at]
           dc == [claim |-> s.claim, deployment |-> d, group |-> s.group,
                  company |-> s.company, decision |-> decision, at |-> at]
<1>8. /\ eligibility' = [eligibility EXCEPT ![d] = el]
      /\ decisions' = Append(decisions, dc)
  BY <1>2 DEF DecidedEligibility
<1>9. el \in EligibilityRows'
  <2>1. eligibility[d] \in EligibilityRows'
    BY <1>3, <1>6
  <2>2. QED
    BY <2>1, <1>7 DEF EligibilityRows, EligibilityStates
<1>10. dc \in DecisionRows'
  BY <1>1, <1>2 DEF DecisionRows
<1>11. /\ el.claim = eligibility[d].claim /\ el.group = eligibility[d].group
       /\ el.company = eligibility[d].company
  BY <1>3 DEF EligibilityRows
<1> HIDE DEF el, dc, d, index
<1>12. OperatorTypeOK'
  <2>1. /\ events' \in Seq(EventRows') /\ reviews' \in Seq(ReviewRows')
        /\ decisions' \in Seq(DecisionRows')
    <3>1. /\ events \in Seq(EventRows') /\ reviews \in Seq(ReviewRows')
          /\ decisions \in Seq(DecisionRows')
      BY <1>6, SeqSubset DEF OperatorTypeOK
    <3> HIDE DEF EventRows, ReviewRows, DecisionRows
    <3>2. QED
      BY <3>1, <1>2, <1>8, <1>10
  <2>2. nonces' \in [Deployments -> Seq(NonceRows')]
    <3>1. nonces \in [Deployments -> Seq(NonceRows')]
      BY <1>6, SeqSubset DEF OperatorTypeOK
    <3>2. QED
      BY <3>1, <1>2
  <2>3. network' \in [Deployments -> NetworkRows'] /\ submissions' \subseteq SubmissionRows'
        /\ status' \in [Deployments -> StatusRows']
        /\ clock' \in Times /\ transferredAt' \in Stamps
    <3>1. network \in [Deployments -> NetworkRows'] /\ submissions \subseteq SubmissionRows'
          /\ status \in [Deployments -> StatusRows']
          /\ clock \in Times /\ transferredAt \in Stamps
      BY <1>6 DEF OperatorTypeOK
    <3>2. QED
      BY <3>1, <1>2
  <2>4. eligibility' \in [Deployments -> EligibilityRows']
    <3>1. eligibility \in [Deployments -> EligibilityRows']
      BY <1>6 DEF OperatorTypeOK
    <3> HIDE DEF EligibilityRows
    <3>2. QED
      BY <3>1, <1>1, <1>8, <1>9
  <2>5. QED
    BY <2>1, <2>2, <2>3, <2>4 DEF OperatorTypeOK
<1>13. ClaimRowsOK'
  <2>1. \A x \in Deployments :
            /\ eligibility'[x].claim = eligibility[x].claim
            /\ eligibility'[x].group = eligibility[x].group
            /\ eligibility'[x].company = eligibility[x].company
    BY <1>4, <1>8, <1>11
  <2>2. network' = network /\ events' = events /\ status' = status
    BY <1>2
  <2>3. QED
    BY <2>1, <2>2 DEF ClaimRowsOK
<1>14. QED
  BY <1>12, <1>13

-----------------------------------------------------------------------------
(* Type correctness.                                                       *)

(* The steps that leave the operator tables alone: the clock's, and the    *)
(* completion of an ownership transfer.                                    *)
operatorTables ==
    <<events, nonces, network, submissions, status, eligibility, reviews, decisions>>

OperatorIdle ==
    /\ UNCHANGED operatorTables
    /\ clock' \in Times
    /\ transferredAt' \in Stamps

(* Such a step keeps the types and the claim rows' accord.                 *)
LEMMA IdleKeepsRows ==
    ASSUME OperatorTypeOK, ClaimRowsOK, OperatorIdle
    PROVE  OperatorTypeOK' /\ ClaimRowsOK'
<1>1. ClaimRowsOK'
  BY DEF OperatorIdle, operatorTables, ClaimRowsOK
<1>2. OperatorTypeOK'
  BY DEF OperatorIdle, operatorTables, OperatorTypeOK, EventRows, NetworkRows, StatusRows,
         EligibilityRows, SubmissionRows, ReviewRows, DecisionRows, NonceRows, Ids
<1>3. QED
  BY <1>1, <1>2

(* Every step of the operator network is one event, one nonce, one review, *)
(* one decision, or leaves the tables alone.                               *)
LEMMA StepCases ==
    ASSUME OperatorTypeOK, ClaimRowsOK, [OperatorNext]_operatorVars
    PROVE  \/ \E d \in Deployments : \E r \in Requests(d), at \in ClockReads :
                /\ ApplyOperatorAction(r, at)
                /\ \E e : EventFor(r, at, e)
           \/ \E d \in Deployments : \E r \in Requests(d) : RecordDuplicate(r)
           \/ \E s \in submissions, at \in ClockReads, decision \in {"approved", "rejected"} :
                DecideOperatorClaim(s, decision, at)
           \/ \E s \in submissions, at \in ClockReads, decision \in {"suspend", "reinstate"} :
                DecideOperatorClaimEligibility(s, decision, at)
           \/ OperatorIdle
<1>1. ClockReads \subseteq Times
  BY DEF ClockReads
<1>2. CASE OperatorStep
  <2>1. ASSUME NEW d \in Deployments, NEW r \in Requests(d), NEW at \in ClockReads,
               ApplyOperatorAction(r, at)
        PROVE  \E e : EventFor(r, at, e)
    BY <1>1, <2>1, ActionAppends
  <2>2. QED
    BY <1>2, <2>1 DEF OperatorStep, ReviewClaim, ReviewEligibility
<1>3. CASE Tick
  BY <1>3, TimeAssumption DEF Tick, OperatorIdle, operatorTables, OperatorTypeOK, Times
<1>4. CASE TransferCompletes
  BY <1>1, <1>4, TimeAssumption
     DEF TransferCompletes, OperatorIdle, operatorTables, OperatorTypeOK, Times, Stamps
<1>5. CASE UNCHANGED operatorVars
  BY <1>5 DEF operatorVars, OperatorIdle, operatorTables, OperatorTypeOK
<1>6. QED
  BY <1>2, <1>3, <1>4, <1>5 DEF OperatorNext

(* A step that appends no event leaves the events and the network rows.    *)
LEMMA EventOrNone ==
    ASSUME OperatorTypeOK, ClaimRowsOK, [OperatorNext]_operatorVars
    PROVE  \/ \E d \in Deployments : \E r \in Requests(d), at \in ClockReads, e \in NextEventRows :
                Fresh(r) /\ Extends(at) /\ EventFor(r, at, e)
           \/ UNCHANGED <<events, network, submissions>>
<1>1. ASSUME NEW d \in Deployments, NEW r \in Requests(d), NEW at \in ClockReads,
             ApplyOperatorAction(r, at), NEW e, EventFor(r, at, e)
      PROVE  Fresh(r) /\ Extends(at) /\ EventFor(r, at, e) /\ e \in NextEventRows
  BY <1>1 DEF ApplyOperatorAction, EventFor
<1>2. ASSUME NEW r, RecordDuplicate(r) PROVE UNCHANGED <<events, network, submissions>>
  BY <1>2 DEF RecordDuplicate
<1>3. ASSUME NEW s, NEW decision, NEW at, DecideOperatorClaim(s, decision, at)
      PROVE  UNCHANGED <<events, network, submissions>>
  BY <1>3 DEF DecideOperatorClaim
<1>4. ASSUME NEW s, NEW decision, NEW at, DecideOperatorClaimEligibility(s, decision, at)
      PROVE  UNCHANGED <<events, network, submissions>>
  BY <1>4 DEF DecideOperatorClaimEligibility
<1>5. OperatorIdle => UNCHANGED <<events, network, submissions>>
  BY DEF OperatorIdle, operatorTables
<1>6. QED
  BY <1>1, <1>2, <1>3, <1>4, <1>5, StepCases

(* Every step keeps the types and the claim rows' accord.                  *)
LEMMA RowsStep ==
    OperatorTypeOK /\ ClaimRowsOK /\ [OperatorNext]_operatorVars
        => OperatorTypeOK' /\ ClaimRowsOK'
<1> SUFFICES ASSUME OperatorTypeOK, ClaimRowsOK, [OperatorNext]_operatorVars
             PROVE  OperatorTypeOK' /\ ClaimRowsOK'
  OBVIOUS
<1>1. ClockReads \subseteq Times
  BY DEF ClockReads
<1>2. QED
  BY <1>1, StepCases, EventKeepsTypes, EventKeepsClaims, DuplicateKeepsRows,
     ReviewKeepsRows, DecisionKeepsRows, IdleKeepsRows

(* The empty tables have their types.                                      *)
LEMMA RowsInit == OperatorInit => OperatorTypeOK /\ ClaimRowsOK
<1> SUFFICES ASSUME OperatorInit PROVE OperatorTypeOK /\ ClaimRowsOK
  OBVIOUS
<1>1. /\ events = <<>> /\ reviews = <<>> /\ decisions = <<>> /\ Len(events) = 0
      /\ Len(reviews) = 0 /\ Len(decisions) = 0 /\ 0 \in Ids
  BY DEF OperatorInit, Ids
<1>2. /\ InitialRow \in NetworkRows /\ NoStatus \in StatusRows
      /\ NoEligibility \in EligibilityRows
  BY <1>1, TimeAssumption
     DEF InitialRow, NetworkRows, NoStatus, StatusRows, NoEligibility, EligibilityRows,
         AnyCompany, AnyDeployment, ClaimStates, Stamps
<1>3. OperatorTypeOK
  BY <1>1, <1>2, TimeAssumption DEF OperatorInit, OperatorTypeOK, Times, Stamps
<1>4. ClaimRowsOK
  BY DEF OperatorInit, ClaimRowsOK, InitialRow, NoStatus, NoEligibility
<1>5. QED
  BY <1>3, <1>4

(* Every reachable database has rows of the tables' types, and a claimed   *)
(* deployment's three rows are about one claim generation.                 *)
THEOREM OperatorTypesHold == OperatorSpec => [](OperatorTypeOK /\ ClaimRowsOK)
<1>1. OperatorInit => OperatorTypeOK /\ ClaimRowsOK
  BY RowsInit
<1>2. OperatorTypeOK /\ ClaimRowsOK /\ [OperatorNext]_operatorVars
        => (OperatorTypeOK /\ ClaimRowsOK)'
  BY RowsStep
<1>3. QED
  BY <1>1, <1>2, PTL DEF OperatorSpec

-----------------------------------------------------------------------------
(* Client tokens.                                                          *)

(* An issue is named by its own index, and what spends a token comes after *)
(* the issue.                                                              *)
TokensIssued ==
    \A i \in DOMAIN events :
        /\ events[i].payload.action = "issue-client-token" => events[i].token = i
        /\ events[i].payload.action \in {"revoke-client-token", "redeem-client-token"} =>
            /\ events[i].token \in 1..(i - 1)
            /\ events[events[i].token].payload.action = "issue-client-token"

TokenInv == TokensIssued /\ TokensSpentOnce

(* An event keeps the tokens' rules: activeClientTokenTx looks at every    *)
(* earlier use of the token, and the idempotency key is new.               *)
LEMMA EventKeepsTokens ==
    ASSUME OperatorTypeOK, TokenInv,
           NEW d \in Deployments, NEW r \in Requests(d), NEW at, NEW e,
           EventFor(r, at, e), Fresh(r)
    PROVE  TokenInv'
<1> DEFINE n == Len(events) + 1
<1>1. /\ DOMAIN events = 1..Len(events) /\ Len(events) \in Nat
      /\ DOMAIN events' = 1..n
      /\ \A i \in DOMAIN events : events'[i] = events[i]
      /\ events'[n] = e /\ e.deployment = d /\ DerivedEvent(e)
  BY EventTables, TableTypes DEF EventFor
<1>2. \A i \in DOMAIN events' : i \in DOMAIN events \/ i = n
  BY <1>1
<1>3. \A i \in DOMAIN events : i < n /\ i \in Nat
  BY <1>1
<1>4. e.payload.action = "issue-client-token" => e.token = n
  BY <1>1 DEF DerivedEvent, DerivedClaim, DerivedWithdrawal, DerivedIssue, DerivedTokenRevocation,
             DerivedLink, DerivedClaimCopy, DerivedRedemption, DerivedLinkRevocation,
             DerivedDeactivation, DerivedReactivation
<1>5. e.payload.action \in {"revoke-client-token", "redeem-client-token"}
        => ActiveClientToken(e.token, e.payload.action = "redeem-client-token", e.at)
  BY <1>1 DEF DerivedEvent, DerivedClaim, DerivedWithdrawal, DerivedIssue, DerivedTokenRevocation,
             DerivedLink, DerivedClaimCopy, DerivedRedemption, DerivedLinkRevocation,
             DerivedDeactivation, DerivedReactivation, MayRedeem, ActiveClientToken
<1>6. TokensIssued'
  <2>1. \A i \in DOMAIN events :
            /\ events'[i].payload.action = "issue-client-token" => events'[i].token = i
            /\ events'[i].payload.action \in {"revoke-client-token", "redeem-client-token"} =>
                /\ events'[i].token \in 1..(i - 1)
                /\ events'[events'[i].token].payload.action = "issue-client-token"
    <3> SUFFICES ASSUME NEW i \in DOMAIN events
                 PROVE  /\ events[i].payload.action = "issue-client-token"
                            => events[i].token = i
                        /\ events[i].payload.action \in
                                {"revoke-client-token", "redeem-client-token"} =>
                            /\ events[i].token \in 1..(i - 1)
                            /\ events'[events[i].token].payload.action
                                    = "issue-client-token"
      BY <1>1
    <3>1. 1..(i - 1) \subseteq DOMAIN events
      BY <1>1
    <3>2. QED
      BY <3>1, <1>1 DEF TokenInv, TokensIssued
  <2>2. e.payload.action \in {"revoke-client-token", "redeem-client-token"} =>
            /\ e.token \in 1..(n - 1)
            /\ events'[e.token].payload.action = "issue-client-token"
    BY <1>1, <1>5 DEF ActiveClientToken
  <2>3. QED
    BY <2>1, <2>2, <1>1, <1>2, <1>4 DEF TokensIssued
<1>7. \A i \in DOMAIN events :
        /\ events[i].payload.action = "redeem-client-token"
        /\ events[i].token = e.token
        => e.payload.action # "redeem-client-token"
  <2> SUFFICES ASSUME NEW i \in DOMAIN events,
                      events[i].payload.action = "redeem-client-token",
                      events[i].token = e.token, e.payload.action = "redeem-client-token"
               PROVE  FALSE
    OBVIOUS
  <2>1. ~TokenRedeemed(e.token)
    BY <1>5 DEF ActiveClientToken
  <2>2. i > e.token
    BY <1>1 DEF TokenInv, TokensIssued
  <2>3. QED
    BY <2>1, <2>2 DEF TokenRedeemed, Later
<1>8. \A j \in DOMAIN events :
        /\ events[j].payload.action = "revoke-client-token"
        /\ events[j].token = e.token
        => e.payload.action # "redeem-client-token"
  <2> SUFFICES ASSUME NEW j \in DOMAIN events,
                      events[j].payload.action = "revoke-client-token",
                      events[j].token = e.token, e.payload.action = "redeem-client-token"
               PROVE  FALSE
    OBVIOUS
  <2>1. ~TokenRevoked(e.token)
    BY <1>5 DEF ActiveClientToken
  <2>2. j > e.token
    BY <1>1 DEF TokenInv, TokensIssued
  <2>3. QED
    BY <2>1, <2>2 DEF TokenRevoked, Later
<1>9. \A i \in DOMAIN events :
        ~(events[i].deployment = e.deployment /\ events[i].key = e.key)
  BY <1>1, RequestFacts DEF EventFor, Fresh, EventsByKey, EventsOf
<1>10. \A i \in DOMAIN events' : events'[i].payload.action = "redeem-client-token" =>
            events'[i].at < events'[events'[i].token].expires
  <2>1. ASSUME NEW i \in DOMAIN events, events[i].payload.action = "redeem-client-token"
        PROVE  events[i].at < events'[events[i].token].expires
    <3>1. events[i].token \in 1..(i - 1) /\ 1..(i - 1) \subseteq DOMAIN events
      BY <2>1, <1>1 DEF TokenInv, TokensIssued
    <3>2. events[i].at < events[events[i].token].expires
      BY <2>1 DEF TokenInv, TokensSpentOnce
    <3>3. QED
      BY <3>1, <3>2, <1>1
  <2>2. e.payload.action = "redeem-client-token" => e.at < events'[e.token].expires
    BY <1>1, <1>5 DEF ActiveClientToken
  <2>3. QED
    BY <2>1, <2>2, <1>1, <1>2
<1>11. \A i, j \in DOMAIN events' :
            /\ events'[i].payload.action = "redeem-client-token"
            /\ events'[j].payload.action = "revoke-client-token"
            /\ events'[j].token = events'[i].token
            => i < j
  BY <1>1, <1>2, <1>3, <1>8 DEF TokenInv, TokensSpentOnce
<1>12. \A i, j \in DOMAIN events' :
            /\ events'[i].payload.action = "redeem-client-token"
            /\ events'[j].payload.action = "redeem-client-token"
            /\ events'[i].token = events'[j].token
            => i = j
  BY <1>1, <1>2, <1>7 DEF TokenInv, TokensSpentOnce
<1>13. \A i, j \in DOMAIN events' :
            events'[i].deployment = events'[j].deployment /\ events'[i].key = events'[j].key
            => i = j
  BY <1>1, <1>2, <1>9 DEF TokenInv, TokensSpentOnce
<1>14. TokensSpentOnce'
  BY <1>10, <1>11, <1>12, <1>13 DEF TokensSpentOnce
<1>15. QED
  BY <1>6, <1>14 DEF TokenInv

(* Steps without an event leave the tokens as they are.                    *)
LEMMA TokensStep ==
    OperatorTypeOK /\ ClaimRowsOK /\ TokenInv /\ [OperatorNext]_operatorVars => TokenInv'
<1> SUFFICES ASSUME OperatorTypeOK, ClaimRowsOK, TokenInv, [OperatorNext]_operatorVars
             PROVE  TokenInv'
  OBVIOUS
<1>1. ASSUME events' = events PROVE TokenInv'
  BY <1>1 DEF TokenInv, TokensIssued, TokensSpentOnce
<1>2. QED
  BY <1>1, EventOrNone, EventKeepsTokens

(* A client token is redeemed at most once, before its expiry and before   *)
(* any revocation, and retries leave one event (AppendOperatorAction).     *)
THEOREM TokensSpentOnceHolds == OperatorSpec => []TokensSpentOnce
<1>1. OperatorInit => TokenInv
  BY DEF OperatorInit, TokenInv, TokensIssued, TokensSpentOnce
<1>2. OperatorTypeOK /\ ClaimRowsOK /\ TokenInv /\ [OperatorNext]_operatorVars => TokenInv'
  BY TokensStep
<1>3. TokenInv => TokensSpentOnce
  BY DEF TokenInv
<1>4. QED
  BY <1>1, <1>2, <1>3, OperatorTypesHold, PTL DEF OperatorSpec

-----------------------------------------------------------------------------
(* Group links.                                                            *)

(* MembershipTraceable for the row of one deployment.                      *)
TraceableRow(d, row) ==
    IF row.link = 0
    THEN row.effective = IF row.claimed THEN row.group ELSE 0
    ELSE /\ row.claimed
         /\ ActiveOperatorLink(row.link)
         /\ events[row.link].subject = d
         /\ events[row.link].group = row.effective
         /\ events[row.link].related = row.related

(* An event keeps every membership traceable: a link is revoked together   *)
(* with the row of the deployment that redeemed it.                        *)
LEMMA EventKeepsMembership ==
    ASSUME OperatorTypeOK, ClaimRowsOK, MembershipTraceable,
           NEW d \in Deployments, NEW r \in Requests(d), NEW at, NEW e,
           EventFor(r, at, e)
    PROVE  MembershipTraceable'
<1> DEFINE n == Len(events) + 1
<1>1. /\ DOMAIN events = 1..Len(events) /\ Len(events) \in Nat
      /\ DOMAIN events' = 1..n
      /\ \A i \in DOMAIN events : events'[i] = events[i]
      /\ events'[n] = e /\ e.deployment = d /\ DerivedEvent(e) /\ e.subject \in Deployments
      /\ \A x \in Deployments : x # e.subject => network'[x] = network[x]
  BY EventTables, TableTypes DEF EventFor
<1>2. ASSUME NEW l \in DOMAIN events, ActiveOperatorLink(l),
             ~(e.payload.action = "revoke-group-link" /\ e.link = l)
      PROVE  ActiveOperatorLink(l)'
  BY <1>1, <1>2 DEF ActiveOperatorLink, Later
<1>3. e.payload.action = "revoke-group-link"
        => e.link \in DOMAIN events /\ e.subject = events[e.link].subject
  BY <1>1 DEF DerivedEvent, DerivedClaim, DerivedWithdrawal, DerivedIssue, DerivedTokenRevocation,
             DerivedLink, DerivedClaimCopy, DerivedRedemption, DerivedLinkRevocation,
             DerivedDeactivation, DerivedReactivation
<1>4. ASSUME NEW x \in Deployments,
             ~(e.payload.action = "revoke-group-link" /\ x = e.subject)
      PROVE  TraceableRow(x, network[x])'
               \/ network'[x] # network[x]
  <2> SUFFICES ASSUME network'[x] = network[x] PROVE TraceableRow(x, network[x])'
    OBVIOUS
  <2>1. TraceableRow(x, network[x])
    BY DEF MembershipTraceable, TraceableRow
  <2>2. CASE network[x].link = 0
    BY <2>1, <2>2 DEF TraceableRow
  <2>3. CASE network[x].link # 0
    <3>1. /\ network[x].link \in DOMAIN events /\ ActiveOperatorLink(network[x].link)
          /\ events[network[x].link].subject = x
      BY <2>1, <2>3 DEF TraceableRow, ActiveOperatorLink
    <3>2. ActiveOperatorLink(network[x].link)'
      BY <3>1, <1>2, <1>3, <1>4
    <3>3. QED
      BY <2>1, <2>3, <3>1, <3>2, <1>1 DEF TraceableRow
  <2>4. QED
    BY <2>2, <2>3
<1>5. RowEffect(e, network[e.subject], network'[e.subject])
  BY EventRow
<1>6. TraceableRow(e.subject, network[e.subject])
  BY <1>1 DEF MembershipTraceable, TraceableRow
<1>7. TraceableRow(e.subject, network[e.subject])'
  <2>1. CASE DerivedClaim(e) \/ DerivedClaimCopy(e)
    BY <2>1, <1>5 DEF RowEffect, TraceableRow
  <2>2. CASE DerivedWithdrawal(e)
    BY <2>2, <1>5 DEF RowEffect, TraceableRow
  <2>3. CASE DerivedIssue(e) \/ DerivedTokenRevocation(e)
    <3>1. network'[e.subject] = network[e.subject]
      BY <2>3, <1>5 DEF RowEffect
    <3>2. e.payload.action # "revoke-group-link"
      BY <2>3 DEF DerivedIssue, DerivedTokenRevocation
    <3>3. QED
      BY <3>1, <3>2, <1>1, <1>4
  <2>4. CASE DerivedLink(e)
    <3>1. /\ network'[e.subject].claimed = TRUE /\ network'[e.subject].effective = e.group
          /\ network'[e.subject].link = n /\ network'[e.subject].related = e.related
      BY <2>4, <1>5 DEF RowEffect
    <3>2. e.link = n /\ e.payload.action = "redeem-client-token"
      BY <2>4 DEF DerivedLink, DerivedRedemption
    <3>3. PICK m : m = n
      OBVIOUS
    <3>4. ActiveOperatorLink(m)'
      <4>1. m \in DOMAIN events' /\ events'[m] = e /\ \A j \in DOMAIN events' : ~(j > m)
        BY <3>3, <1>1
      <4>2. QED
        BY <4>1, <3>2, <3>3 DEF ActiveOperatorLink, Later
    <3>5. network'[e.subject].link = m /\ m # 0 /\ events'[m] = e
      BY <3>1, <3>3, <1>1
    <3>6. QED
      BY <3>1, <3>4, <3>5 DEF TraceableRow
  <2>5. CASE DerivedLinkRevocation(e)
    BY <2>5, <1>5 DEF RowEffect, TraceableRow, SameClaim
  <2>6. CASE DerivedDeactivation(e)
    BY <2>6, <1>5, <1>6 DEF RowEffect, TraceableRow, SameClaim
  <2>7. CASE DerivedReactivation(e)
    <3>1. ~network[e.subject].claimed
      BY <2>7, <1>1 DEF DerivedReactivation, ClaimRowsOK
    <3>2. QED
      BY <2>7, <3>1, <1>5, <1>6 DEF RowEffect, TraceableRow, SameClaim
  <2>8. QED
    BY <2>1, <2>2, <2>3, <2>4, <2>5, <2>6, <2>7, <1>1 DEF DerivedEvent
<1>8. QED
  BY <1>1, <1>4, <1>7 DEF MembershipTraceable, TraceableRow

(* A deployment acts in the group of its own claim or of a link it         *)
(* redeemed, which nobody has revoked since.                               *)
THEOREM MembershipTraceableHolds == OperatorSpec => []MembershipTraceable
<1>1. OperatorInit => MembershipTraceable
  <2>1. InitialRow.link = 0 /\ InitialRow.effective = 0 /\ ~InitialRow.claimed
    BY DEF InitialRow
  <2>2. OperatorInit => \A d \in Deployments : network[d] = InitialRow
    BY DEF OperatorInit
  <2>3. QED
    BY <2>1, <2>2 DEF MembershipTraceable
<1>2. ASSUME OperatorTypeOK, ClaimRowsOK, MembershipTraceable, [OperatorNext]_operatorVars
      PROVE  MembershipTraceable'
  <2>1. ASSUME UNCHANGED <<events, network, submissions>> PROVE MembershipTraceable'
    BY <1>2, <2>1 DEF MembershipTraceable, ActiveOperatorLink, Later
  <2>2. QED
    BY <1>2, <2>1, EventOrNone, EventKeepsMembership
<1>3. QED
  BY <1>1, <1>2, OperatorTypesHold, PTL DEF OperatorSpec

-----------------------------------------------------------------------------
(* Approvals.                                                              *)

(* An approved status row has a review that approved its claim.            *)
ApprovedOnReview ==
    \A d \in Deployments : status[d].state = "approved" =>
        \E k \in DOMAIN reviews :
            /\ reviews[k].claim = status[d].claim
            /\ reviews[k].company = status[d].company
            /\ reviews[k].decision = "approved"

(* Only a review approves, and it approves the claim of the status row.    *)
LEMMA ApprovalStep ==
    OperatorTypeOK /\ ClaimRowsOK /\ ApprovedOnReview /\ [OperatorNext]_operatorVars
        => ApprovedOnReview'
<1> SUFFICES ASSUME OperatorTypeOK, ClaimRowsOK, ApprovedOnReview,
                    [OperatorNext]_operatorVars
             PROVE  ApprovedOnReview'
  OBVIOUS
<1>1. ASSUME NEW d \in Deployments, NEW r \in Requests(d), NEW at \in ClockReads,
             NEW e, EventFor(r, at, e)
      PROVE  ApprovedOnReview'
  <2>1. e.deployment = d /\ e.subject \in Deployments /\ DerivedEvent(e) /\ reviews' = reviews
    BY <1>1, EventTables DEF EventFor
  <2>2. \/ WritePendingClaim(e, Len(events) + 1, e.company)
        \/ WithdrawCurrentClaim(e)
        \/ KeepClaims
    BY <2>1
       DEF DerivedEvent, DerivedClaim, DerivedWithdrawal, DerivedIssue, DerivedTokenRevocation,
           DerivedLink, DerivedClaimCopy, DerivedRedemption, DerivedLinkRevocation,
           DerivedDeactivation, DerivedReactivation
  <2>3. \A x \in Deployments : status'[x] = status[x] \/ status'[x].state # "approved"
    <3>1. DOMAIN status = Deployments /\ status[e.subject] \in StatusRows
      BY <2>1, TableTypes, SMTT(30) DEF OperatorTypeOK
    <3>2. QED
      BY <2>1, <2>2, <3>1 DEF WritePendingClaim, WithdrawCurrentClaim, KeepClaims, StatusRows
  <2>4. QED
    BY <2>1, <2>3 DEF ApprovedOnReview
<1>2. ASSUME NEW s \in submissions, NEW at \in ClockReads,
             NEW decision \in {"approved", "rejected"}, DecideOperatorClaim(s, decision, at)
      PROVE  ApprovedOnReview'
  <2> DEFINE d == s.deployment
             rv == [claim |-> s.claim, deployment |-> d, group |-> s.group,
                    company |-> s.company, decision |-> decision, at |-> at]
  <2>1. /\ reviews' = Append(reviews, rv)
        /\ s.deployment \in Deployments /\ IsCurrentClaim(s)
        /\ status' = [status EXCEPT ![d] =
                [@ EXCEPT !.state = decision, !.review = Len(reviews) + 1,
                          !.approvedAt = IF decision = "approved" THEN at ELSE 0,
                          !.updatedAt = at]]
    BY <1>2, ReviewEffect
       DEF Reviewed, DecideOperatorClaim, OperatorTypeOK, SubmissionRows
  <2>2. /\ Len(reviews) \in Nat /\ DOMAIN reviews = 1..Len(reviews)
        /\ DOMAIN reviews' = 1..(Len(reviews) + 1)
        /\ \A k \in DOMAIN reviews : reviews'[k] = reviews[k]
        /\ reviews'[Len(reviews) + 1] = rv
    <3>1. reviews \in Seq(ReviewRows)
      BY DEF OperatorTypeOK
    <3> HIDE DEF ReviewRows, rv
    <3>2. QED
      BY <2>1, <3>1
  <2>3. /\ status'[d].claim = s.claim /\ status'[d].company = s.company
        /\ status'[d].state = decision
        /\ \A x \in Deployments : x # d => status'[x] = status[x]
    BY <2>1, TableTypes DEF StatusRows, IsCurrentClaim, OperatorTypeOK
  <2>4. ASSUME NEW x \in Deployments, status'[x].state = "approved"
        PROVE  \E k \in DOMAIN reviews' :
                    /\ reviews'[k].claim = status'[x].claim
                    /\ reviews'[k].company = status'[x].company
                    /\ reviews'[k].decision = "approved"
    <3>1. CASE x = d
      <4>1. Len(reviews) + 1 \in DOMAIN reviews'
        BY <2>2
      <4>2. QED
        BY <4>1, <3>1, <2>2, <2>3, <2>4
    <3>2. CASE x # d
      <4>1. PICK k \in DOMAIN reviews : /\ reviews[k].claim = status[x].claim
                                        /\ reviews[k].company = status[x].company
                                        /\ reviews[k].decision = "approved"
        BY <3>2, <2>3, <2>4 DEF ApprovedOnReview
      <4>2. k \in DOMAIN reviews' /\ reviews'[k] = reviews[k] /\ status'[x] = status[x]
        BY <4>1, <3>2, <2>2, <2>3
      <4>3. QED
        BY <4>1, <4>2
    <3>3. QED
      BY <3>1, <3>2
  <2>5. QED
    BY <2>4, SMTT(30) DEF ApprovedOnReview
<1>3. ASSUME UNCHANGED <<status, reviews>> PROVE ApprovedOnReview'
  BY <1>3 DEF ApprovedOnReview
<1>4. ASSUME NEW r, RecordDuplicate(r) PROVE UNCHANGED <<status, reviews>>
  BY <1>4 DEF RecordDuplicate
<1>5. ASSUME NEW s, NEW decision, NEW at, DecideOperatorClaimEligibility(s, decision, at)
      PROVE  UNCHANGED <<status, reviews>>
  BY <1>5 DEF DecideOperatorClaimEligibility
<1>6. OperatorIdle => UNCHANGED <<status, reviews>>
  BY DEF OperatorIdle, operatorTables
<1>7. QED
  BY <1>1, <1>2, <1>3, <1>4, <1>5, <1>6, StepCases

(* An approved claim is the newest of an active deployment that has not    *)
(* withdrawn it, approved as it stands.                                    *)
THEOREM ApprovalIsCurrentHolds == OperatorSpec => []ApprovalIsCurrent
<1>1. OperatorInit => ApprovedOnReview
  BY DEF OperatorInit, ApprovedOnReview, NoStatus
<1>2. OperatorTypeOK /\ ClaimRowsOK /\ ApprovedOnReview /\ [OperatorNext]_operatorVars
        => ApprovedOnReview'
  BY ApprovalStep
<1>3. ClaimRowsOK /\ ApprovedOnReview => ApprovalIsCurrent
  BY DEF ClaimRowsOK, ApprovedOnReview, ApprovalIsCurrent
<1>4. QED
  BY <1>1, <1>2, <1>3, OperatorTypesHold, PTL DEF OperatorSpec

-----------------------------------------------------------------------------
(* The complete audit.  Every database the operator network reaches passes *)
(* VerifyOperatorNetwork but for the audit's search for an event that had  *)
(* superseded the claim of an eligibility decision.                        *)

(* The event chain and the private submissions.                            *)

(* Only a revocation of a group link is about another deployment, and a    *)
(* redemption makes a claim or a link.                                     *)
EventSubjects ==
    \A i \in DOMAIN events :
        /\ events[i].payload.action # "revoke-group-link"
            => events[i].subject = events[i].deployment
        /\ events[i].payload.action = "redeem-client-token"
            => DerivesClaim(events[i]) \/ events[i].link = i

EventsAudited == VerifyOperatorAuditEvents /\ EventSubjects

(* The events that make a claim are those that write a submission.         *)
LEMMA ClaimingEvents ==
    ASSUME NEW e, DerivedEvent(e)
    PROVE  e.payload.action = "claim" \/ DerivesClaim(e)
            <=> DerivedClaim(e) \/ DerivedClaimCopy(e)
<1>1. ASSUME DerivedClaimCopy(e) PROVE DerivesClaim(e)
  BY <1>1, NoneAssumption DEF DerivedClaimCopy, DerivedRedemption, DerivesClaim
<1>2. ASSUME DerivedLink(e) PROVE ~DerivesClaim(e) /\ e.payload.action # "claim"
  BY <1>2 DEF DerivedLink, DerivedRedemption, DerivesClaim
<1>3. DerivedClaim(e) => e.payload.action = "claim"
  BY DEF DerivedClaim
<1>4. ASSUME \/ DerivedWithdrawal(e) \/ DerivedIssue(e) \/ DerivedTokenRevocation(e)
             \/ DerivedLinkRevocation(e) \/ DerivedDeactivation(e) \/ DerivedReactivation(e)
      PROVE  e.payload.action \notin {"claim", "redeem-client-token"}
  BY <1>4 DEF DerivedWithdrawal, DerivedIssue, DerivedTokenRevocation,
             DerivedLinkRevocation, DerivedDeactivation, DerivedReactivation
<1>5. QED
  BY <1>1, <1>2, <1>3, <1>4 DEF DerivedEvent, DerivesClaim

(* What an event adds to the chain and to the submissions.                 *)
LEMMA EventKeepsAudit ==
    ASSUME OperatorTypeOK, EventsAudited,
           NEW d \in Deployments, NEW r \in Requests(d), NEW at, NEW e,
           EventFor(r, at, e), Extends(at)
    PROVE  EventsAudited'
<1> DEFINE n == Len(events) + 1
           structured == {j \in DOMAIN events : IsStructuredClaim(j)}
<1>1. /\ DOMAIN events = 1..Len(events) /\ Len(events) \in Nat
      /\ Len(events') = n /\ DOMAIN events' = 1..n
      /\ \A i \in DOMAIN events : events'[i] = events[i]
      /\ events'[n] = e /\ e.deployment = d /\ e.at = at /\ DerivedEvent(e)
  BY EventTables, TableTypes DEF EventFor
<1>2. \A i \in DOMAIN events' : i \in DOMAIN events \/ i = n
  BY <1>1
<1>3. \A i \in 2..n : events'[i - 1].at <= events'[i].at
  <2>1. ASSUME NEW i \in 2..n, i # n PROVE events'[i - 1].at <= events'[i].at
    <3>1. i \in 2..Len(events) /\ i \in DOMAIN events /\ i - 1 \in DOMAIN events
      BY <1>1, <2>1
    <3>2. QED
      BY <3>1, <1>1 DEF EventsAudited, VerifyOperatorAuditEvents
  <2>2. ASSUME n \in 2..n PROVE events'[n - 1].at <= events'[n].at
    <3>1. events # <<>> /\ n - 1 = Len(events) /\ n - 1 \in DOMAIN events
      BY <1>1, <2>2
    <3>2. QED
      BY <3>1, <1>1 DEF Extends, HeadAt
  <2>3. QED
    BY <2>1, <2>2
<1>4. /\ \A i \in DOMAIN events : IsStructuredClaim(i)' <=> IsStructuredClaim(i)
      /\ \A i \in DOMAIN events : SubmissionOf(i)' = SubmissionOf(i)
  BY <1>1 DEF IsStructuredClaim, SubmissionOf
<1>5. PICK m : m = n
  OBVIOUS
<1>6. IsStructuredClaim(m)' <=> DerivedClaim(e) \/ DerivedClaimCopy(e)
  BY <1>1, <1>5, ClaimingEvents DEF IsStructuredClaim
<1>7. SubmissionOf(m)' = [claim |-> n, deployment |-> e.deployment, group |-> e.group,
                          company |-> e.company, at |-> e.at]
  BY <1>1, <1>5 DEF SubmissionOf
<1>8. submissions' = {SubmissionOf(i)' : i \in {j \in DOMAIN events' : IsStructuredClaim(j)'}}
  <2>1. submissions = {SubmissionOf(i) : i \in structured}
    BY DEF EventsAudited, VerifyOperatorAuditEvents
  <2>2. CASE DerivedClaim(e) \/ DerivedClaimCopy(e)
    <3>1. submissions' = submissions \cup {SubmissionOf(m)'}
      BY <2>2, <1>7 DEF DerivedClaim, DerivedClaimCopy, WritePendingClaim
    <3>2. {j \in DOMAIN events' : IsStructuredClaim(j)'} = structured \cup {m}
      BY <2>2, <1>1, <1>2, <1>4, <1>5, <1>6
    <3>3. QED
      BY <2>1, <3>1, <3>2, <1>4
  <2>3. CASE ~(DerivedClaim(e) \/ DerivedClaimCopy(e))
    <3>1. submissions' = submissions
      BY <2>3, <1>1
         DEF DerivedEvent, DerivedWithdrawal, DerivedIssue, DerivedTokenRevocation, DerivedLink,
             DerivedLinkRevocation, DerivedDeactivation, DerivedReactivation,
             WithdrawCurrentClaim, KeepClaims
    <3>2. {j \in DOMAIN events' : IsStructuredClaim(j)'} = structured
      BY <2>3, <1>1, <1>2, <1>4, <1>5, <1>6
    <3>3. QED
      BY <2>1, <3>1, <3>2, <1>4
  <2>4. QED
    BY <2>2, <2>3
<1>9. e.source # 0 => DerivesClaim(e)
  <2>1. e.source # 0 => DerivedClaimCopy(e)
    BY <1>1
       DEF DerivedEvent, DerivedClaim, DerivedWithdrawal, DerivedIssue, DerivedTokenRevocation,
           DerivedLink, DerivedLinkRevocation, DerivedDeactivation, DerivedReactivation
  <2>2. DerivedClaimCopy(e) => DerivesClaim(e)
    BY NoneAssumption DEF DerivedClaimCopy, DerivedRedemption, DerivesClaim
  <2>3. QED
    BY <2>1, <2>2
<1>10. VerifyOperatorAuditEvents'
  <2>1. \A i \in DOMAIN events' : events'[i].source # 0 => DerivesClaim(events'[i])
    BY <1>1, <1>2, <1>9 DEF EventsAudited, VerifyOperatorAuditEvents
  <2>2. QED
    BY <1>1, <1>3, <1>8, <2>1 DEF VerifyOperatorAuditEvents
<1>11. /\ e.payload.action # "revoke-group-link" => e.subject = e.deployment
       /\ e.payload.action = "redeem-client-token" => DerivesClaim(e) \/ e.link = n
  <2>1. DerivedClaimCopy(e) => DerivesClaim(e)
    BY NoneAssumption DEF DerivedClaimCopy, DerivedRedemption, DerivesClaim
  <2>2. QED
    BY <2>1, <1>1
       DEF DerivedEvent, DerivedClaim, DerivedWithdrawal, DerivedIssue, DerivedTokenRevocation,
           DerivedLink, DerivedClaimCopy, DerivedRedemption, DerivedLinkRevocation,
           DerivedDeactivation, DerivedReactivation
<1>12. EventSubjects'
  BY <1>1, <1>2, <1>11 DEF EventsAudited, EventSubjects
<1>13. QED
  BY <1>10, <1>12 DEF EventsAudited

-----------------------------------------------------------------------------
(* The nonces.                                                             *)

(* The nonce of a new action points at the event of that action.           *)
LEMMA EventKeepsNonces ==
    ASSUME OperatorTypeOK, VerifyOperatorActionNonces,
           NEW d \in Deployments, NEW r \in Requests(d), NEW at, NEW e,
           EventFor(r, at, e)
    PROVE  VerifyOperatorActionNonces'
<1> DEFINE n == Len(events) + 1
           m == Len(nonces[d]) + 1
<1>1. /\ DOMAIN events = 1..Len(events) /\ Len(events) \in Nat /\ DOMAIN events' = 1..n
      /\ \A i \in DOMAIN events : events'[i] = events[i]
      /\ events'[n] = e /\ e.deployment = d
      /\ nonces'[d] = Append(nonces[d], NonceRow(r, n))
      /\ \A x \in Deployments : x # d => nonces'[x] = nonces[x]
  BY EventTables, TableTypes
<1>2. e.nonce = m /\ e.key = r.key /\ e.payload = r.payload
  BY RequestFacts DEF EventFor
<1>3. /\ Len(nonces[d]) \in Nat /\ DOMAIN nonces[d] = 1..Len(nonces[d])
      /\ DOMAIN nonces'[d] = 1..m
      /\ \A k \in DOMAIN nonces[d] : nonces'[d][k] = nonces[d][k]
      /\ nonces'[d][m] = NonceRow(r, n)
  <2>1. nonces[d] \in Seq(NonceRows)
    BY DEF OperatorTypeOK
  <2> HIDE DEF NonceRows, NonceRow
  <2>2. QED
    BY <1>1, <2>1
<1>4. NonceRow(r, n).action = n /\ NonceRow(r, n).key = r.key
      /\ NonceRow(r, n).payload = r.payload
  BY DEF NonceRow
<1>5. ASSUME NEW x \in Deployments, NEW k \in DOMAIN nonces'[x]
      PROVE  LET i == nonces'[x][k].action
             IN  /\ i \in DOMAIN events' /\ events'[i].deployment = x
                 /\ events'[i].key = nonces'[x][k].key
                 /\ events'[i].payload = nonces'[x][k].payload
  <2>1. CASE x = d /\ k = m
    BY <2>1, <1>1, <1>2, <1>3, <1>4
  <2>2. CASE ~(x = d /\ k = m)
    <3>1. k \in DOMAIN nonces[x] /\ nonces'[x][k] = nonces[x][k]
      BY <2>2, <1>1, <1>3, SMTT(30)
    <3>2. LET i == nonces[x][k].action
          IN  /\ i \in DOMAIN events /\ events[i].deployment = x
              /\ events[i].key = nonces[x][k].key
              /\ events[i].payload = nonces[x][k].payload
      BY <3>1 DEF VerifyOperatorActionNonces, EventsOf
    <3>3. QED
      BY <3>1, <3>2, <1>1
  <2>3. QED
    BY <2>1, <2>2
<1>6. ASSUME NEW i \in DOMAIN events'
      PROVE  /\ events'[i].nonce \in DOMAIN nonces'[events'[i].deployment]
             /\ nonces'[events'[i].deployment][events'[i].nonce].action = i
  <2>1. CASE i = n
    BY <2>1, <1>1, <1>2, <1>3, <1>4
  <2>2. CASE i # n
    <3>1. i \in DOMAIN events /\ events'[i] = events[i]
      BY <2>2, <1>1
    <3>2. /\ events[i].nonce \in DOMAIN nonces[events[i].deployment]
          /\ nonces[events[i].deployment][events[i].nonce].action = i
          /\ events[i].deployment \in Deployments
      <4>1. events[i] \in EventRows
        BY <3>1, TableTypes
      <4>2. events[i].deployment \in Deployments
        BY <4>1 DEF EventRows
      <4>3. QED
        BY <3>1, <4>2 DEF VerifyOperatorActionNonces
    <3>3. \A x \in Deployments : \A k \in DOMAIN nonces[x] :
            k \in DOMAIN nonces'[x] /\ nonces'[x][k] = nonces[x][k]
      BY <1>1, <1>3, SMTT(30)
    <3>4. QED
      BY <3>1, <3>2, <3>3
  <2>3. QED
    BY <2>1, <2>2
<1>7. QED
  BY <1>5, <1>6 DEF VerifyOperatorActionNonces, EventsOf

(* The nonce of a retry points at the event that the key belongs to.       *)
LEMMA DuplicateKeepsNonces ==
    ASSUME OperatorTypeOK, VerifyOperatorActionNonces,
           NEW d \in Deployments, NEW r \in Requests(d), RecordDuplicate(r)
    PROVE  VerifyOperatorActionNonces'
<1> DEFINE m == Len(nonces[d]) + 1
<1>1. PICK n \in EventsByKey(d, r.key) :
            /\ events[n].payload = r.payload
            /\ nonces' = [nonces EXCEPT ![d] = Append(@, NonceRow(r, n))]
  BY RequestFacts DEF RecordDuplicate
<1>2. /\ n \in DOMAIN events /\ events[n].deployment = d /\ events[n].key = r.key
      /\ events' = events /\ DOMAIN nonces = Deployments
  BY <1>1 DEF EventsByKey, EventsOf, RecordDuplicate, OperatorTypeOK
<1>3. /\ Len(nonces[d]) \in Nat /\ DOMAIN nonces[d] = 1..Len(nonces[d])
      /\ DOMAIN nonces'[d] = 1..m
      /\ \A k \in DOMAIN nonces[d] : nonces'[d][k] = nonces[d][k]
      /\ nonces'[d][m] = NonceRow(r, n)
      /\ \A x \in Deployments : x # d => nonces'[x] = nonces[x]
  <2>1. nonces[d] \in Seq(NonceRows)
    BY DEF OperatorTypeOK
  <2> HIDE DEF NonceRows, NonceRow
  <2>2. QED
    BY <1>1, <1>2, <2>1
<1>4. NonceRow(r, n).action = n /\ NonceRow(r, n).key = r.key
      /\ NonceRow(r, n).payload = r.payload
  BY DEF NonceRow
<1>5. ASSUME NEW x \in Deployments, NEW k \in DOMAIN nonces'[x]
      PROVE  LET i == nonces'[x][k].action
             IN  /\ i \in DOMAIN events /\ events[i].deployment = x
                 /\ events[i].key = nonces'[x][k].key
                 /\ events[i].payload = nonces'[x][k].payload
  <2>1. CASE x = d /\ k = m
    BY <2>1, <1>1, <1>2, <1>3, <1>4
  <2>2. CASE ~(x = d /\ k = m)
    <3>1. k \in DOMAIN nonces[x] /\ nonces'[x][k] = nonces[x][k]
      BY <2>2, <1>3
    <3>2. QED
      BY <3>1 DEF VerifyOperatorActionNonces, EventsOf
  <2>3. QED
    BY <2>1, <2>2
<1>6. ASSUME NEW i \in DOMAIN events
      PROVE  /\ events[i].nonce \in DOMAIN nonces'[events[i].deployment]
             /\ nonces'[events[i].deployment][events[i].nonce].action = i
  <2>1. /\ events[i].nonce \in DOMAIN nonces[events[i].deployment]
        /\ nonces[events[i].deployment][events[i].nonce].action = i
        /\ events[i].deployment \in Deployments
    BY TableTypes DEF VerifyOperatorActionNonces, EventRows
  <2>2. QED
    BY <2>1, <1>3
<1>7. QED
  BY <1>2, <1>5, <1>6 DEF VerifyOperatorActionNonces, EventsOf

-----------------------------------------------------------------------------
(* The current rows of a claim, rebuilt from events, reviews and           *)
(* decisions.                                                              *)

(* The newest element of a set of table indexes.                           *)
LEMMA NewestIs ==
    ASSUME NEW S \in SUBSET Int, NEW m \in S, \A j \in S : j <= m
    PROVE  Newest(S) = m
<1>1. \E i \in S : \A j \in S : j <= i
  OBVIOUS
<1>2. Newest(S) \in S /\ \A j \in S : j <= Newest(S)
  BY <1>1 DEF Newest
<1>3. m <= Newest(S) /\ Newest(S) <= m /\ m \in Int /\ Newest(S) \in Int
  BY <1>2
<1> HIDE DEF Newest
<1>4. QED
  BY <1>3

(* Status row s of deployment d: its claim is the newest one of d.         *)
NewestClaim(d, s) ==
    /\ s.claim \in ClaimsOf(d)
    /\ \A i \in ClaimsOf(d) : i <= s.claim
    /\ s.group = events[s.claim].group
    /\ s.company = events[s.claim].company
    /\ s.submittedAt = events[s.claim].at

(* Its review is the only one of that claim.                               *)
OnlyReview(s) ==
    IF s.review = 0
    THEN /\ \A k \in DOMAIN reviews : reviews[k].claim # s.claim
         /\ s.approvedAt = 0
    ELSE /\ s.review \in DOMAIN reviews
         /\ reviews[s.review].claim = s.claim
         /\ \A k \in DOMAIN reviews : reviews[k].claim = s.claim => k = s.review
         /\ s.approvedAt = IF reviews[s.review].decision = "approved"
                           THEN reviews[s.review].at ELSE 0

(* Event j ended claim i of d: no withdrawal or deactivation came before,  *)
(* and no withdrawal after it.                                             *)
EndedBy(d, i, j) ==
    /\ j \in WithdrawalsAfter(d, i)
    /\ \A m \in WithdrawalsAfter(d, i) :
            /\ j <= m
            /\ m # j => events[m].payload.action # "withdraw-claim"

(* Its state is withdrawn since the first withdrawal or deactivation, else *)
(* the decision of the review, else pending.                               *)
StateFollows(d, s) ==
    IF s.state = "withdrawn"
    THEN \E j \in DOMAIN events : EndedBy(d, s.claim, j) /\ s.updatedAt = events[j].at
    ELSE /\ WithdrawalsAfter(d, s.claim) = {}
         /\ IF s.review = 0
            THEN s.state = "pending-review" /\ s.updatedAt = events[s.claim].at
            ELSE s.state = reviews[s.review].decision /\ s.updatedAt = reviews[s.review].at

(* The newest decision on the claim is not older than its approval.        *)
NewestDecision(s, el) ==
    IF el.decision = 0
    THEN \A k \in DOMAIN decisions : decisions[k].claim # s.claim
    ELSE /\ el.decision \in DOMAIN decisions
         /\ decisions[el.decision].claim = s.claim
         /\ \A k \in DOMAIN decisions : decisions[k].claim = s.claim => k <= el.decision
         /\ s.approvedAt # 0
         /\ s.approvedAt <= decisions[el.decision].at

EligibilityFollows(s, el) ==
    /\ el.claim = s.claim /\ el.group = s.group /\ el.company = s.company
    /\ el.review = IF s.approvedAt # 0 THEN s.review ELSE 0
    /\ el.state = IF s.state # "approved" THEN "inactive"
                  ELSE IF el.decision # 0 /\ decisions[el.decision].decision = "suspend"
                       THEN "suspended" ELSE "active"
    /\ el.updatedAt = IF s.state = "approved" /\ el.decision # 0
                      THEN decisions[el.decision].at ELSE s.updatedAt

GenerationAudited(d, s, el) ==
    IF s.state = "none"
    THEN ClaimsOf(d) = {} /\ s = NoStatus /\ el = NoEligibility
    ELSE /\ NewestClaim(d, s)
         /\ OnlyReview(s)
         /\ StateFollows(d, s)
         /\ NewestDecision(s, el)
         /\ EligibilityFollows(s, el)

StatusAudited == \A d \in Deployments : GenerationAudited(d, status[d], eligibility[d])

(* A row is what its fields say.                                           *)
LEMMA RowFields ==
    /\ \A s \in StatusRows :
        s = [claim |-> s.claim, group |-> s.group, company |-> s.company,
             submittedAt |-> s.submittedAt, state |-> s.state, review |-> s.review,
             approvedAt |-> s.approvedAt, updatedAt |-> s.updatedAt]
    /\ \A s \in EligibilityRows :
        s = [claim |-> s.claim, group |-> s.group, company |-> s.company,
             state |-> s.state, review |-> s.review, decision |-> s.decision,
             updatedAt |-> s.updatedAt]
BY DEF StatusRows, EligibilityRows

(* Rows that follow their sources are the ones the audit rebuilds.         *)
LEMMA RebuiltRows ==
    ASSUME OperatorTypeOK, StatusAudited
    PROVE  VerifyOperatorClaimStatusRows
<1> SUFFICES ASSUME NEW d \in Deployments
             PROVE  status[d] = ExpectedStatus(d) /\ eligibility[d] = ExpectedEligibility(d)
  BY DEF VerifyOperatorClaimStatusRows
<1> DEFINE s == status[d]
           el == eligibility[d]
           c == s.claim
<1>1. GenerationAudited(d, s, el) /\ s \in StatusRows /\ el \in EligibilityRows
  BY TableTypes DEF StatusAudited
<1>2. /\ DOMAIN events = 1..Len(events) /\ Len(events) \in Nat
      /\ DOMAIN reviews = 1..Len(reviews) /\ Len(reviews) \in Nat
      /\ DOMAIN decisions = 1..Len(decisions) /\ Len(decisions) \in Nat
      /\ \A k \in DOMAIN reviews : /\ reviews[k].at \in Times
                                   /\ reviews[k].decision \in {"approved", "rejected"}
      /\ \A k \in DOMAIN decisions : decisions[k].at \in Times
      /\ \A i \in DOMAIN events : events[i].at \in Times
  BY TableTypes, SMTT(30) DEF ReviewRows, DecisionRows, EventRows
<1>3. Times \subseteq Nat \ {0}
  BY TimeAssumption DEF Times
<1> HIDE DEF s, el
<1>4. CASE s.state = "none"
  <2>1. ClaimsOf(d) = {} /\ s = NoStatus /\ el = NoEligibility
    BY <1>1, <1>4 DEF GenerationAudited
  <2>2. QED
    BY <2>1 DEF ExpectedStatus, ExpectedEligibility, s, el
<1>5. CASE s.state # "none"
  <2>1. /\ NewestClaim(d, s) /\ OnlyReview(s) /\ StateFollows(d, s) /\ NewestDecision(s, el)
        /\ EligibilityFollows(s, el)
    BY <1>1, <1>5 DEF GenerationAudited
  <2>2. ClaimsOf(d) # {} /\ Newest(ClaimsOf(d)) = c /\ c \in DOMAIN events
    <3>1. ClaimsOf(d) \in SUBSET Int /\ c \in ClaimsOf(d) /\ \A i \in ClaimsOf(d) : i <= c
      BY <2>1, <1>2 DEF NewestClaim, ClaimsOf
    <3>2. c \in DOMAIN events
      BY <3>1 DEF ClaimsOf
    <3>3. QED
      BY <3>1, <3>2, NewestIs
  <2>3. /\ ReviewsOf(c) # {} <=> s.review # 0
        /\ s.review # 0 => Newest(ReviewsOf(c)) = s.review
    <3>1. CASE s.review = 0
      <4>1. ReviewsOf(c) = {}
        BY <2>1, <3>1 DEF OnlyReview, ReviewsOf
      <4>2. QED
        BY <3>1, <4>1
    <3>2. CASE s.review # 0
      <4>1. ReviewsOf(c) = {s.review} /\ s.review \in Int
        BY <2>1, <3>2, <1>2 DEF OnlyReview, ReviewsOf
      <4>2. QED
        BY <3>2, <4>1, NewestIs
    <3>3. QED
      BY <3>1, <3>2
  <2>4. /\ CountedWithdrawals(d, c) # {} <=> s.state = "withdrawn"
        /\ s.state = "withdrawn" => s.updatedAt = events[Newest(CountedWithdrawals(d, c))].at
    <3>1. CASE s.state = "withdrawn"
      <4>1. PICK j \in DOMAIN events : EndedBy(d, c, j) /\ s.updatedAt = events[j].at
        BY <2>1, <3>1 DEF StateFollows
      <4>2. WithdrawalsAfter(d, c) \subseteq DOMAIN events
        BY DEF WithdrawalsAfter
      <4>3. CountedWithdrawals(d, c) = {j} /\ j \in Int
        <5>1. j \in WithdrawalsAfter(d, c) /\ \A m \in WithdrawalsAfter(d, c) :
                /\ j <= m
                /\ m # j => events[m].payload.action # "withdraw-claim"
          BY <4>1 DEF EndedBy
        <5>2. \A m \in WithdrawalsAfter(d, c) : m <= j => m = j
          BY <5>1, <4>2, <1>2
        <5>3. QED
          BY <5>1, <5>2, <4>1, <1>2 DEF CountedWithdrawals
      <4>4. QED
        BY <3>1, <4>1, <4>3, NewestIs
    <3>2. CASE s.state # "withdrawn"
      BY <2>1, <3>2 DEF StateFollows, CountedWithdrawals
    <3>3. QED
      BY <3>1, <3>2
  <2>5. status[d] = ExpectedStatus(d)
    <3>1. /\ s.claim = c /\ s.group = events[c].group /\ s.company = events[c].company
          /\ s.submittedAt = events[c].at
      BY <2>1 DEF NewestClaim
    <3>2. s.state = IF CountedWithdrawals(d, c) # {} THEN "withdrawn"
                    ELSE IF ReviewsOf(c) # {} THEN reviews[Newest(ReviewsOf(c))].decision
                    ELSE "pending-review"
      BY <2>1, <2>3, <2>4 DEF StateFollows
    <3>3. s.review = IF ReviewsOf(c) # {} THEN Newest(ReviewsOf(c)) ELSE 0
      BY <2>3
    <3>4. s.approvedAt = IF /\ ReviewsOf(c) # {}
                            /\ reviews[Newest(ReviewsOf(c))].decision = "approved"
                         THEN reviews[Newest(ReviewsOf(c))].at ELSE 0
      BY <2>1, <2>3 DEF OnlyReview
    <3>5. s.updatedAt = IF CountedWithdrawals(d, c) # {}
                        THEN events[Newest(CountedWithdrawals(d, c))].at
                        ELSE IF ReviewsOf(c) # {} THEN reviews[Newest(ReviewsOf(c))].at
                        ELSE events[c].at
      BY <2>1, <2>3, <2>4 DEF StateFollows
    <3>6. s = [claim |-> s.claim, group |-> s.group, company |-> s.company,
               submittedAt |-> s.submittedAt, state |-> s.state, review |-> s.review,
               approvedAt |-> s.approvedAt, updatedAt |-> s.updatedAt]
      BY <1>1, RowFields
    <3>7. QED
      BY <2>2, <3>1, <3>2, <3>3, <3>4, <3>5, <3>6, Zenon DEF ExpectedStatus, s
  <2>6. /\ DecisionsOf(c) # {} <=> el.decision # 0
        /\ el.decision # 0 => Newest(DecisionsOf(c)) = el.decision
    <3>1. CASE el.decision = 0
      <4>1. DecisionsOf(c) = {}
        BY <2>1, <3>1 DEF NewestDecision, DecisionsOf
      <4>2. QED
        BY <3>1, <4>1
    <3>2. CASE el.decision # 0
      <4>1. /\ DecisionsOf(c) \in SUBSET Int /\ el.decision \in DecisionsOf(c)
            /\ \A k \in DecisionsOf(c) : k <= el.decision
        BY <2>1, <3>2, <1>2 DEF NewestDecision, DecisionsOf
      <4>2. QED
        BY <3>2, <4>1, NewestIs
    <3>3. QED
      BY <3>1, <3>2
  <2>7. eligibility[d] = ExpectedEligibility(d)
    <3>1. el.claim = s.claim /\ el.group = s.group /\ el.company = s.company
      BY <2>1 DEF EligibilityFollows
    <3>2. el.state = IF ~(s.state = "approved") THEN "inactive"
                     ELSE IF /\ DecisionsOf(s.claim) # {}
                             /\ decisions[Newest(DecisionsOf(s.claim))].decision = "suspend"
                          THEN "suspended" ELSE "active"
      BY <2>1, <2>6 DEF EligibilityFollows
    <3>3. el.review = IF s.approvedAt # 0 THEN s.review ELSE 0
      BY <2>1 DEF EligibilityFollows
    <3>4. el.decision = IF DecisionsOf(s.claim) # {} THEN Newest(DecisionsOf(s.claim)) ELSE 0
      BY <2>6
    <3>5. el.updatedAt =
            IF /\ DecisionsOf(s.claim) # {}
               /\ s.state = "approved"
               /\ decisions[Newest(DecisionsOf(s.claim))].at > s.updatedAt
            THEN decisions[Newest(DecisionsOf(s.claim))].at ELSE s.updatedAt
      <4>1. CASE s.state = "approved" /\ el.decision # 0
        <5>1. s.review # 0 /\ s.updatedAt = reviews[s.review].at
              /\ s.state = reviews[s.review].decision
          BY <2>1, <4>1 DEF StateFollows
        <5>2. s.approvedAt = s.updatedAt /\ s.review \in DOMAIN reviews
          BY <2>1, <4>1, <5>1 DEF OnlyReview
        <5>3. /\ el.decision \in DOMAIN decisions
              /\ s.updatedAt <= decisions[el.decision].at
              /\ el.updatedAt = decisions[el.decision].at
          BY <2>1, <4>1, <5>2 DEF NewestDecision, EligibilityFollows
        <5>4. s.updatedAt \in Nat /\ decisions[el.decision].at \in Nat
          BY <5>1, <5>2, <5>3, <1>2, <1>3
        <5>5. QED
          BY <4>1, <5>3, <5>4, <2>6
      <4>2. CASE ~(s.state = "approved" /\ el.decision # 0)
        BY <2>1, <2>6, <4>2 DEF EligibilityFollows
      <4>3. QED
        BY <4>1, <4>2
    <3>6. el = [claim |-> el.claim, group |-> el.group, company |-> el.company,
                state |-> el.state, review |-> el.review, decision |-> el.decision,
                updatedAt |-> el.updatedAt]
      BY <1>1, RowFields
    <3>7. ExpectedStatus(d) = s
      BY <2>5 DEF s
    <3>8. QED
      BY <2>2, <3>1, <3>2, <3>3, <3>4, <3>5, <3>6, <3>7, Zenon
         DEF ExpectedEligibility, el
  <2>8. QED
    BY <2>5, <2>7
<1>6. QED
  BY <1>4, <1>5

(* An event leaves a claim's rows as they are if it neither makes nor ends *)
(* a claim of that deployment.                                             *)
LEMMA GenerationKept ==
    ASSUME NEW d, GenerationAudited(d, status[d], eligibility[d]),
           status'[d] = status[d], eligibility'[d] = eligibility[d],
           UNCHANGED <<reviews, decisions>>,
           DOMAIN events \subseteq DOMAIN events',
           \A i \in DOMAIN events : events'[i] = events[i],
           ClaimsOf(d)' = ClaimsOf(d),
           \A i \in DOMAIN events : WithdrawalsAfter(d, i)' = WithdrawalsAfter(d, i)
    PROVE  GenerationAudited(d, status[d], eligibility[d])'
<1> DEFINE s == status[d]
           el == eligibility[d]
<1>1. s' = s /\ el' = el
  OBVIOUS
<1>2. CASE s.state = "none"
  BY <1>1, <1>2 DEF GenerationAudited
<1>3. CASE s.state # "none"
  <2>1. /\ NewestClaim(d, s) /\ OnlyReview(s) /\ StateFollows(d, s) /\ NewestDecision(s, el)
        /\ EligibilityFollows(s, el)
    BY <1>3 DEF GenerationAudited
  <2>2. s.claim \in DOMAIN events
    BY <2>1 DEF NewestClaim, ClaimsOf
  <2>3. NewestClaim(d, s)'
    BY <2>1, <2>2, <1>1 DEF NewestClaim
  <2>4. OnlyReview(s)' /\ NewestDecision(s, el)' /\ EligibilityFollows(s, el)'
    BY <2>1, <1>1 DEF OnlyReview, NewestDecision, EligibilityFollows
  <2>5. StateFollows(d, s)'
    <3>1. CASE s.state = "withdrawn"
      <4>1. PICK j \in DOMAIN events : EndedBy(d, s.claim, j) /\ s.updatedAt = events[j].at
        BY <2>1, <3>1 DEF StateFollows
      <4>2. WithdrawalsAfter(d, s.claim) \subseteq DOMAIN events
        BY DEF WithdrawalsAfter
      <4>3. PICK i : i = s.claim
        OBVIOUS
      <4>4. WithdrawalsAfter(d, i)' = WithdrawalsAfter(d, i) /\ i = s'.claim
        BY <4>3, <2>2, <1>1
      <4>5. EndedBy(d, i, j)'
        BY <4>1, <4>2, <4>3, <4>4 DEF EndedBy
      <4>6. QED
        BY <3>1, <4>1, <4>4, <4>5, <1>1 DEF StateFollows
    <3>2. CASE s.state # "withdrawn"
      <4>1. PICK i : i = s.claim
        OBVIOUS
      <4>2. WithdrawalsAfter(d, i)' = WithdrawalsAfter(d, i) /\ i = s'.claim
        BY <4>1, <2>2, <1>1
      <4>3. QED
        BY <2>1, <2>2, <3>2, <4>1, <4>2, <1>1 DEF StateFollows
    <3>3. QED
      BY <3>1, <3>2
  <2>6. QED
    BY <2>3, <2>4, <2>5, <1>1, <1>3 DEF GenerationAudited
<1>4. QED
  BY <1>2, <1>3

(* The claims and the withdrawals an event adds.                           *)
LEMMA EventSources ==
    ASSUME OperatorTypeOK, NEW d \in Deployments, NEW r \in Requests(d), NEW at, NEW e,
           EventFor(r, at, e), NEW n, n = Len(events) + 1
    PROVE  /\ \A x : ClaimsOf(x)' =
                IF x = d /\ (DerivedClaim(e) \/ DerivedClaimCopy(e))
                THEN ClaimsOf(x) \cup {n} ELSE ClaimsOf(x)
           /\ \A x, i : i \in Int /\ i < n => WithdrawalsAfter(x, i)' =
                IF x = d /\ (DerivedWithdrawal(e) \/ DerivedDeactivation(e))
                THEN WithdrawalsAfter(x, i) \cup {n} ELSE WithdrawalsAfter(x, i)
           /\ \A x : WithdrawalsAfter(x, n)' = {}
<1>1. /\ DOMAIN events = 1..Len(events) /\ Len(events) \in Nat /\ DOMAIN events' = 1..n
      /\ \A i \in DOMAIN events : events'[i] = events[i]
      /\ events'[n] = e /\ e.deployment = d /\ DerivedEvent(e)
      /\ \A i \in DOMAIN events' : i \in DOMAIN events \/ i = n
      /\ n \notin DOMAIN events
  BY EventTables, TableTypes DEF EventFor
<1>2. IsStructuredClaim(n)' <=> DerivedClaim(e) \/ DerivedClaimCopy(e)
  BY <1>1, ClaimingEvents DEF IsStructuredClaim
<1>3. \A i \in DOMAIN events : IsStructuredClaim(i)' <=> IsStructuredClaim(i)
  BY <1>1 DEF IsStructuredClaim
<1>4. ASSUME NEW x
      PROVE  ClaimsOf(x)' = IF x = d /\ (DerivedClaim(e) \/ DerivedClaimCopy(e))
                            THEN ClaimsOf(x) \cup {n} ELSE ClaimsOf(x)
  <2>1. CASE x = d /\ (DerivedClaim(e) \/ DerivedClaimCopy(e))
    BY <2>1, <1>1, <1>2, <1>3 DEF ClaimsOf
  <2>2. CASE ~(x = d /\ (DerivedClaim(e) \/ DerivedClaimCopy(e)))
    BY <2>2, <1>1, <1>2, <1>3 DEF ClaimsOf
  <2>3. QED
    BY <2>1, <2>2
<1>5. /\ DerivedWithdrawal(e) \/ DerivedDeactivation(e) =>
            /\ e.subject = d
            /\ e.payload.action \in {"withdraw-claim", "deactivate-deployment"}
      /\ ~(DerivedWithdrawal(e) \/ DerivedDeactivation(e)) =>
            e.payload.action \notin {"withdraw-claim", "deactivate-deployment"}
  BY <1>1
     DEF DerivedEvent, DerivedClaim, DerivedWithdrawal, DerivedIssue, DerivedTokenRevocation,
         DerivedLink, DerivedClaimCopy, DerivedRedemption, DerivedLinkRevocation,
         DerivedDeactivation, DerivedReactivation
<1>6. ASSUME NEW x, NEW i \in Int, i < n
      PROVE  WithdrawalsAfter(x, i)' =
                IF x = d /\ (DerivedWithdrawal(e) \/ DerivedDeactivation(e))
                THEN WithdrawalsAfter(x, i) \cup {n} ELSE WithdrawalsAfter(x, i)
  <2>1. CASE x = d /\ (DerivedWithdrawal(e) \/ DerivedDeactivation(e))
    BY <2>1, <1>1, <1>5, <1>6 DEF WithdrawalsAfter
  <2>2. CASE ~(x = d /\ (DerivedWithdrawal(e) \/ DerivedDeactivation(e)))
    BY <2>2, <1>1, <1>5, <1>6 DEF WithdrawalsAfter
  <2>3. QED
    BY <2>1, <2>2
<1>7. \A x : WithdrawalsAfter(x, n)' = {}
  BY <1>1 DEF WithdrawalsAfter
<1>8. QED
  BY <1>4, <1>6, <1>7

(* A new claim generation starts unreviewed and undecided.                 *)
LEMMA ClaimStartsGeneration ==
    ASSUME OperatorTypeOK, ClaimRowsOK, NEW d \in Deployments, NEW r \in Requests(d), NEW at,
           NEW e, EventFor(r, at, e), DerivedClaim(e) \/ DerivedClaimCopy(e)
    PROVE  GenerationAudited(d, status[d], eligibility[d])'
<1> DEFINE s == status'[d]
           el == eligibility'[d]
<1>1. PICK n : n = Len(events) + 1
  OBVIOUS
<1>2. /\ DOMAIN events = 1..Len(events) /\ Len(events) \in Nat /\ DOMAIN events' = 1..n
      /\ events'[n] = e /\ e.deployment = d /\ UNCHANGED <<reviews, decisions>>
  BY <1>1, EventTables, TableTypes
<1>3. ClaimsOf(d)' = ClaimsOf(d) \cup {n} /\ WithdrawalsAfter(d, n)' = {}
  BY <1>1, EventSources
<1>4. ClaimsOf(d) \subseteq DOMAIN events
  BY DEF ClaimsOf
<1>5. /\ \A k \in DOMAIN reviews : reviews[k].claim \in DOMAIN events
      /\ \A k \in DOMAIN decisions : decisions[k].claim \in DOMAIN events
  BY TableTypes DEF ReviewRows, DecisionRows
<1>6. DOMAIN status = Deployments /\ DOMAIN eligibility = Deployments
  BY DEF OperatorTypeOK
<1>7. /\ s = [claim |-> n, group |-> e.group, company |-> e.company,
              state |-> "pending-review", submittedAt |-> e.at, review |-> 0,
              approvedAt |-> 0, updatedAt |-> e.at]
      /\ el = [claim |-> n, group |-> e.group, company |-> e.company,
               state |-> "inactive", review |-> 0, decision |-> 0, updatedAt |-> e.at]
  BY <1>1, <1>2, <1>6 DEF DerivedClaim, DerivedClaimCopy, WritePendingClaim
<1>8. NewestClaim(d, status[d])'
  <2>1. \A i \in ClaimsOf(d)' : i <= n
    BY <1>1, <1>2, <1>3, <1>4
  <2>2. QED
    BY <1>2, <1>3, <1>7, <2>1 DEF NewestClaim
<1>9. OnlyReview(status[d])' /\ NewestDecision(status[d], eligibility[d])'
  BY <1>1, <1>2, <1>5, <1>7 DEF OnlyReview, NewestDecision
<1>10. StateFollows(d, status[d])'
  BY <1>2, <1>3, <1>7 DEF StateFollows
<1>11. EligibilityFollows(status[d], eligibility[d])'
  BY <1>7 DEF EligibilityFollows
<1>12. QED
  BY <1>7, <1>8, <1>9, <1>10, <1>11 DEF GenerationAudited

(* A withdrawal, or the deactivation of a claimed deployment, ends the     *)
(* current generation.                                                     *)
LEMMA WithdrawalEndsGeneration ==
    ASSUME OperatorTypeOK, ClaimRowsOK, NEW d \in Deployments, NEW r \in Requests(d), NEW at,
           NEW e, EventFor(r, at, e), DerivedWithdrawal(e) \/ DerivedDeactivation(e),
           network[d].claimed, GenerationAudited(d, status[d], eligibility[d])
    PROVE  GenerationAudited(d, status[d], eligibility[d])'
<1> DEFINE s == status[d]
           el == eligibility[d]
<1>1. PICK n : n = Len(events) + 1
  OBVIOUS
<1>2. /\ DOMAIN events = 1..Len(events) /\ Len(events) \in Nat /\ DOMAIN events' = 1..n
      /\ \A i \in DOMAIN events : events'[i] = events[i]
      /\ events'[n] = e /\ e.deployment = d /\ UNCHANGED <<reviews, decisions>>
  BY <1>1, EventTables, TableTypes
<1>3. e.subject = d /\ WithdrawCurrentClaim(e)
  BY <1>2 DEF DerivedWithdrawal, DerivedDeactivation
<1>4. s.state \in {"pending-review", "approved", "rejected"}
  BY DEF ClaimRowsOK
<1>5. s \in StatusRows /\ el \in EligibilityRows
      /\ DOMAIN status = Deployments /\ DOMAIN eligibility = Deployments
  BY TableTypes DEF OperatorTypeOK
<1>6. /\ status'[d] = [s EXCEPT !.state = "withdrawn", !.updatedAt = e.at]
      /\ eligibility'[d] = [el EXCEPT !.state = "inactive", !.updatedAt = e.at]
  <2> HIDE DEF s, el
  <2>1. QED
    BY <1>3, <1>5, Zenon DEF WithdrawCurrentClaim, s, el
<1>7. /\ status'[d].state = "withdrawn" /\ status'[d].updatedAt = e.at
      /\ status'[d].claim = s.claim /\ status'[d].group = s.group
      /\ status'[d].company = s.company /\ status'[d].submittedAt = s.submittedAt
      /\ status'[d].review = s.review /\ status'[d].approvedAt = s.approvedAt
      /\ eligibility'[d].state = "inactive" /\ eligibility'[d].updatedAt = e.at
      /\ eligibility'[d].claim = el.claim /\ eligibility'[d].group = el.group
      /\ eligibility'[d].company = el.company /\ eligibility'[d].review = el.review
      /\ eligibility'[d].decision = el.decision
  BY <1>5, <1>6 DEF StatusRows, EligibilityRows
<1>8. /\ NewestClaim(d, s) /\ OnlyReview(s) /\ StateFollows(d, s) /\ NewestDecision(s, el)
      /\ EligibilityFollows(s, el)
  BY <1>4 DEF GenerationAudited
<1>9. PICK c : c = s.claim
  OBVIOUS
<1>10. c \in DOMAIN events /\ c = status'[d].claim
  BY <1>7, <1>8, <1>9 DEF NewestClaim, ClaimsOf
<1>11. ClaimsOf(d)' = ClaimsOf(d)
  <2>1. ~(DerivedClaim(e) \/ DerivedClaimCopy(e))
    BY DEF DerivedWithdrawal, DerivedDeactivation, DerivedClaim, DerivedClaimCopy,
           DerivedRedemption
  <2>2. QED
    BY <1>1, <2>1, EventSources
<1>12. WithdrawalsAfter(d, c)' = {n}
  <2>1. c \in Int /\ c < n
    BY <1>1, <1>2, <1>10
  <2>2. WithdrawalsAfter(d, c)' = WithdrawalsAfter(d, c) \cup {n}
    BY <1>1, <2>1, EventSources
  <2>3. WithdrawalsAfter(d, c) = {}
    BY <1>4, <1>8, <1>9 DEF StateFollows
  <2>4. QED
    BY <2>2, <2>3
<1>13. NewestClaim(d, status[d])'
  BY <1>2, <1>7, <1>8, <1>9, <1>10, <1>11 DEF NewestClaim
<1>14. OnlyReview(status[d])' /\ NewestDecision(status[d], eligibility[d])'
       /\ EligibilityFollows(status[d], eligibility[d])'
  BY <1>2, <1>7, <1>8 DEF OnlyReview, NewestDecision, EligibilityFollows
<1>15. EndedBy(d, c, n)'
  <2>1. n <= n
    BY <1>1, <1>2
  <2>2. QED
    BY <1>12, <2>1 DEF EndedBy
<1>16. StateFollows(d, status[d])'
  <2>1. n \in DOMAIN events'
    BY <1>1, <1>2
  <2>2. QED
    BY <1>2, <1>7, <1>10, <1>15, <2>1 DEF StateFollows
<1>17. QED
  BY <1>7, <1>13, <1>14, <1>16 DEF GenerationAudited

(* The deactivation of an unclaimed deployment leaves what ended its last  *)
(* generation.                                                             *)
LEMMA DeactivationKeepsGeneration ==
    ASSUME OperatorTypeOK, ClaimRowsOK, NEW d \in Deployments, NEW r \in Requests(d), NEW at,
           NEW e, EventFor(r, at, e), DerivedDeactivation(e),
           ~network[d].claimed, GenerationAudited(d, status[d], eligibility[d])
    PROVE  GenerationAudited(d, status[d], eligibility[d])'
<1> DEFINE s == status[d]
           el == eligibility[d]
<1>1. PICK n : n = Len(events) + 1
  OBVIOUS
<1>2. /\ DOMAIN events = 1..Len(events) /\ Len(events) \in Nat /\ DOMAIN events' = 1..n
      /\ \A i \in DOMAIN events : events'[i] = events[i]
      /\ events'[n] = e /\ e.deployment = d /\ UNCHANGED <<reviews, decisions>>
  BY <1>1, EventTables, TableTypes
<1>3. status' = status /\ eligibility' = eligibility
  BY <1>2 DEF DerivedDeactivation, KeepClaims
<1>4. s.state \in {"withdrawn", "none"}
  BY TableTypes DEF ClaimRowsOK, StatusRows, VerificationStates
<1>5. ClaimsOf(d)' = ClaimsOf(d)
  <2>1. ~(DerivedClaim(e) \/ DerivedClaimCopy(e))
    BY DEF DerivedDeactivation, DerivedClaim, DerivedClaimCopy, DerivedRedemption
  <2>2. QED
    BY <1>1, <2>1, EventSources
<1>6. CASE s.state = "none"
  BY <1>3, <1>5, <1>6 DEF GenerationAudited
<1>7. CASE s.state = "withdrawn"
  <2>1. /\ NewestClaim(d, s) /\ OnlyReview(s) /\ StateFollows(d, s) /\ NewestDecision(s, el)
        /\ EligibilityFollows(s, el)
    BY <1>7 DEF GenerationAudited
  <2>2. PICK c : c = s.claim
    OBVIOUS
  <2>3. c \in DOMAIN events /\ c = status'[d].claim
    BY <1>3, <2>1, <2>2 DEF NewestClaim, ClaimsOf
  <2>4. NewestClaim(d, status[d])'
    BY <1>2, <1>3, <1>5, <2>1, <2>2, <2>3 DEF NewestClaim
  <2>5. OnlyReview(status[d])' /\ NewestDecision(status[d], eligibility[d])'
        /\ EligibilityFollows(status[d], eligibility[d])'
    BY <1>2, <1>3, <2>1 DEF OnlyReview, NewestDecision, EligibilityFollows
  <2>6. PICK j \in DOMAIN events : EndedBy(d, c, j) /\ s.updatedAt = events[j].at
    BY <1>7, <2>1, <2>2 DEF StateFollows
  <2>7. WithdrawalsAfter(d, c)' = WithdrawalsAfter(d, c) \cup {n}
    <3>1. c \in Int /\ c < n
      BY <1>1, <1>2, <2>3
    <3>2. QED
      BY <1>1, <3>1, EventSources
  <2>8. EndedBy(d, c, j)'
    <3>1. WithdrawalsAfter(d, c) \subseteq DOMAIN events
      BY DEF WithdrawalsAfter
    <3>2. e.payload.action # "withdraw-claim"
      BY DEF DerivedDeactivation
    <3>3. j \in DOMAIN events /\ j <= n
      BY <1>1, <1>2
    <3>4. QED
      BY <1>2, <2>6, <2>7, <3>1, <3>2, <3>3 DEF EndedBy
  <2>9. StateFollows(d, status[d])'
    <3>1. j \in DOMAIN events'
      BY <1>1, <1>2
    <3>2. QED
      BY <1>2, <1>3, <1>7, <2>3, <2>6, <2>8, <3>1 DEF StateFollows
  <2>10. QED
    BY <1>3, <1>7, <2>4, <2>5, <2>9 DEF GenerationAudited
<1>8. QED
  BY <1>4, <1>6, <1>7

(* Every event leaves rows that follow their sources.                      *)
LEMMA EventKeepsStatus ==
    ASSUME OperatorTypeOK, ClaimRowsOK, StatusAudited,
           NEW d \in Deployments, NEW r \in Requests(d), NEW at, NEW e, EventFor(r, at, e)
    PROVE  StatusAudited'
<1> DEFINE makes == DerivedClaim(e) \/ DerivedClaimCopy(e)
           ends == DerivedWithdrawal(e) \/ DerivedDeactivation(e)
<1>1. ASSUME NEW x \in Deployments
      PROVE  GenerationAudited(x, status[x], eligibility[x])
  BY <1>1 DEF StatusAudited
<1>2. PICK n : n = Len(events) + 1
  OBVIOUS
<1>3. /\ DOMAIN events = 1..Len(events) /\ Len(events) \in Nat /\ DOMAIN events' = 1..n
      /\ \A i \in DOMAIN events : events'[i] = events[i] /\ i \in Int /\ i < n
      /\ DOMAIN events \subseteq DOMAIN events'
      /\ e.deployment = d /\ UNCHANGED <<reviews, decisions>>
  BY <1>2, EventTables, TableTypes
<1>4. ASSUME NEW x \in Deployments, x # d \/ ~(makes \/ ends)
      PROVE  GenerationAudited(x, status[x], eligibility[x])'
  <2>1. status'[x] = status[x] /\ eligibility'[x] = eligibility[x]
    <3>1. DOMAIN status = Deployments /\ DOMAIN eligibility = Deployments
      BY DEF OperatorTypeOK
    <3>2. CASE makes
      BY <1>3, <1>4, <3>1, <3>2 DEF DerivedClaim, DerivedClaimCopy, WritePendingClaim
    <3>3. CASE ends
      BY <1>3, <1>4, <3>1, <3>3
         DEF DerivedWithdrawal, DerivedDeactivation, WithdrawCurrentClaim, KeepClaims
    <3>4. CASE ~(makes \/ ends)
      BY <3>4
         DEF EventFor, DerivedEvent, DerivedIssue, DerivedTokenRevocation, DerivedLink,
             DerivedLinkRevocation, DerivedReactivation, KeepClaims
    <3>5. QED
      BY <3>2, <3>3, <3>4
  <2>2. /\ ClaimsOf(x)' = ClaimsOf(x)
        /\ \A i \in DOMAIN events : WithdrawalsAfter(x, i)' = WithdrawalsAfter(x, i)
    <3>1. ~(x = d /\ makes) /\ ~(x = d /\ ends)
      BY <1>4
    <3>2. ClaimsOf(x)' = IF x = d /\ makes THEN ClaimsOf(x) \cup {n} ELSE ClaimsOf(x)
      BY <1>2, EventSources
    <3>3. \A i : i \in Int /\ i < n => WithdrawalsAfter(x, i)' =
            IF x = d /\ ends THEN WithdrawalsAfter(x, i) \cup {n} ELSE WithdrawalsAfter(x, i)
      BY <1>2, EventSources
    <3>4. QED
      BY <1>3, <3>1, <3>2, <3>3
  <2>3. QED
    BY <1>1, <1>3, <2>1, <2>2, GenerationKept
<1>5. ASSUME makes \/ ends PROVE GenerationAudited(d, status[d], eligibility[d])'
  <2>1. CASE makes
    BY <2>1, ClaimStartsGeneration
  <2>2. CASE ends /\ network[d].claimed
    BY <1>1, <2>2, WithdrawalEndsGeneration
  <2>3. CASE ends /\ ~network[d].claimed
    <3>1. ~DerivedWithdrawal(e)
      BY <1>3, <2>3 DEF DerivedWithdrawal
    <3>2. QED
      BY <1>1, <2>3, <3>1, DeactivationKeepsGeneration
  <2>4. QED
    BY <1>5, <2>1, <2>2, <2>3
<1>6. ASSUME NEW x \in Deployments PROVE GenerationAudited(x, status[x], eligibility[x])'
  <2>1. CASE x = d /\ (makes \/ ends)
    BY <1>5, <2>1
  <2>2. CASE ~(x = d /\ (makes \/ ends))
    BY <1>4, <2>2
  <2>3. QED
    BY <2>1, <2>2
<1>7. QED
  BY <1>6 DEF StatusAudited

(* What a review leaves in each table, field by field.                     *)
ReviewWrites(s, decision, at, d, m) ==
    /\ d \in Deployments
    /\ status[d].claim = s.claim /\ status[d].state = "pending-review"
    /\ status[d].group = s.group /\ status[d].company = s.company
    /\ status[d].submittedAt <= at /\ HeadAt(reviews) <= at
    /\ Len(reviews) \in Nat /\ DOMAIN reviews = 1..Len(reviews)
    /\ Len(reviews') = m /\ DOMAIN reviews' = 1..m
    /\ \A k \in DOMAIN reviews : reviews'[k] = reviews[k]
    /\ reviews'[m] = [claim |-> s.claim, deployment |-> d, group |-> s.group,
                      company |-> s.company, decision |-> decision, at |-> at]
    /\ status'[d].claim = s.claim /\ status'[d].group = status[d].group
    /\ status'[d].company = status[d].company
    /\ status'[d].submittedAt = status[d].submittedAt
    /\ status'[d].state = decision /\ status'[d].review = m
    /\ status'[d].approvedAt = IF decision = "approved" THEN at ELSE 0
    /\ status'[d].updatedAt = at
    /\ eligibility'[d].claim = eligibility[d].claim
    /\ eligibility'[d].group = eligibility[d].group
    /\ eligibility'[d].company = eligibility[d].company
    /\ eligibility'[d].state = IF decision = "approved" THEN "active" ELSE "inactive"
    /\ eligibility'[d].review = IF decision = "approved" THEN m ELSE 0
    /\ eligibility'[d].decision = 0 /\ eligibility'[d].updatedAt = at
    /\ \A x \in Deployments : x # d =>
         status'[x] = status[x] /\ eligibility'[x] = eligibility[x]
    /\ UNCHANGED <<events, nonces, network, submissions, decisions>>

(* Which is what the transaction writes.                                   *)
LEMMA ReviewTables ==
    ASSUME OperatorTypeOK, NEW s \in submissions, NEW decision, NEW at,
           DecideOperatorClaim(s, decision, at),
           NEW d, d = s.deployment, NEW m, m = Len(reviews) + 1
    PROVE  ReviewWrites(s, decision, at, d, m)
<1> DEFINE rv == [claim |-> s.claim, deployment |-> d, group |-> s.group,
                  company |-> s.company, decision |-> decision, at |-> at]
<1>1. Reviewed(s, decision, at)
  BY ReviewEffect
<1>2. /\ d \in Deployments /\ DOMAIN status = Deployments /\ DOMAIN eligibility = Deployments
      /\ reviews' = Append(reviews, rv)
  BY <1>1 DEF OperatorTypeOK, SubmissionRows, Reviewed
<1>3. /\ status[d].claim = s.claim /\ status[d].state = "pending-review"
      /\ status[d].group = s.group /\ status[d].company = s.company
      /\ status[d].submittedAt <= at /\ HeadAt(reviews) <= at
  BY DEF DecideOperatorClaim, IsCurrentClaim
<1>4. /\ Len(reviews) \in Nat /\ DOMAIN reviews = 1..Len(reviews)
      /\ Len(reviews') = m /\ DOMAIN reviews' = 1..m
      /\ \A k \in DOMAIN reviews : reviews'[k] = reviews[k]
      /\ reviews'[m] = rv
  <2>1. reviews \in Seq(ReviewRows)
    BY DEF OperatorTypeOK
  <2> HIDE DEF ReviewRows, rv
  <2>2. QED
    BY <1>2, <2>1
<1>5. status[d] \in StatusRows /\ eligibility[d] \in EligibilityRows
  BY <1>2, TableTypes
<1>6. /\ status'[d] = [status[d] EXCEPT !.state = decision, !.review = m,
                          !.approvedAt = IF decision = "approved" THEN at ELSE 0,
                          !.updatedAt = at]
      /\ eligibility'[d] = [eligibility[d] EXCEPT
                          !.state = IF decision = "approved" THEN "active" ELSE "inactive",
                          !.review = IF decision = "approved" THEN m ELSE 0,
                          !.decision = 0, !.updatedAt = at]
      /\ \A x \in Deployments : x # d =>
                status'[x] = status[x] /\ eligibility'[x] = eligibility[x]
      /\ UNCHANGED <<events, nonces, network, submissions, decisions>>
  BY <1>1, <1>2 DEF Reviewed
<1>7. /\ status'[d].claim = status[d].claim /\ status'[d].group = status[d].group
      /\ status'[d].company = status[d].company
      /\ status'[d].submittedAt = status[d].submittedAt
      /\ status'[d].state = decision /\ status'[d].review = m
      /\ status'[d].approvedAt = (IF decision = "approved" THEN at ELSE 0)
      /\ status'[d].updatedAt = at
  BY <1>5, <1>6 DEF StatusRows
<1>8. /\ eligibility'[d].claim = eligibility[d].claim
      /\ eligibility'[d].group = eligibility[d].group
      /\ eligibility'[d].company = eligibility[d].company
      /\ eligibility'[d].state = (IF decision = "approved" THEN "active" ELSE "inactive")
      /\ eligibility'[d].review = (IF decision = "approved" THEN m ELSE 0)
      /\ eligibility'[d].decision = 0 /\ eligibility'[d].updatedAt = at
  BY <1>5, <1>6 DEF EligibilityRows
<1>9. QED
  BY <1>2, <1>3, <1>4, <1>6, <1>7, <1>8 DEF ReviewWrites

(* What an eligibility decision leaves in each table, field by field.      *)
DecisionWrites(s, decision, at, d, m) ==
    /\ d \in Deployments
    /\ status[d].claim = s.claim /\ status[d].state = "approved"
    /\ status[d].group = s.group /\ status[d].company = s.company
    /\ status[d].approvedAt <= at /\ HeadAt(decisions) <= at
    /\ eligibility[d].state = IF decision = "suspend" THEN "active" ELSE "suspended"
    /\ Len(decisions) \in Nat /\ DOMAIN decisions = 1..Len(decisions)
    /\ Len(decisions') = m /\ DOMAIN decisions' = 1..m
    /\ \A k \in DOMAIN decisions : decisions'[k] = decisions[k]
    /\ decisions'[m] = [claim |-> s.claim, deployment |-> d, group |-> s.group,
                        company |-> s.company, decision |-> decision, at |-> at]
    /\ eligibility'[d].claim = eligibility[d].claim
    /\ eligibility'[d].group = eligibility[d].group
    /\ eligibility'[d].company = eligibility[d].company
    /\ eligibility'[d].review = eligibility[d].review
    /\ eligibility'[d].state = IF decision = "suspend" THEN "suspended" ELSE "active"
    /\ eligibility'[d].decision = m /\ eligibility'[d].updatedAt = at
    /\ \A x \in Deployments : x # d => eligibility'[x] = eligibility[x]
    /\ UNCHANGED <<events, nonces, network, submissions, status, reviews>>

(* Which is what the transaction writes.                                   *)
LEMMA DecisionTables ==
    ASSUME OperatorTypeOK, NEW s \in submissions, NEW decision, NEW at,
           DecideOperatorClaimEligibility(s, decision, at),
           NEW d, d = s.deployment, NEW m, m = Len(decisions) + 1
    PROVE  DecisionWrites(s, decision, at, d, m)
<1> DEFINE dc == [claim |-> s.claim, deployment |-> d, group |-> s.group,
                  company |-> s.company, decision |-> decision, at |-> at]
<1>1. DecidedEligibility(s, decision, at)
  BY DecisionEffect
<1>2. /\ d \in Deployments /\ DOMAIN eligibility = Deployments
      /\ decisions' = Append(decisions, dc)
  BY <1>1 DEF OperatorTypeOK, SubmissionRows, DecidedEligibility
<1>3. /\ status[d].claim = s.claim /\ status[d].state = "approved"
      /\ status[d].group = s.group /\ status[d].company = s.company
      /\ status[d].approvedAt <= at /\ HeadAt(decisions) <= at
      /\ eligibility[d].state = IF decision = "suspend" THEN "active" ELSE "suspended"
  BY DEF DecideOperatorClaimEligibility, IsCurrentClaim
<1>4. /\ Len(decisions) \in Nat /\ DOMAIN decisions = 1..Len(decisions)
      /\ Len(decisions') = m /\ DOMAIN decisions' = 1..m
      /\ \A k \in DOMAIN decisions : decisions'[k] = decisions[k]
      /\ decisions'[m] = dc
  <2>1. decisions \in Seq(DecisionRows)
    BY DEF OperatorTypeOK
  <2> HIDE DEF DecisionRows, dc
  <2>2. QED
    BY <1>2, <2>1
<1>5. eligibility[d] \in EligibilityRows
  BY <1>2, TableTypes
<1>6. /\ eligibility'[d] = [eligibility[d] EXCEPT
                          !.state = IF decision = "suspend" THEN "suspended" ELSE "active",
                          !.decision = m, !.updatedAt = at]
      /\ \A x \in Deployments : x # d => eligibility'[x] = eligibility[x]
      /\ UNCHANGED <<events, nonces, network, submissions, status, reviews>>
  BY <1>1, <1>2 DEF DecidedEligibility
<1>7. /\ eligibility'[d].claim = eligibility[d].claim
      /\ eligibility'[d].group = eligibility[d].group
      /\ eligibility'[d].company = eligibility[d].company
      /\ eligibility'[d].review = eligibility[d].review
      /\ eligibility'[d].state = (IF decision = "suspend" THEN "suspended" ELSE "active")
      /\ eligibility'[d].decision = m /\ eligibility'[d].updatedAt = at
  BY <1>5, <1>6 DEF EligibilityRows
<1>8. QED
  BY <1>2, <1>3, <1>4, <1>6, <1>7 DEF DecisionWrites

(* Two deployments have no claim in common.                                *)
LEMMA ClaimsApart ==
    ASSUME StatusAudited, NEW d \in Deployments, NEW x \in Deployments, x # d,
           status[d].state # "none", status[x].state # "none"
    PROVE  status[x].claim # status[d].claim
<1>1. GenerationAudited(d, status[d], eligibility[d])
      /\ GenerationAudited(x, status[x], eligibility[x])
  BY DEF StatusAudited
<1>2. status[d].claim \in ClaimsOf(d) /\ status[x].claim \in ClaimsOf(x)
  BY <1>1 DEF GenerationAudited, NewestClaim
<1>3. QED
  BY <1>2 DEF ClaimsOf

(* A pending claim has neither a review nor a decision.                    *)
LEMMA PendingUnreviewed ==
    ASSUME OperatorTypeOK, StatusAudited, NEW d \in Deployments,
           status[d].state = "pending-review"
    PROVE  /\ status[d].review = 0 /\ eligibility[d].decision = 0
           /\ \A k \in DOMAIN reviews : reviews[k].claim # status[d].claim
           /\ \A k \in DOMAIN decisions : decisions[k].claim # status[d].claim
<1>1. /\ OnlyReview(status[d]) /\ StateFollows(d, status[d])
      /\ NewestDecision(status[d], eligibility[d])
  BY DEF StatusAudited, GenerationAudited
<1>2. status[d].review = 0
  <2>1. \A k \in DOMAIN reviews : reviews[k].decision # "pending-review"
    BY TableTypes DEF ReviewRows
  <2>2. QED
    BY <1>1, <2>1 DEF StateFollows, OnlyReview
<1>3. /\ \A k \in DOMAIN reviews : reviews[k].claim # status[d].claim
      /\ status[d].approvedAt = 0
  BY <1>1, <1>2 DEF OnlyReview
<1>4. QED
  BY <1>1, <1>2, <1>3 DEF NewestDecision

(* A review leaves rows that follow their sources.                         *)
LEMMA ReviewKeepsStatus ==
    ASSUME OperatorTypeOK, StatusAudited, NEW s \in submissions, NEW at \in Times,
           NEW decision \in {"approved", "rejected"}, DecideOperatorClaim(s, decision, at),
           NEW d, d = s.deployment, NEW m, m = Len(reviews) + 1
    PROVE  StatusAudited'
<1>0. ReviewWrites(s, decision, at, d, m)
  BY ReviewTables
<1>1. /\ d \in Deployments
      /\ status[d].claim = s.claim /\ status[d].state = "pending-review"
      /\ Len(reviews) \in Nat /\ DOMAIN reviews = 1..Len(reviews)
      /\ Len(reviews') = m /\ DOMAIN reviews' = 1..m
      /\ \A k \in DOMAIN reviews : reviews'[k] = reviews[k]
      /\ reviews'[m].claim = s.claim /\ reviews'[m].decision = decision /\ reviews'[m].at = at
      /\ UNCHANGED <<events, decisions>>
  BY <1>0 DEF ReviewWrites
<1>2. /\ status'[d].claim = s.claim /\ status'[d].group = status[d].group
      /\ status'[d].company = status[d].company
      /\ status'[d].submittedAt = status[d].submittedAt
      /\ status'[d].state = decision /\ status'[d].review = m
      /\ status'[d].approvedAt = (IF decision = "approved" THEN at ELSE 0)
      /\ status'[d].updatedAt = at
  BY <1>0 DEF ReviewWrites
<1>3. /\ eligibility'[d].claim = eligibility[d].claim
      /\ eligibility'[d].group = eligibility[d].group
      /\ eligibility'[d].company = eligibility[d].company
      /\ eligibility'[d].state = (IF decision = "approved" THEN "active" ELSE "inactive")
      /\ eligibility'[d].review = (IF decision = "approved" THEN m ELSE 0)
      /\ eligibility'[d].decision = 0 /\ eligibility'[d].updatedAt = at
  BY <1>0 DEF ReviewWrites
<1>4. \A x \in Deployments : x # d =>
                status'[x] = status[x] /\ eligibility'[x] = eligibility[x]
  BY <1>0 DEF ReviewWrites
<1>5. at # 0
  BY TimeAssumption DEF Times
<1>6. ASSUME NEW x \in Deployments, x # d
      PROVE  GenerationAudited(x, status[x], eligibility[x])'
  <2>1. GenerationAudited(x, status[x], eligibility[x])
    BY DEF StatusAudited
  <2>2. status'[x] = status[x] /\ eligibility'[x] = eligibility[x]
    BY <1>4, <1>6
  <2>3. ClaimsOf(x)' = ClaimsOf(x) /\ \A i : WithdrawalsAfter(x, i)' = WithdrawalsAfter(x, i)
    BY <1>1 DEF ClaimsOf, IsStructuredClaim, WithdrawalsAfter
  <2>4. CASE status[x].state = "none"
    BY <2>1, <2>2, <2>3, <2>4 DEF GenerationAudited
  <2>5. CASE status[x].state # "none"
    <3>1. /\ NewestClaim(x, status[x]) /\ OnlyReview(status[x]) /\ StateFollows(x, status[x])
          /\ NewestDecision(status[x], eligibility[x])
          /\ EligibilityFollows(status[x], eligibility[x])
      BY <2>1, <2>5 DEF GenerationAudited
    <3>2. status[x].claim # s.claim
      BY <1>1, <1>6, <2>5, ClaimsApart
    <3>3. NewestClaim(x, status[x])'
      BY <3>1, <2>2, <2>3, <1>1 DEF NewestClaim
    <3>4. NewestDecision(status[x], eligibility[x])'
          /\ EligibilityFollows(status[x], eligibility[x])'
      BY <3>1, <2>2, <1>1 DEF NewestDecision, EligibilityFollows
    <3>5. OnlyReview(status[x])'
      <4>1. \A k \in DOMAIN reviews' : k \in DOMAIN reviews \/ k = m
        BY <1>1
      <4>2. DOMAIN reviews \subseteq DOMAIN reviews'
        BY <1>1
      <4>3. QED
        BY <3>1, <3>2, <2>2, <1>1, <4>1, <4>2 DEF OnlyReview
    <3>6. StateFollows(x, status[x])'
      <4>1. status[x].review # 0 => status[x].review \in DOMAIN reviews
        BY <3>1 DEF OnlyReview
      <4>2. CASE status[x].state = "withdrawn"
        <5>1. PICK j \in DOMAIN events : EndedBy(x, status[x].claim, j)
                                         /\ status[x].updatedAt = events[j].at
          BY <3>1, <4>2 DEF StateFollows
        <5>2. PICK i : i = status[x].claim
          OBVIOUS
        <5>3. EndedBy(x, i, j)' /\ i = status'[x].claim
          BY <5>1, <5>2, <2>2, <2>3, <1>1 DEF EndedBy
        <5>4. QED
          BY <4>2, <5>1, <5>3, <2>2, <1>1 DEF StateFollows
      <4>3. CASE status[x].state # "withdrawn"
        <5>1. PICK i : i = status[x].claim
          OBVIOUS
        <5>2. WithdrawalsAfter(x, i)' = WithdrawalsAfter(x, i) /\ i = status'[x].claim
          BY <5>1, <2>2, <2>3
        <5>3. QED
          BY <4>1, <4>3, <5>1, <5>2, <3>1, <2>2, <1>1 DEF StateFollows
      <4>4. QED
        BY <4>2, <4>3
    <3>7. QED
      BY <2>2, <2>5, <3>3, <3>4, <3>5, <3>6 DEF GenerationAudited
  <2>6. QED
    BY <2>4, <2>5
<1>7. GenerationAudited(d, status[d], eligibility[d])'
  <2>1. /\ NewestClaim(d, status[d]) /\ StateFollows(d, status[d])
        /\ EligibilityFollows(status[d], eligibility[d])
    BY <1>1 DEF StatusAudited, GenerationAudited
  <2>2. /\ \A k \in DOMAIN reviews : reviews[k].claim # s.claim
        /\ \A k \in DOMAIN decisions : decisions[k].claim # s.claim
    BY <1>1, PendingUnreviewed
  <2>3. ClaimsOf(d)' = ClaimsOf(d) /\ \A i : WithdrawalsAfter(d, i)' = WithdrawalsAfter(d, i)
    BY <1>1 DEF ClaimsOf, IsStructuredClaim, WithdrawalsAfter
  <2>4. NewestClaim(d, status[d])'
    BY <1>1, <1>2, <2>1, <2>3 DEF NewestClaim
  <2>5. OnlyReview(status[d])'
    <3>1. \A k \in DOMAIN reviews' : k \in DOMAIN reviews \/ k = m
      BY <1>1
    <3>2. m \in DOMAIN reviews' /\ m # 0
      BY <1>1
    <3>3. QED
      BY <1>1, <1>2, <2>2, <3>1, <3>2 DEF OnlyReview
  <2>6. StateFollows(d, status[d])'
    <3>1. PICK i : i = s.claim
      OBVIOUS
    <3>2. WithdrawalsAfter(d, i) = {}
      BY <1>1, <2>1, <3>1 DEF StateFollows
    <3>3. WithdrawalsAfter(d, i)' = {} /\ i = status'[d].claim /\ m # 0
      BY <1>1, <1>2, <2>3, <3>1, <3>2
    <3>4. QED
      BY <1>1, <1>2, <3>3 DEF StateFollows
  <2>7. NewestDecision(status[d], eligibility[d])'
    BY <1>1, <1>2, <1>3, <2>2 DEF NewestDecision
  <2>8. EligibilityFollows(status[d], eligibility[d])'
    BY <1>1, <1>2, <1>3, <1>5, <2>1 DEF EligibilityFollows
  <2>9. QED
    BY <1>2, <2>4, <2>5, <2>6, <2>7, <2>8 DEF GenerationAudited
<1>8. QED
  BY <1>6, <1>7 DEF StatusAudited

(* An eligibility decision leaves rows that follow their sources.          *)
LEMMA DecisionKeepsStatus ==
    ASSUME OperatorTypeOK, StatusAudited, NEW s \in submissions, NEW at,
           NEW decision \in {"suspend", "reinstate"},
           DecideOperatorClaimEligibility(s, decision, at),
           NEW d, d = s.deployment, NEW m, m = Len(decisions) + 1
    PROVE  StatusAudited'
<1>0. DecisionWrites(s, decision, at, d, m)
  BY DecisionTables
<1>1. /\ d \in Deployments
      /\ status[d].claim = s.claim /\ status[d].state = "approved"
      /\ status[d].approvedAt <= at
      /\ Len(decisions) \in Nat /\ DOMAIN decisions = 1..Len(decisions)
      /\ Len(decisions') = m /\ DOMAIN decisions' = 1..m
      /\ \A k \in DOMAIN decisions : decisions'[k] = decisions[k]
      /\ decisions'[m].claim = s.claim /\ decisions'[m].decision = decision
      /\ decisions'[m].at = at
      /\ UNCHANGED <<events, status, reviews>>
  BY <1>0 DEF DecisionWrites
<1>2. /\ eligibility'[d].claim = eligibility[d].claim
      /\ eligibility'[d].group = eligibility[d].group
      /\ eligibility'[d].company = eligibility[d].company
      /\ eligibility'[d].review = eligibility[d].review
      /\ eligibility'[d].state = (IF decision = "suspend" THEN "suspended" ELSE "active")
      /\ eligibility'[d].decision = m /\ eligibility'[d].updatedAt = at
  BY <1>0 DEF DecisionWrites
<1>3. \A x \in Deployments : x # d => eligibility'[x] = eligibility[x]
  BY <1>0 DEF DecisionWrites
<1>4. ASSUME NEW x \in Deployments
      PROVE  /\ NewestClaim(x, status[x]) => NewestClaim(x, status[x])'
             /\ OnlyReview(status[x]) => OnlyReview(status[x])'
             /\ StateFollows(x, status[x]) => StateFollows(x, status[x])'
             /\ ClaimsOf(x)' = ClaimsOf(x)
  BY <1>1 DEF NewestClaim, OnlyReview, StateFollows, EndedBy, ClaimsOf, IsStructuredClaim,
              WithdrawalsAfter
<1>5. \A k \in DOMAIN decisions' : k \in DOMAIN decisions \/ k = m
  BY <1>1
<1>6. ASSUME NEW x \in Deployments, x # d
      PROVE  GenerationAudited(x, status[x], eligibility[x])'
  <2>1. GenerationAudited(x, status[x], eligibility[x])
    BY DEF StatusAudited
  <2>2. CASE status[x].state = "none"
    BY <1>1, <1>3, <1>4, <1>6, <2>1, <2>2 DEF GenerationAudited
  <2>3. CASE status[x].state # "none"
    <3>1. status[x].claim # s.claim
      BY <1>1, <1>6, <2>3, ClaimsApart
    <3>2. /\ NewestClaim(x, status[x]) /\ OnlyReview(status[x]) /\ StateFollows(x, status[x])
          /\ NewestDecision(status[x], eligibility[x])
          /\ EligibilityFollows(status[x], eligibility[x])
      BY <2>1, <2>3 DEF GenerationAudited
    <3>3. eligibility'[x] = eligibility[x]
      BY <1>3, <1>6
    <3>4. DOMAIN decisions \subseteq DOMAIN decisions'
      BY <1>1
    <3>5. NewestDecision(status[x], eligibility[x])'
      BY <3>1, <3>2, <3>3, <3>4, <1>1, <1>5 DEF NewestDecision
    <3>6. EligibilityFollows(status[x], eligibility[x])'
      <4>1. eligibility[x].decision # 0 => eligibility[x].decision \in DOMAIN decisions
        BY <3>2 DEF NewestDecision
      <4>2. QED
        BY <3>2, <3>3, <4>1, <1>1 DEF EligibilityFollows
    <3>7. QED
      BY <1>1, <1>4, <2>3, <3>2, <3>5, <3>6 DEF GenerationAudited
  <2>4. QED
    BY <2>2, <2>3
<1>7. GenerationAudited(d, status[d], eligibility[d])'
  <2>1. /\ NewestClaim(d, status[d]) /\ OnlyReview(status[d]) /\ StateFollows(d, status[d])
        /\ EligibilityFollows(status[d], eligibility[d])
    BY <1>1 DEF StatusAudited, GenerationAudited
  <2>2. status[d].approvedAt # 0
    <3>1. /\ status[d].review # 0
          /\ status[d].state = reviews[status[d].review].decision
      BY <1>1, <2>1 DEF StateFollows
    <3>2. status[d].review \in DOMAIN reviews
          /\ status[d].approvedAt = reviews[status[d].review].at
      BY <1>1, <2>1, <3>1 DEF OnlyReview
    <3>3. reviews[status[d].review].at \in Times
      BY <3>2, TableTypes DEF ReviewRows
    <3>4. QED
      BY <3>2, <3>3, TimeAssumption DEF Times
  <2>3. NewestDecision(status[d], eligibility[d])'
    <3>1. m # 0 /\ m \in DOMAIN decisions' /\ \A k \in DOMAIN decisions' : k <= m
      BY <1>1
    <3>2. QED
      BY <1>1, <1>2, <2>2, <3>1 DEF NewestDecision
  <2>4. EligibilityFollows(status[d], eligibility[d])'
    <3>1. m # 0
      BY <1>1
    <3>2. QED
      BY <1>1, <1>2, <2>1, <3>1 DEF EligibilityFollows
  <2>5. QED
    BY <1>1, <1>4, <2>1, <2>3, <2>4 DEF GenerationAudited
<1>8. QED
  BY <1>6, <1>7 DEF StatusAudited

-----------------------------------------------------------------------------
(* The review chain and the decision chain.                                *)

DecisionsFollow == \A k \in DOMAIN decisions : DecisionFollows(k)

(* A submission is that of the event that made its claim.                  *)
LEMMA SubmissionsByClaim ==
    ASSUME EventsAudited, NEW s \in submissions
    PROVE  /\ s.claim \in DOMAIN events /\ IsStructuredClaim(s.claim)
           /\ s = SubmissionOf(s.claim)
           /\ \A t \in submissions : t.claim = s.claim => t = s
<1>1. submissions = {SubmissionOf(i) : i \in {j \in DOMAIN events : IsStructuredClaim(j)}}
  BY DEF EventsAudited, VerifyOperatorAuditEvents
<1>2. \A i : SubmissionOf(i).claim = i
  BY DEF SubmissionOf
<1>3. ASSUME NEW t \in submissions
      PROVE  t.claim \in DOMAIN events /\ IsStructuredClaim(t.claim) /\ t = SubmissionOf(t.claim)
  <2>1. PICK i \in {j \in DOMAIN events : IsStructuredClaim(j)} : t = SubmissionOf(i)
    BY <1>1
  <2>2. t.claim = i
    BY <1>2, <2>1
  <2>3. QED
    BY <2>1, <2>2
<1>4. \A t \in submissions : t.claim = s.claim => t = s
  BY <1>3
<1>5. QED
  BY <1>3, <1>4

(* The submission of a current claim.                                      *)
LEMMA CurrentSubmission ==
    ASSUME EventsAudited, StatusAudited, NEW d \in Deployments, status[d].state # "none"
    PROVE  /\ SubmissionOf(status[d].claim) \in submissions
           /\ SubmissionOf(status[d].claim).claim = status[d].claim
           /\ SubmissionOf(status[d].claim).group = status[d].group
           /\ SubmissionOf(status[d].claim).at = status[d].submittedAt
<1>1. NewestClaim(d, status[d])
  BY DEF StatusAudited, GenerationAudited
<1>2. status[d].claim \in DOMAIN events /\ IsStructuredClaim(status[d].claim)
  BY <1>1 DEF NewestClaim, ClaimsOf
<1>3. SubmissionOf(status[d].claim) \in submissions
  BY <1>2 DEF EventsAudited, VerifyOperatorAuditEvents
<1>4. QED
  BY <1>1, <1>3 DEF NewestClaim, SubmissionOf

(* An event leaves the reviews and the decisions with their submissions.   *)
LEMMA SubmissionsGrow ==
    ASSUME VerifyOperatorClaimReviews, DecisionsFollow, submissions \subseteq submissions',
           UNCHANGED <<reviews, decisions>>
    PROVE  VerifyOperatorClaimReviews' /\ DecisionsFollow'
<1>1. VerifyOperatorClaimReviews'
  BY DEF VerifyOperatorClaimReviews
<1>2. ASSUME NEW k \in DOMAIN decisions PROVE DecisionFollows(k)'
  <2>1. DecisionFollows(k)
    BY <1>2 DEF DecisionsFollow
  <2>2. QED
    BY <2>1 DEF DecisionFollows
<1>3. QED
  BY <1>1, <1>2 DEF DecisionsFollow

(* A review names a submission that it is not older than, and is the first *)
(* of its claim.                                                           *)
LEMMA ReviewKeepsReviews ==
    ASSUME OperatorTypeOK, EventsAudited, StatusAudited, VerifyOperatorClaimReviews,
           NEW s \in submissions, NEW at \in Times,
           NEW decision \in {"approved", "rejected"}, DecideOperatorClaim(s, decision, at),
           NEW d, d = s.deployment, NEW m, m = Len(reviews) + 1
    PROVE  VerifyOperatorClaimReviews'
<1>0. ReviewWrites(s, decision, at, d, m)
  BY ReviewTables
<1>1. /\ d \in Deployments
      /\ status[d].claim = s.claim /\ status[d].state = "pending-review"
      /\ status[d].submittedAt <= at /\ HeadAt(reviews) <= at
      /\ Len(reviews) \in Nat /\ DOMAIN reviews = 1..Len(reviews)
      /\ Len(reviews') = m /\ DOMAIN reviews' = 1..m
      /\ \A k \in DOMAIN reviews : reviews'[k] = reviews[k]
      /\ reviews'[m] = [claim |-> s.claim, deployment |-> d, group |-> s.group,
                        company |-> s.company, decision |-> decision, at |-> at]
      /\ UNCHANGED submissions
  BY <1>0 DEF ReviewWrites
<1>2. /\ reviews'[m].claim = s.claim /\ reviews'[m].deployment = s.deployment
      /\ reviews'[m].group = s.group /\ reviews'[m].company = s.company
      /\ reviews'[m].at = at
  BY <1>1
<1>3. s.at = status[d].submittedAt
  BY <1>1, CurrentSubmission, SubmissionsByClaim
<1>4. \A k \in DOMAIN reviews' : k \in DOMAIN reviews \/ k = m
  BY <1>1
<1>5. \A k \in DOMAIN reviews' : \E t \in submissions' :
            /\ t.claim = reviews'[k].claim
            /\ t.deployment = reviews'[k].deployment
            /\ t.group = reviews'[k].group
            /\ t.company = reviews'[k].company
            /\ t.at <= reviews'[k].at
  BY <1>1, <1>2, <1>3, <1>4 DEF VerifyOperatorClaimReviews
<1>6. ASSUME NEW k \in 2..m PROVE reviews'[k - 1].at <= reviews'[k].at
  <2>1. CASE k = m
    <3>1. k - 1 = Len(reviews) /\ k - 1 \in DOMAIN reviews /\ reviews # <<>>
      BY <1>1, <2>1
    <3>2. QED
      BY <1>1, <1>2, <2>1, <3>1 DEF HeadAt
  <2>2. CASE k # m
    <3>1. k \in 2..Len(reviews) /\ k \in DOMAIN reviews /\ k - 1 \in DOMAIN reviews
      BY <1>1, <2>2
    <3>2. QED
      BY <1>1, <3>1 DEF VerifyOperatorClaimReviews
  <2>3. QED
    BY <2>1, <2>2
<1>7. \A k \in DOMAIN reviews : reviews[k].claim # s.claim
  BY <1>1, PendingUnreviewed
<1>8. \A k, l \in DOMAIN reviews' : reviews'[k].claim = reviews'[l].claim => k = l
  BY <1>1, <1>2, <1>4, <1>7 DEF VerifyOperatorClaimReviews
<1>9. QED
  BY <1>1, <1>5, <1>6, <1>8 DEF VerifyOperatorClaimReviews

(* A review leaves the decisions their approvals.                          *)
LEMMA ReviewKeepsDecisions ==
    ASSUME OperatorTypeOK, DecisionsFollow, NEW s \in submissions, NEW at,
           NEW decision, DecideOperatorClaim(s, decision, at),
           NEW d, d = s.deployment, NEW m, m = Len(reviews) + 1
    PROVE  DecisionsFollow'
<1>0. ReviewWrites(s, decision, at, d, m)
  BY ReviewTables
<1>1. /\ Len(reviews) \in Nat /\ DOMAIN reviews = 1..Len(reviews) /\ DOMAIN reviews' = 1..m
      /\ \A k \in DOMAIN reviews : reviews'[k] = reviews[k]
      /\ UNCHANGED <<submissions, decisions>>
  BY <1>0 DEF ReviewWrites
<1>2. DOMAIN reviews \subseteq DOMAIN reviews'
  BY <1>1
<1>3. ASSUME NEW k \in DOMAIN decisions PROVE DecisionFollows(k)'
  <2>1. DecisionFollows(k)
    BY <1>3 DEF DecisionsFollow
  <2>2. QED
    BY <1>1, <1>2, <2>1 DEF DecisionFollows
<1>4. QED
  BY <1>1, <1>3 DEF DecisionsFollow

(* The decisions on the claim of decision k before it.                     *)
Prior(k) == {l \in 1..(k - 1) : decisions[l].claim = decisions[k].claim}

(* Decision k follows the last one before it.                              *)
Alternates(k) ==
    IF decisions[k].decision = "suspend"
    THEN Prior(k) # {} => decisions[Newest(Prior(k))].decision = "reinstate"
    ELSE Prior(k) # {} /\ decisions[Newest(Prior(k))].decision = "suspend"

Grounded(k) ==
    /\ \E v \in DOMAIN reviews :
            /\ reviews[v].claim = decisions[k].claim
            /\ reviews[v].decision = "approved"
            /\ reviews[v].at <= decisions[k].at
    /\ \E s \in submissions :
            /\ s.claim = decisions[k].claim
            /\ s.deployment = decisions[k].deployment
            /\ s.group = decisions[k].group
            /\ s.company = decisions[k].company
    /\ k > 1 => decisions[k - 1].at <= decisions[k].at

(* A decision follows from its grounds and its place in the alternation.   *)
LEMMA DecisionParts == \A k : DecisionFollows(k) <=> Grounded(k) /\ Alternates(k)
BY Zenon DEF DecisionFollows, Grounded, Alternates, Prior, Newest

(* A decision follows the last one on its claim: it suspends what is not   *)
(* suspended, or reinstates what is.                                       *)
LEMMA DecisionKeepsDecisions ==
    ASSUME OperatorTypeOK, StatusAudited, DecisionsFollow,
           NEW s \in submissions, NEW at, NEW decision \in {"suspend", "reinstate"},
           DecideOperatorClaimEligibility(s, decision, at),
           NEW d, d = s.deployment, NEW m, m = Len(decisions) + 1
    PROVE  DecisionsFollow'
<1> DEFINE last == eligibility[d].decision
<1>0. DecisionWrites(s, decision, at, d, m)
  BY DecisionTables
<1>1. /\ d \in Deployments
      /\ status[d].claim = s.claim /\ status[d].state = "approved"
      /\ status[d].approvedAt <= at /\ HeadAt(decisions) <= at
      /\ eligibility[d].state = (IF decision = "suspend" THEN "active" ELSE "suspended")
      /\ Len(decisions) \in Nat /\ DOMAIN decisions = 1..Len(decisions)
      /\ DOMAIN decisions' = 1..m
      /\ \A k \in DOMAIN decisions : decisions'[k] = decisions[k]
      /\ decisions'[m] = [claim |-> s.claim, deployment |-> d, group |-> s.group,
                          company |-> s.company, decision |-> decision, at |-> at]
      /\ UNCHANGED <<submissions, reviews>>
  BY <1>0 DEF DecisionWrites
<1>2. /\ decisions'[m].claim = s.claim /\ decisions'[m].deployment = s.deployment
      /\ decisions'[m].group = s.group /\ decisions'[m].company = s.company
      /\ decisions'[m].decision = decision /\ decisions'[m].at = at
  BY <1>1
<1>3. ASSUME NEW k \in DOMAIN decisions PROVE DecisionFollows(k)'
  <2>1. Grounded(k) /\ Alternates(k)
    BY <1>3, DecisionParts DEF DecisionsFollow
  <2>2. Prior(k)' = Prior(k) /\ Prior(k) \in SUBSET (1..(k - 1)) /\ k - 1 \in Nat
    BY <1>1 DEF Prior
  <2>3. Prior(k) # {} => Newest(Prior(k)) \in DOMAIN decisions
    <3>1. SUFFICES ASSUME Prior(k) # {} PROVE Newest(Prior(k)) \in DOMAIN decisions
      OBVIOUS
    <3>2. PICK z \in Prior(k) : \A i \in Prior(k) : i <= z
      BY <2>2, <3>1, LargestElement
    <3>3. Newest(Prior(k)) = z
      BY <2>2, <3>2, NewestIs
    <3>4. QED
      BY <1>1, <2>2, <3>2, <3>3
  <2>4. PICK z : z = Newest(Prior(k))
    OBVIOUS
  <2>5. z = Newest(Prior(k))'
    BY <2>2, <2>4 DEF Newest
  <2>6. Alternates(k)'
    <3> HIDE DEF Newest, Prior
    <3>1. QED
      BY <1>1, <2>1, <2>2, <2>3, <2>4, <2>5 DEF Alternates
  <2>7. Grounded(k)'
    <3>1. k > 1 => k - 1 \in DOMAIN decisions
      BY <1>1
    <3>2. QED
      BY <1>1, <2>1, <3>1 DEF Grounded
  <2>8. QED
    BY <2>6, <2>7, Zenon DEF DecisionFollows, Grounded, Alternates, Prior, Newest
<1>4. DecisionFollows(m)'
  <2>1. /\ OnlyReview(status[d]) /\ StateFollows(d, status[d])
        /\ NewestDecision(status[d], eligibility[d])
        /\ EligibilityFollows(status[d], eligibility[d])
    BY <1>1 DEF StatusAudited, GenerationAudited
  <2>2. Grounded(m)'
    <3>1. /\ status[d].review # 0
          /\ status[d].state = reviews[status[d].review].decision
      BY <1>1, <2>1 DEF StateFollows
    <3>2. /\ status[d].review \in DOMAIN reviews
          /\ reviews[status[d].review].claim = s.claim
          /\ status[d].approvedAt = reviews[status[d].review].at
      BY <1>1, <2>1, <3>1 DEF OnlyReview
    <3>3. m > 1 => decisions'[m - 1].at <= at
      <4>1. ASSUME m > 1
            PROVE  m - 1 = Len(decisions) /\ m - 1 \in DOMAIN decisions /\ decisions # <<>>
        BY <1>1, <4>1
      <4>2. QED
        BY <1>1, <4>1 DEF HeadAt
    <3>4. QED
      BY <1>1, <1>2, <3>1, <3>2, <3>3 DEF Grounded
  <2>3. Prior(m)' = {l \in DOMAIN decisions : decisions[l].claim = s.claim}
    <3>1. 1..(m - 1) = DOMAIN decisions
      BY <1>1
    <3>2. QED
      BY <1>1, <1>2, <3>1 DEF Prior
  <2>4. Prior(m)' # {} <=> last # 0
    BY <1>1, <2>1, <2>3 DEF NewestDecision
  <2>5. last # 0 => /\ last \in DOMAIN decisions /\ Newest(Prior(m)') = last
                    /\ decisions[last].decision \in {"suspend", "reinstate"}
    <3>1. SUFFICES ASSUME last # 0 PROVE /\ last \in DOMAIN decisions
                                         /\ Newest(Prior(m)') = last
                                         /\ decisions[last].decision \in {"suspend", "reinstate"}
      OBVIOUS
    <3>2. /\ last \in DOMAIN decisions /\ last \in Prior(m)'
          /\ \A k \in Prior(m)' : k <= last
      BY <1>1, <2>1, <2>3, <3>1 DEF NewestDecision
    <3>3. Prior(m)' \in SUBSET Int
      BY <1>1, <2>3
    <3>4. decisions[last].decision \in {"suspend", "reinstate"}
      BY <3>2, TableTypes DEF DecisionRows
    <3>5. QED
      BY <3>2, <3>3, <3>4, NewestIs
  <2>6. PICK z : z = Newest(Prior(m)')
    OBVIOUS
  <2>7. z = Newest(Prior(m))'
    BY <2>6 DEF Newest
  <2>8. /\ decision = "suspend" => (last # 0 => decisions[last].decision = "reinstate")
        /\ decision # "suspend" => (last # 0 /\ decisions[last].decision = "suspend")
    BY <1>1, <2>1, <2>5 DEF EligibilityFollows
  <2>9. Alternates(m)'
    <3> HIDE DEF Newest, Prior, last
    <3>1. QED
      BY <1>1, <1>2, <2>4, <2>5, <2>6, <2>7, <2>8 DEF Alternates
  <2>10. QED
    BY <2>2, <2>9, Zenon DEF DecisionFollows, Grounded, Alternates, Prior, Newest
<1>5. \A k \in DOMAIN decisions' : k \in DOMAIN decisions \/ k = m
  BY <1>1
<1>6. QED
  BY <1>3, <1>4, <1>5 DEF DecisionsFollow

-----------------------------------------------------------------------------
(* The network rows are the events applied again.                          *)

NoRows == [d \in Deployments |-> InitialRow]

StepRows(i, rows) == [rows EXCEPT ![events[i].subject] = ApplyEvent(@, events[i], i)]

(* A function on 0..k built by the recursion of NetworkAt.                 *)
RowsBuilt(g, k) ==
    g = [i \in 0..k |-> IF i = 0 THEN NoRows ELSE StepRows(i, g[i - 1])]

(* Two such functions agree wherever both are defined.                     *)
LEMMA RowsBuiltOnce ==
    ASSUME NEW k \in Nat, NEW l \in Nat, NEW g, NEW h, RowsBuilt(g, k), RowsBuilt(h, l)
    PROVE  \A i \in Nat : i <= k /\ i <= l => g[i] = h[i]
<1> DEFINE T == {i \in Nat : i <= k /\ i <= l /\ g[i] # h[i]}
<1>1. SUFFICES ASSUME T # {} PROVE FALSE
  OBVIOUS
<1>2. PICK m \in T : \A y \in T : m <= y
  BY <1>1, SmallestElement
<1>3. m \in Nat /\ m <= k /\ m <= l /\ g[m] # h[m] /\ m \in 0..k /\ m \in 0..l
  BY <1>2
<1>4. /\ g[m] = IF m = 0 THEN NoRows ELSE StepRows(m, g[m - 1])
      /\ h[m] = IF m = 0 THEN NoRows ELSE StepRows(m, h[m - 1])
  BY <1>3 DEF RowsBuilt
<1>5. m # 0 => m - 1 \in Nat /\ m - 1 <= k /\ m - 1 <= l /\ ~(m <= m - 1)
  BY <1>3
<1>6. m # 0 => g[m - 1] = h[m - 1]
  BY <1>2, <1>5
<1>7. QED
  BY <1>3, <1>4, <1>6

(* There is one for every k.                                               *)
LEMMA RowsBuiltExists == \A k \in Nat : \E g : RowsBuilt(g, k)
<1> DEFINE T == {k \in Nat : ~\E g : RowsBuilt(g, k)}
<1>1. SUFFICES ASSUME T # {} PROVE FALSE
  OBVIOUS
<1>2. PICK m \in T : \A y \in T : m <= y
  BY <1>1, SmallestElement
<1>3. m \in Nat /\ ~\E g : RowsBuilt(g, m)
  BY <1>2
<1>4. CASE m = 0
  <2> DEFINE g == [i \in 0..0 |-> NoRows]
  <2>1. RowsBuilt(g, 0)
    BY DEF RowsBuilt
  <2>2. QED
    BY <1>3, <1>4, <2>1
<1>5. CASE m # 0
  <2>1. m - 1 \in Nat /\ ~(m <= m - 1)
    BY <1>3, <1>5
  <2>2. PICK h : RowsBuilt(h, m - 1)
    BY <1>2, <2>1
  <2> DEFINE g == [i \in 0..m |-> IF i = m THEN StepRows(m, h[m - 1]) ELSE h[i]]
  <2>3. \A i \in 0..m : i # m => i \in 0..(m - 1)
    BY <1>3
  <2>4. ASSUME NEW i \in 0..m
        PROVE  g[i] = IF i = 0 THEN NoRows ELSE StepRows(i, g[i - 1])
    <3>1. CASE i = m
      <4>1. m - 1 \in 0..m /\ m - 1 # m
        BY <2>1
      <4>2. g[m - 1] = h[m - 1] /\ g[m] = StepRows(m, h[m - 1])
        BY <4>1, <3>1
      <4>3. QED
        BY <1>5, <3>1, <4>2
    <3>2. CASE i # m
      <4>1. i \in 0..(m - 1)
        BY <2>3, <3>2
      <4>2. h[i] = IF i = 0 THEN NoRows ELSE StepRows(i, h[i - 1])
        BY <2>2, <4>1 DEF RowsBuilt
      <4>3. i # 0 => i - 1 \in 0..m /\ i - 1 # m
        BY <1>3, <4>1
      <4>4. QED
        BY <3>2, <4>2, <4>3
    <3>3. QED
      BY <3>1, <3>2
  <2>5. RowsBuilt(g, m)
    BY <2>4 DEF RowsBuilt
  <2>6. QED
    BY <1>3, <2>5
<1>6. QED
  BY <1>4, <1>5

(* So NetworkAt is a function, and follows its definition.                 *)
LEMMA RowsUnfolds ==
    \A i \in Nat : NetworkAt[i] = IF i = 0 THEN NoRows ELSE StepRows(i, NetworkAt[i - 1])
<1> DEFINE h == [i \in Nat |-> (CHOOSE g : RowsBuilt(g, i))[i]]
           body(f) == [i \in Nat |-> IF i = 0 THEN NoRows ELSE StepRows(i, f[i - 1])]
<1>1. ASSUME NEW i \in Nat
      PROVE  h[i] = IF i = 0 THEN NoRows ELSE StepRows(i, h[i - 1])
  <2>1. PICK g : g = CHOOSE x : RowsBuilt(x, i)
    OBVIOUS
  <2>2. RowsBuilt(g, i) /\ h[i] = g[i]
    BY <1>1, <2>1, RowsBuiltExists
  <2>3. g[i] = IF i = 0 THEN NoRows ELSE StepRows(i, g[i - 1])
    BY <1>1, <2>2 DEF RowsBuilt
  <2>4. ASSUME i # 0 PROVE h[i - 1] = g[i - 1]
    <3>1. i - 1 \in Nat /\ i - 1 <= i /\ i - 1 <= i - 1
      BY <1>1, <2>4
    <3>2. PICK g1 : g1 = CHOOSE x : RowsBuilt(x, i - 1)
      OBVIOUS
    <3>3. RowsBuilt(g1, i - 1) /\ h[i - 1] = g1[i - 1]
      BY <3>1, <3>2, RowsBuiltExists
    <3>4. QED
      BY <1>1, <2>2, <3>1, <3>3, RowsBuiltOnce
  <2>5. QED
    BY <2>2, <2>3, <2>4
<1>2. h = body(h)
  <2>1. h = [i \in Nat |-> h[i]]
    OBVIOUS
  <2> HIDE DEF h
  <2>2. QED
    BY <1>1, <2>1
<1>3. NetworkAt = CHOOSE f : f = body(f)
  BY Zenon DEF NetworkAt, NoRows, StepRows
<1>4. NetworkAt = body(NetworkAt)
  <2> HIDE DEF h, body
  <2>1. QED
    BY <1>2, <1>3
<1>5. QED
  BY <1>4

(* The rows after each event, up to the current ones.                      *)
NetworkHistory(f) ==
    /\ f[0] = NoRows
    /\ \A i \in 1..Len(events) : f[i] = StepRows(i, f[i - 1])
    /\ f[Len(events)] = network

(* The last rows of a history are those the audit rebuilds.                *)
LEMMA HistoryAudited ==
    ASSUME Len(events) \in Nat, \E f : NetworkHistory(f)
    PROVE  VerifyOperatorNetworkStateRows
<1>1. PICK f : NetworkHistory(f)
  OBVIOUS
<1> DEFINE T == {i \in Nat : i <= Len(events) /\ NetworkAt[i] # f[i]}
<1>2. T = {}
  <2>1. SUFFICES ASSUME T # {} PROVE FALSE
    OBVIOUS
  <2>2. PICK m \in T : \A y \in T : m <= y
    BY <2>1, SmallestElement
  <2>3. m \in Nat /\ m <= Len(events) /\ NetworkAt[m] # f[m]
    BY <2>2
  <2>4. NetworkAt[m] = IF m = 0 THEN NoRows ELSE StepRows(m, NetworkAt[m - 1])
    BY <2>3, RowsUnfolds
  <2>5. m # 0 => m - 1 \in Nat /\ m - 1 <= Len(events) /\ ~(m <= m - 1) /\ m \in 1..Len(events)
    BY <2>3
  <2>6. m # 0 => NetworkAt[m - 1] = f[m - 1]
    BY <2>2, <2>5
  <2>7. QED
    BY <1>1, <2>3, <2>4, <2>5, <2>6 DEF NetworkHistory
<1>3. NetworkAt[Len(events)] = f[Len(events)]
  BY <1>2
<1>4. QED
  BY <1>1, <1>3 DEF NetworkHistory, VerifyOperatorNetworkStateRows

(* An event extends the history.                                           *)
LEMMA EventKeepsHistory ==
    ASSUME OperatorTypeOK, \E f : NetworkHistory(f),
           NEW d \in Deployments, NEW r \in Requests(d), NEW at, NEW e, EventFor(r, at, e)
    PROVE  (\E f : NetworkHistory(f))'
<1>1. PICK n : n = Len(events) + 1
  OBVIOUS
<1>2. /\ Len(events) \in Nat /\ Len(events') = n /\ DOMAIN events = 1..Len(events)
      /\ \A i \in DOMAIN events : events'[i] = events[i]
      /\ events'[n] = e
  BY <1>1, EventTables, TableTypes
<1>3. network' = [network EXCEPT ![e.subject] = ApplyEvent(@, e, n)]
  BY <1>1 DEF EventFor, AppendOperatorAction
<1>4. PICK f : NetworkHistory(f)
  OBVIOUS
<1>5. PICK rows : rows = network'
  OBVIOUS
<1>6. PICK g : g = [i \in 0..n |-> IF i = n THEN rows ELSE f[i]]
  OBVIOUS
<1>7. g[0] = NoRows
  BY <1>1, <1>2, <1>4, <1>6 DEF NetworkHistory
<1>8. ASSUME NEW i \in 1..n PROVE g[i] = StepRows(i, g[i - 1])'
  <2>1. CASE i = n
    <3>0. Len(events) \in Nat /\ n \in Nat /\ n - 1 = Len(events)
      BY <1>1, <1>2
    <3>1. i - 1 \in 0..n /\ i - 1 # n /\ i - 1 = Len(events) /\ i \in 0..n
      BY <2>1, <3>0
    <3>2. g[i - 1] = network /\ g[i] = network'
      BY <1>4, <1>5, <1>6, <2>1, <3>1 DEF NetworkHistory
    <3>3. QED
      BY <1>2, <1>3, <2>1, <3>2 DEF StepRows
  <2>2. CASE i # n
    <3>1. i - 1 \in 0..n /\ i - 1 # n /\ i \in 0..n /\ i \in 1..Len(events)
      BY <1>1, <1>2, <2>2
    <3>2. g[i - 1] = f[i - 1] /\ g[i] = f[i] /\ events'[i] = events[i]
      BY <1>2, <1>6, <2>2, <3>1
    <3>3. f[i] = StepRows(i, f[i - 1])
      BY <1>4, <3>1 DEF NetworkHistory
    <3>4. QED
      BY <3>2, <3>3 DEF StepRows
  <2>3. QED
    BY <2>1, <2>2
<1>9. g[n] = network'
  BY <1>1, <1>2, <1>5, <1>6
<1>10. QED
  BY <1>2, <1>7, <1>8, <1>9 DEF NetworkHistory, NoRows

-----------------------------------------------------------------------------
(* The audit's replay.                                                     *)

NoAudit == [d \in Deployments |-> AuditRow]

StepReplay(i, rows) == [rows EXCEPT ![events[i].subject] = ReplayEvent(@, events[i], i)]

(* A function on 0..k built by the recursion of ReplayAt.                  *)
ReplayBuilt(g, k) ==
    g = [i \in 0..k |-> IF i = 0 THEN NoAudit ELSE StepReplay(i, g[i - 1])]

(* Two such functions agree wherever both are defined.                     *)
LEMMA ReplayBuiltOnce ==
    ASSUME NEW k \in Nat, NEW l \in Nat, NEW g, NEW h, ReplayBuilt(g, k), ReplayBuilt(h, l)
    PROVE  \A i \in Nat : i <= k /\ i <= l => g[i] = h[i]
<1> DEFINE T == {i \in Nat : i <= k /\ i <= l /\ g[i] # h[i]}
<1>1. SUFFICES ASSUME T # {} PROVE FALSE
  OBVIOUS
<1>2. PICK m \in T : \A y \in T : m <= y
  BY <1>1, SmallestElement
<1>3. m \in Nat /\ m <= k /\ m <= l /\ g[m] # h[m] /\ m \in 0..k /\ m \in 0..l
  BY <1>2
<1>4. /\ g[m] = IF m = 0 THEN NoAudit ELSE StepReplay(m, g[m - 1])
      /\ h[m] = IF m = 0 THEN NoAudit ELSE StepReplay(m, h[m - 1])
  BY <1>3 DEF ReplayBuilt
<1>5. m # 0 => m - 1 \in Nat /\ m - 1 <= k /\ m - 1 <= l /\ ~(m <= m - 1)
  BY <1>3
<1>6. m # 0 => g[m - 1] = h[m - 1]
  BY <1>2, <1>5
<1>7. QED
  BY <1>3, <1>4, <1>6

(* There is one for every k.                                               *)
LEMMA ReplayBuiltExists == \A k \in Nat : \E g : ReplayBuilt(g, k)
<1> DEFINE T == {k \in Nat : ~\E g : ReplayBuilt(g, k)}
<1>1. SUFFICES ASSUME T # {} PROVE FALSE
  OBVIOUS
<1>2. PICK m \in T : \A y \in T : m <= y
  BY <1>1, SmallestElement
<1>3. m \in Nat /\ ~\E g : ReplayBuilt(g, m)
  BY <1>2
<1>4. CASE m = 0
  <2> DEFINE g == [i \in 0..0 |-> NoAudit]
  <2>1. ReplayBuilt(g, 0)
    BY DEF ReplayBuilt
  <2>2. QED
    BY <1>3, <1>4, <2>1
<1>5. CASE m # 0
  <2>1. m - 1 \in Nat /\ ~(m <= m - 1)
    BY <1>3, <1>5
  <2>2. PICK h : ReplayBuilt(h, m - 1)
    BY <1>2, <2>1
  <2> DEFINE g == [i \in 0..m |-> IF i = m THEN StepReplay(m, h[m - 1]) ELSE h[i]]
  <2>3. \A i \in 0..m : i # m => i \in 0..(m - 1)
    BY <1>3
  <2>4. ASSUME NEW i \in 0..m
        PROVE  g[i] = IF i = 0 THEN NoAudit ELSE StepReplay(i, g[i - 1])
    <3>1. CASE i = m
      <4>1. m - 1 \in 0..m /\ m - 1 # m
        BY <2>1
      <4>2. g[m - 1] = h[m - 1] /\ g[m] = StepReplay(m, h[m - 1])
        BY <4>1, <3>1
      <4>3. QED
        BY <1>5, <3>1, <4>2
    <3>2. CASE i # m
      <4>1. i \in 0..(m - 1)
        BY <2>3, <3>2
      <4>2. h[i] = IF i = 0 THEN NoAudit ELSE StepReplay(i, h[i - 1])
        BY <2>2, <4>1 DEF ReplayBuilt
      <4>3. i # 0 => i - 1 \in 0..m /\ i - 1 # m
        BY <1>3, <4>1
      <4>4. QED
        BY <3>2, <4>2, <4>3
    <3>3. QED
      BY <3>1, <3>2
  <2>5. ReplayBuilt(g, m)
    BY <2>4 DEF ReplayBuilt
  <2>6. QED
    BY <1>3, <2>5
<1>6. QED
  BY <1>4, <1>5

(* So ReplayAt is a function, and follows its definition.                  *)
LEMMA ReplayUnfolds ==
    \A i \in Nat : ReplayAt[i] = IF i = 0 THEN NoAudit ELSE StepReplay(i, ReplayAt[i - 1])
<1> DEFINE h == [i \in Nat |-> (CHOOSE g : ReplayBuilt(g, i))[i]]
           body(f) == [i \in Nat |-> IF i = 0 THEN NoAudit ELSE StepReplay(i, f[i - 1])]
<1>1. ASSUME NEW i \in Nat
      PROVE  h[i] = IF i = 0 THEN NoAudit ELSE StepReplay(i, h[i - 1])
  <2>1. PICK g : g = CHOOSE x : ReplayBuilt(x, i)
    OBVIOUS
  <2>2. ReplayBuilt(g, i) /\ h[i] = g[i]
    BY <1>1, <2>1, ReplayBuiltExists
  <2>3. g[i] = IF i = 0 THEN NoAudit ELSE StepReplay(i, g[i - 1])
    BY <1>1, <2>2 DEF ReplayBuilt
  <2>4. ASSUME i # 0 PROVE h[i - 1] = g[i - 1]
    <3>1. i - 1 \in Nat /\ i - 1 <= i /\ i - 1 <= i - 1
      BY <1>1, <2>4
    <3>2. PICK g1 : g1 = CHOOSE x : ReplayBuilt(x, i - 1)
      OBVIOUS
    <3>3. ReplayBuilt(g1, i - 1) /\ h[i - 1] = g1[i - 1]
      BY <3>1, <3>2, ReplayBuiltExists
    <3>4. QED
      BY <1>1, <2>2, <3>1, <3>3, ReplayBuiltOnce
  <2>5. QED
    BY <2>2, <2>3, <2>4
<1>2. h = body(h)
  <2>1. h = [i \in Nat |-> h[i]]
    OBVIOUS
  <2> HIDE DEF h
  <2>2. QED
    BY <1>1, <2>1
<1>3. ReplayAt = CHOOSE f : f = body(f)
  BY Zenon DEF ReplayAt, NoAudit, StepReplay
<1>4. ReplayAt = body(ReplayAt)
  <2> HIDE DEF h, body
  <2>1. QED
    BY <1>2, <1>3
<1>5. QED
  BY <1>4

(* A row of the replay and the network row of the same deployment: they    *)
(* may differ only in what an unclaimed row has left over.                 *)
AuditRows ==
    [active: BOOLEAN, claimed: BOOLEAN, claim: Nat, group: Nat, effective: Nat,
     company: AnyCompany, link: Nat, related: AnyDeployment]

Agree(row, net) ==
    /\ row.active = net.active
    /\ row.claimed = net.claimed
    /\ net.claimed =>
        /\ row.claim = net.profile
        /\ row.group = net.group
        /\ row.effective = net.effective
        /\ row.company = net.company
        /\ row.link = net.link
        /\ row.related = net.related

(* The rows of the replay after each event, each event authorized by the   *)
(* ones before it, up to rows that agree with the network's.               *)
ReplayHistory(g) ==
    /\ g[0] = NoAudit
    /\ \A i \in 1..Len(events) :
            g[i] = StepReplay(i, g[i - 1]) /\ Authorized(i, g[i - 1])
    /\ g[Len(events)] \in [Deployments -> AuditRows]
    /\ \A d \in Deployments : Agree(g[Len(events)][d], network[d])

(* With such rows the events pass the audit's replay.                      *)
LEMMA ReplayAudited ==
    ASSUME Len(events) \in Nat, DOMAIN events = 1..Len(events), \E g : ReplayHistory(g)
    PROVE  VerifyOperatorActionSemantics
<1>1. PICK g : ReplayHistory(g)
  OBVIOUS
<1> DEFINE T == {i \in Nat : i <= Len(events) /\ ReplayAt[i] # g[i]}
<1>2. T = {}
  <2>1. SUFFICES ASSUME T # {} PROVE FALSE
    OBVIOUS
  <2>2. PICK m \in T : \A y \in T : m <= y
    BY <2>1, SmallestElement
  <2>3. m \in Nat /\ m <= Len(events) /\ ReplayAt[m] # g[m]
    BY <2>2
  <2>4. ReplayAt[m] = IF m = 0 THEN NoAudit ELSE StepReplay(m, ReplayAt[m - 1])
    BY <2>3, ReplayUnfolds
  <2>5. m # 0 => m - 1 \in Nat /\ m - 1 <= Len(events) /\ ~(m <= m - 1) /\ m \in 1..Len(events)
    BY <2>3
  <2>6. m # 0 => ReplayAt[m - 1] = g[m - 1]
    BY <2>2, <2>5
  <2>7. QED
    BY <1>1, <2>3, <2>4, <2>5, <2>6 DEF ReplayHistory
<1>3. ASSUME NEW i \in DOMAIN events PROVE Authorized(i, ReplayAt[i - 1])
  <2>1. i - 1 \in Nat /\ i - 1 <= Len(events) /\ i \in 1..Len(events)
    OBVIOUS
  <2>2. ReplayAt[i - 1] = g[i - 1]
    BY <1>2, <2>1
  <2>3. QED
    BY <1>1, <2>1, <2>2 DEF ReplayHistory
<1>4. QED
  BY <1>3 DEF VerifyOperatorActionSemantics

(* A claim has one submission.                                             *)
OneSubmission == \A s, t \in submissions : s.claim = t.claim => s = t

(* Audited events give a claim one submission.                             *)
LEMMA OneSubmissionHolds == EventsAudited => OneSubmission
BY SubmissionsByClaim DEF OneSubmission

(* The tables only grow, and a new submission is of a new event.           *)
TablesGrow ==
    /\ DOMAIN events = 1..Len(events) /\ Len(events) \in Nat
    /\ DOMAIN events \subseteq DOMAIN events'
    /\ \A i \in DOMAIN events : events'[i] = events[i]
    /\ submissions \subseteq submissions'
    /\ \A s \in submissions' : s.claim \in DOMAIN events => s \in submissions
    /\ DOMAIN reviews \subseteq DOMAIN reviews'
    /\ \A k \in DOMAIN reviews : reviews'[k] = reviews[k]
    /\ OneSubmission /\ OneSubmission'

(* An approved source stays one, with its group.                           *)
LEMMA SourceKept ==
    ASSUME TablesGrow, VerifyOperatorClaimReviews, NEW row, NEW at, ApprovedSource(row, at)
    PROVE  ApprovedSource(row, at)' /\ SourceGroup(row)' = SourceGroup(row)
<1>1. ApprovedSource(row, at)'
  BY DEF TablesGrow, ApprovedSource
<1>2. PICK s \in submissions : s.claim = row.claim
  BY DEF ApprovedSource, VerifyOperatorClaimReviews
<1>3. \A t \in submissions : t.claim = row.claim => t = s
  BY <1>2 DEF TablesGrow, OneSubmission
<1>4. s \in submissions' /\ \A t \in submissions' : t.claim = row.claim => t = s
  BY <1>2 DEF TablesGrow, OneSubmission
<1>5. (CHOOSE t \in submissions : t.claim = row.claim) = s
  BY <1>2, <1>3
<1>6. (CHOOSE t \in submissions' : t.claim = row.claim) = s
  BY <1>2, <1>4
<1>7. QED
  BY <1>1, <1>5, <1>6, Zenon DEF SourceGroup

(* What an event was allowed to do stays so, and it is replayed the same.  *)
LEMMA AuthorizedKept ==
    ASSUME TablesGrow, VerifyOperatorClaimReviews, NEW i \in DOMAIN events, NEW before,
           Authorized(i, before)
    PROVE  Authorized(i, before)' /\ StepReplay(i, before)' = StepReplay(i, before)
<1>1. events'[i] = events[i] /\ i \in Nat
      /\ \A j \in 1..(i - 1) : j \in DOMAIN events /\ events'[j] = events[j]
  BY DEF TablesGrow
<1>2. (\E s \in submissions : s.claim = i)' <=> \E s \in submissions : s.claim = i
  BY DEF TablesGrow
<1>3. StepReplay(i, before)' = StepReplay(i, before)
  <2>1. PICK e : e = events[i]
    OBVIOUS
  <2>2. PICK b : b = (\E s \in submissions : s.claim = i)
    OBVIOUS
  <2>3. \A row : ReplayEvent(row, e, i)' = ReplayEvent(row, e, i)
    BY <1>2 DEF ReplayEvent
  <2>4. QED
    BY <1>1, <2>1, <2>3 DEF StepReplay
<1>4. PICK e : e = events[i]
  OBVIOUS
<1>5. e = events'[i]
  BY <1>1, <1>4
<1>6. ASSUME NEW row, IssueAuthorized(row, e) PROVE IssueAuthorized(row, e)'
  <2>1. ApprovedSource(row, e.at)
    BY <1>6 DEF IssueAuthorized
  <2>2. PICK at : at = e.at
    OBVIOUS
  <2>3. ApprovedSource(row, at)' /\ SourceGroup(row)' = SourceGroup(row)
    BY <2>1, <2>2, SourceKept
  <2>4. QED
    BY <1>6, <2>2, <2>3 DEF IssueAuthorized
<1>7. RevocationAuthorized(i) => RevocationAuthorized(i)'
  <2>1. SUFFICES ASSUME RevocationAuthorized(i) PROVE RevocationAuthorized(i)'
    OBVIOUS
  <2>2. \A t \in 1..(i - 1) : \A j \in (t + 1)..(i - 1) : j \in 1..(i - 1)
    BY <1>1
  <2>3. QED
    BY <1>1, <2>1, <2>2 DEF RevocationAuthorized
<1>8. RedemptionAuthorized(i, before) => RedemptionAuthorized(i, before)'
  <2>1. SUFFICES ASSUME RedemptionAuthorized(i, before) PROVE RedemptionAuthorized(i, before)'
    OBVIOUS
  <2>2. \A t \in 1..(i - 1) : \A j \in (t + 1)..(i - 1) : j \in 1..(i - 1)
    BY <1>1
  <2>3. PICK issuer : issuer = before[e.related]
    OBVIOUS
  <2>4. PICK at : at = e.at
    OBVIOUS
  <2>5. ApprovedSource(issuer, at)
    BY <1>4, <2>1, <2>3, <2>4 DEF RedemptionAuthorized
  <2>6. ApprovedSource(issuer, at)' /\ SourceGroup(issuer)' = SourceGroup(issuer)
    BY <2>5, SourceKept
  <2> HIDE DEF ApprovedSource, SourceGroup
  <2>7. QED
    BY <1>1, <1>2, <1>4, <1>5, <2>1, <2>2, <2>3, <2>4, <2>6 DEF RedemptionAuthorized
<1>9. \A row : DeactivationAuthorized(row, e)' <=> DeactivationAuthorized(row, e)
  BY DEF DeactivationAuthorized
<1>10. PICK row : row = before[e.subject]
  OBVIOUS
<1>11. IssueAuthorized(row, e) => IssueAuthorized(row, e)'
  BY <1>6
<1>12. DeactivationAuthorized(row, e)' <=> DeactivationAuthorized(row, e)
  BY <1>9
<1>13. Authorized(i, before)'
  <2> HIDE DEF IssueAuthorized, RevocationAuthorized, RedemptionAuthorized,
               DeactivationAuthorized
  <2>1. QED
    BY <1>4, <1>5, <1>7, <1>8, <1>10, <1>11, <1>12 DEF Authorized
<1>14. QED
  BY <1>3, <1>13

(* An event only adds to the tables.                                       *)
LEMMA EventGrows ==
    ASSUME OperatorTypeOK, EventsAudited, NEW d \in Deployments, NEW r \in Requests(d),
           NEW at, NEW e, EventFor(r, at, e), Extends(at), NEW n, n = Len(events) + 1
    PROVE  /\ TablesGrow
           /\ (\E s \in submissions : s.claim = n)' <=> DerivedClaim(e) \/ DerivedClaimCopy(e)
<1>1. /\ DOMAIN events = 1..Len(events) /\ Len(events) \in Nat /\ DOMAIN events' = 1..n
      /\ \A i \in DOMAIN events : events'[i] = events[i]
      /\ UNCHANGED reviews
      /\ n \notin DOMAIN events
  BY EventTables, TableTypes
<1>2. EventsAudited'
  BY EventKeepsAudit
<1>3. OneSubmission /\ OneSubmission'
  BY <1>2, OneSubmissionHolds, PTL
<1>4. \A s \in submissions : s.claim \in DOMAIN events
  BY SubmissionsByClaim
<1>5. CASE DerivedClaim(e) \/ DerivedClaimCopy(e)
  <2> DEFINE x == [claim |-> n, deployment |-> e.deployment, group |-> e.group,
                   company |-> e.company, at |-> e.at]
  <2>1. submissions' = submissions \cup {x}
    BY <1>5 DEF DerivedClaim, DerivedClaimCopy, WritePendingClaim
  <2>2. x.claim = n
    OBVIOUS
  <2> HIDE DEF x
  <2>3. \E s \in submissions' : s.claim = n
    BY <2>1, <2>2
  <2>4. \A s \in submissions' : s \in submissions \/ s.claim = n
    BY <2>1, <2>2
  <2>5. submissions \subseteq submissions'
    BY <2>1
  <2>6. QED
    BY <1>1, <1>3, <1>5, <2>3, <2>4, <2>5 DEF TablesGrow
<1>6. CASE ~(DerivedClaim(e) \/ DerivedClaimCopy(e))
  <2>1. submissions' = submissions
    BY <1>6
       DEF EventFor, DerivedEvent, DerivedWithdrawal, DerivedIssue, DerivedTokenRevocation,
           DerivedLink, DerivedLinkRevocation, DerivedDeactivation, DerivedReactivation,
           WithdrawCurrentClaim, KeepClaims
  <2>2. QED
    BY <1>1, <1>3, <1>4, <1>6, <2>1 DEF TablesGrow
<1>7. QED
  BY <1>5, <1>6

(* An approved claim is an approved source for the replay.                 *)
LEMMA ApprovedInReplay ==
    ASSUME OperatorTypeOK, ClaimRowsOK, EventsAudited, StatusAudited, TablesGrow,
           NEW x \in Deployments, network[x].claimed, NEW group, NEW at,
           ApprovedClaim(x, group, at), NEW row, Agree(row, network[x])
    PROVE  ApprovedSource(row, at)' /\ SourceGroup(row)' = group
<1> DEFINE st == status[x]
<1>1. /\ st.state = "approved" /\ st.group = group /\ st.approvedAt <= at
      /\ row.claim = st.claim
  BY DEF ApprovedClaim, ClaimRowsOK, Agree
<1>2. OnlyReview(st) /\ StateFollows(x, st)
  BY <1>1 DEF StatusAudited, GenerationAudited
<1>3. st.review # 0 /\ st.state = reviews[st.review].decision
  BY <1>1, <1>2 DEF StateFollows
<1>4. /\ st.review \in DOMAIN reviews /\ reviews[st.review].claim = st.claim
      /\ st.approvedAt = reviews[st.review].at
  BY <1>1, <1>2, <1>3 DEF OnlyReview
<1>5. ApprovedSource(row, at)'
  BY <1>1, <1>3, <1>4 DEF ApprovedSource, TablesGrow
<1>6. PICK s \in submissions : s.claim = row.claim /\ s.group = group
  BY <1>1, CurrentSubmission
<1>7. s \in submissions' /\ \A t \in submissions' : t.claim = row.claim => t = s
  BY <1>6 DEF TablesGrow, OneSubmission
<1>8. (CHOOSE t \in submissions' : t.claim = row.claim) = s
  BY <1>6, <1>7
<1>9. QED
  BY <1>5, <1>6, <1>8, Zenon DEF SourceGroup

(* The replay authorizes a new event.                                      *)
LEMMA EventAuthorized ==
    ASSUME OperatorTypeOK, ClaimRowsOK, EventsAudited, StatusAudited,
           NEW d \in Deployments, NEW r \in Requests(d), NEW at, NEW e,
           EventFor(r, at, e), Extends(at), NEW n, n = Len(events) + 1,
           NEW before, \A x \in Deployments : Agree(before[x], network[x])
    PROVE  Authorized(n, before)'
<1>1. /\ DOMAIN events = 1..Len(events) /\ Len(events) \in Nat /\ DOMAIN events' = 1..n
      /\ \A i \in DOMAIN events : events'[i] = events[i]
      /\ events'[n] = e /\ e.deployment = d /\ DerivedEvent(e) /\ e.subject \in Deployments
      /\ 1..(n - 1) = DOMAIN events /\ n \in Nat
  BY EventTables, TableTypes DEF EventFor
<1>2. TablesGrow
  BY EventGrows
<1>3. (\E s \in submissions : s.claim = n)' <=> DerivedClaim(e) \/ DerivedClaimCopy(e)
  BY EventGrows
<1>4. Agree(before[e.subject], network[e.subject])
  BY <1>1
<1>5. PICK row : row = before[e.subject]
  OBVIOUS
<1>6. CASE DerivedIssue(e)
  <2>1. /\ network[e.subject].active /\ network[e.subject].claimed
        /\ e.group = network[e.subject].effective
        /\ ApprovedClaim(e.subject, e.group, e.at) /\ e.expires = e.at + e.payload.ttl
    BY <1>6 DEF DerivedIssue
  <2>2. PICK t, g : t = e.at /\ g = e.group
    OBVIOUS
  <2>3. ApprovedSource(row, t)' /\ SourceGroup(row)' = g
    BY <1>1, <1>2, <1>4, <1>5, <2>1, <2>2, ApprovedInReplay
  <2>4. row.active /\ row.claimed /\ row.effective = e.group
    BY <1>4, <1>5, <2>1 DEF Agree
  <2>5. IssueAuthorized(row, e)'
    BY <2>1, <2>2, <2>3, <2>4 DEF IssueAuthorized
  <2>6. e.payload.action = "issue-client-token"
    BY <1>6 DEF DerivedIssue
  <2>7. QED
    BY <1>1, <1>5, <2>5, <2>6 DEF Authorized
<1>7. CASE DerivedTokenRevocation(e)
  <2>1. /\ e.payload.action = "revoke-client-token" /\ e.token \in DOMAIN events
        /\ ActiveClientToken(e.token, FALSE, e.at)
        /\ events[e.token].deployment = e.deployment
        /\ e.group = events[e.token].group
    BY <1>7 DEF DerivedTokenRevocation
  <2>2. PICK t : t = e.token
    OBVIOUS
  <2>3. /\ events[t].payload.action = "issue-client-token" /\ e.at < events[t].expires
        /\ \A j \in DOMAIN events : j > t /\ events[j].payload.action = "revoke-client-token"
                => events[j].token # t
    BY <2>1, <2>2 DEF ActiveClientToken, TokenRevoked, Later
  <2>4. \A j \in (t + 1)..(n - 1) : j \in DOMAIN events /\ j > t
    BY <1>1, <2>1, <2>2
  <2>5. RevocationAuthorized(n)'
    BY <1>1, <2>1, <2>2, <2>3, <2>4 DEF RevocationAuthorized
  <2>6. QED
    BY <1>1, <2>1, <2>5 DEF Authorized
<1>8. CASE DerivedLink(e) \/ DerivedClaimCopy(e)
  <2>1. PICK t, x : t = e.token /\ x = e.related
    OBVIOUS
  <2>2. /\ e.payload.action = "redeem-client-token" /\ t \in DOMAIN events
        /\ MayRedeem(e.subject, t, e.at)
        /\ e.group = events[t].group /\ x = events[t].deployment
    BY <1>8, <2>1 DEF DerivedLink, DerivedClaimCopy, DerivedRedemption
  <2>3. /\ ActiveClientToken(t, TRUE, e.at)
        /\ network[x].active /\ network[x].claimed
        /\ MembershipGroup(x) = events[t].group
        /\ ApprovedClaim(x, events[t].group, e.at)
    BY <2>2 DEF MayRedeem
  <2>4. x \in Deployments
    BY <2>2, TableTypes DEF EventRows
  <2>5. /\ events[t].payload.action = "issue-client-token" /\ e.at < events[t].expires
        /\ \A j \in DOMAIN events :
                /\ j > t
                /\ events[j].payload.action \in {"revoke-client-token", "redeem-client-token"}
                => events[j].token # t
    BY <2>3 DEF ActiveClientToken, TokenRevoked, TokenRedeemed, Later
  <2>6. \A j \in (t + 1)..(n - 1) : j \in DOMAIN events /\ j > t
    BY <1>1, <2>2
  <2>7. PICK issuer : issuer = before[x]
    OBVIOUS
  <2>8. Agree(issuer, network[x])
    BY <2>4, <2>7
  <2>9. issuer.active /\ issuer.claimed /\ issuer.effective = events[t].group
    BY <2>3, <2>8 DEF Agree, MembershipGroup
  <2>10. PICK z, g : z = e.at /\ g = events[t].group
    OBVIOUS
  <2>11. ApprovedSource(issuer, z)' /\ SourceGroup(issuer)' = g
    BY <1>2, <2>3, <2>4, <2>8, <2>10, ApprovedInReplay
  <2>12. CASE DerivedLink(e)
    <3>1. ~(DerivedClaim(e) \/ DerivedClaimCopy(e)) /\ network[e.subject].claimed
          /\ e.link = n /\ e.source = 0
      BY <2>12 DEF DerivedLink, DerivedClaimCopy, DerivedClaim, DerivedRedemption
    <3>2. ~(\E s \in submissions : s.claim = n)' /\ row.claimed /\ e.link # 0 /\ e.source = 0
      BY <1>1, <1>3, <1>4, <1>5, <3>1 DEF Agree
    <3> HIDE DEF ApprovedSource, SourceGroup
    <3>3. RedemptionAuthorized(n, before)'
      BY <1>1, <1>5, <2>1, <2>2, <2>5, <2>6, <2>7, <2>9, <2>10, <2>11, <3>2, SMTT(30)
         DEF RedemptionAuthorized
    <3>4. QED
      BY <1>1, <2>2, <3>3 DEF Authorized
  <2>13. CASE DerivedClaimCopy(e)
    <3>1. /\ (\E s \in submissions : s.claim = n)'
          /\ ~network[e.subject].claimed
          /\ e.source = status[x].claim /\ e.company = status[x].company
      BY <1>3, <2>1, <2>13 DEF DerivedClaimCopy
    <3>2. network[x].profile = status[x].claim /\ network[x].company = status[x].company
      BY <2>3, <2>4 DEF ClaimRowsOK
    <3>3. ~row.claimed /\ e.source = issuer.claim /\ e.company = issuer.company
      BY <1>4, <1>5, <2>3, <2>8, <3>1, <3>2 DEF Agree
    <3> HIDE DEF ApprovedSource, SourceGroup
    <3>4. RedemptionAuthorized(n, before)'
      BY <1>1, <1>5, <2>1, <2>2, <2>5, <2>6, <2>7, <2>9, <2>10, <2>11, <3>1, <3>3, SMTT(30)
         DEF RedemptionAuthorized
    <3>5. QED
      BY <1>1, <2>2, <3>4 DEF Authorized
  <2>14. QED
    BY <1>8, <2>12, <2>13
<1>9. CASE DerivedDeactivation(e)
  <2>1. e.payload.action = "deactivate-deployment"
    BY <1>9 DEF DerivedDeactivation
  <2>2. DeactivationAuthorized(row, e)
    <3>1. CASE network[e.subject].claimed
      BY <1>4, <1>5, <1>9, <3>1 DEF DerivedDeactivation, DeactivationAuthorized, Agree
    <3>2. CASE ~network[e.subject].claimed
      BY <1>4, <1>5, <1>9, <3>2 DEF DerivedDeactivation, DeactivationAuthorized, Agree
    <3>3. QED
      BY <3>1, <3>2
  <2>3. DeactivationAuthorized(row, e)'
    BY <2>2 DEF DeactivationAuthorized
  <2>4. QED
    BY <1>1, <1>5, <2>1, <2>3 DEF Authorized
<1>10. CASE DerivedReactivation(e)
  <2>1. e.payload.action = "reactivate-deployment" /\ ~row.active
    BY <1>4, <1>5, <1>10 DEF DerivedReactivation, Agree
  <2>2. QED
    BY <1>1, <1>5, <2>1 DEF Authorized
<1>11. CASE DerivedClaim(e) \/ DerivedWithdrawal(e) \/ DerivedLinkRevocation(e)
  <2>1. e.payload.action \in {"claim", "withdraw-claim", "revoke-group-link"}
    BY <1>11 DEF DerivedClaim, DerivedWithdrawal, DerivedLinkRevocation
  <2>2. QED
    BY <1>1, <2>1 DEF Authorized
<1>12. QED
  BY <1>1, <1>6, <1>7, <1>8, <1>9, <1>10, <1>11 DEF DerivedEvent

(* The replay of a new event agrees with the network row it writes.        *)
LEMMA EventReplayed ==
    ASSUME OperatorTypeOK, ClaimRowsOK, EventsAudited,
           NEW d \in Deployments, NEW r \in Requests(d), NEW at, NEW e,
           EventFor(r, at, e), Extends(at), NEW n, n = Len(events) + 1,
           NEW row \in AuditRows, Agree(row, network[e.subject])
    PROVE  /\ ReplayEvent(row, e, n)' \in AuditRows
           /\ Agree(ReplayEvent(row, e, n)', network'[e.subject])
<1> DEFINE old == network[e.subject]
           new == network'[e.subject]
<1>1. /\ DerivedEvent(e) /\ e.subject \in Deployments /\ e.deployment = d /\ n \in Nat
  BY EventTables, TableTypes DEF EventFor
<1>2. RowEffect(e, old, new)
  BY EventRow
<1>3. (\E s \in submissions : s.claim = n)' <=> DerivedClaim(e) \/ DerivedClaimCopy(e)
  BY EventGrows
<1>4. /\ e.group \in Nat /\ e.link \in Nat /\ e.company \in AnyCompany
      /\ e.related \in AnyDeployment /\ NoDeployment \in AnyDeployment
  <2>1. NextIds \subseteq Nat
    BY TableTypes DEF NextIds
  <2>2. QED
    BY <2>1 DEF EventFor, NextEventRows, AnyDeployment
<1>5. /\ row.active \in BOOLEAN /\ row.claimed \in BOOLEAN /\ row.claim \in Nat
      /\ row.group \in Nat /\ row.effective \in Nat /\ row.company \in AnyCompany
      /\ row.link \in Nat /\ row.related \in AnyDeployment
  BY DEF AuditRows
<1>6. CASE DerivedClaim(e) \/ DerivedClaimCopy(e)
  <2>1. ReplayEvent(row, e, n)' = EntersClaim(row, e, n)
    <3>1. e.payload.action \in {"claim", "redeem-client-token"}
      BY <1>6 DEF DerivedClaim, DerivedClaimCopy, DerivedRedemption
    <3>2. QED
      BY <1>3, <1>6, <3>1 DEF ReplayEvent, EntersClaim
  <2>2. EntersClaim(row, e, n) \in AuditRows
    BY <1>1, <1>4 DEF EntersClaim, AuditRows
  <2>3. /\ new.claimed = TRUE /\ new.active = TRUE /\ new.group = e.group
        /\ new.effective = e.group /\ new.company = e.company /\ new.profile = n
        /\ new.link = 0 /\ new.related = NoDeployment
    BY <1>2, <1>6 DEF RowEffect
  <2>4. old.active
    BY <1>6 DEF DerivedClaim, DerivedClaimCopy, DerivedRedemption, MayRedeem
  <2>5. Agree(EntersClaim(row, e, n), new)
    <3>1. row.active = TRUE
      BY <1>5, <2>4 DEF Agree
    <3> HIDE DEF new, old
    <3>2. QED
      BY <2>3, <3>1 DEF Agree, EntersClaim, AuditRows
  <2>6. QED
    BY <2>1, <2>2, <2>5
<1>7. CASE DerivedWithdrawal(e)
  <2>1. ReplayEvent(row, e, n)' = LeavesGroup(row)
    BY <1>7 DEF DerivedWithdrawal, ReplayEvent, LeavesGroup
  <2>2. LeavesGroup(row) \in AuditRows
    BY <1>4 DEF LeavesGroup, AuditRows
  <2>3. new.claimed = FALSE /\ new.active = old.active
    BY <1>2, <1>7 DEF RowEffect
  <2>4. LeavesGroup(row).active = row.active /\ LeavesGroup(row).claimed = FALSE
    BY DEF LeavesGroup, AuditRows
  <2>5. Agree(LeavesGroup(row), new)
    BY <2>3, <2>4 DEF Agree
  <2>6. QED
    BY <2>1, <2>2, <2>5
<1>8. CASE DerivedIssue(e) \/ DerivedTokenRevocation(e)
  <2>1. ReplayEvent(row, e, n)' = row
    BY <1>8 DEF DerivedIssue, DerivedTokenRevocation, ReplayEvent
  <2>2. new = old
    BY <1>2, <1>8 DEF RowEffect
  <2>3. QED
    BY <2>1, <2>2
<1>9. CASE DerivedLink(e)
  <2> DEFINE joined == [row EXCEPT !.effective = e.group, !.link = e.link,
                                   !.related = e.related]
  <2>1. ReplayEvent(row, e, n)' = joined
    <3>1. ~(DerivedClaim(e) \/ DerivedClaimCopy(e)) /\ e.payload.action = "redeem-client-token"
      BY <1>9 DEF DerivedLink, DerivedClaim, DerivedClaimCopy, DerivedRedemption
    <3>2. QED
      BY <1>3, <3>1 DEF ReplayEvent
  <2>2. joined \in AuditRows
    BY <1>4 DEF AuditRows
  <2>3. /\ joined.active = row.active /\ joined.claimed = row.claimed
        /\ joined.claim = row.claim /\ joined.group = row.group
        /\ joined.company = row.company /\ joined.effective = e.group
        /\ joined.link = e.link /\ joined.related = e.related
    BY DEF AuditRows
  <2>4. /\ new.claimed = TRUE /\ new.active = TRUE /\ SameClaim(old, new)
        /\ new.effective = e.group /\ new.link = n /\ new.related = e.related
    BY <1>2, <1>9 DEF RowEffect
  <2>5. old.claimed /\ old.active /\ e.link = n
    BY <1>9 DEF DerivedLink, DerivedRedemption, MayRedeem
  <2> HIDE DEF joined, new, old
  <2>6. row.claimed = TRUE /\ row.active = TRUE /\ row.claim = old.profile
        /\ row.group = old.group /\ row.company = old.company
    BY <1>5, <2>5 DEF Agree, old
  <2>7. Agree(joined, new)
    BY <2>3, <2>4, <2>5, <2>6 DEF Agree, SameClaim
  <2>8. QED
    BY <2>1, <2>2, <2>7 DEF new
<1>10. CASE DerivedLinkRevocation(e)
  <2> DEFINE left == [row EXCEPT !.effective = row.group, !.link = 0, !.related = NoDeployment]
  <2>1. ReplayEvent(row, e, n)' = left
    BY <1>10 DEF DerivedLinkRevocation, ReplayEvent
  <2>2. left \in AuditRows
    BY <1>4 DEF AuditRows
  <2>3. /\ left.active = row.active /\ left.claimed = row.claimed
        /\ left.claim = row.claim /\ left.group = row.group
        /\ left.company = row.company /\ left.effective = row.group
        /\ left.link = 0 /\ left.related = NoDeployment
    BY DEF AuditRows
  <2>4. /\ new.claimed = old.claimed /\ new.active = old.active /\ SameClaim(old, new)
        /\ new.effective = (IF old.claimed THEN old.group ELSE 0)
        /\ new.link = 0 /\ new.related = NoDeployment
    BY <1>2, <1>10 DEF RowEffect
  <2>5. Agree(row, old)
    OBVIOUS
  <2> HIDE DEF left, new, old
  <2>6. Agree(left, new)
    BY <2>3, <2>4, <2>5 DEF Agree, SameClaim
  <2>7. QED
    BY <2>1, <2>2, <2>6 DEF new
<1>11. CASE DerivedDeactivation(e)
  <2> DEFINE kept == IF row.claimed THEN LeavesGroup(row) ELSE row
             off == [kept EXCEPT !.active = FALSE]
  <2>1. ReplayEvent(row, e, n)' = off
    BY <1>11 DEF DerivedDeactivation, ReplayEvent, LeavesGroup
  <2>2. kept \in AuditRows /\ kept.claimed = FALSE
    <3>1. LeavesGroup(row) \in AuditRows /\ LeavesGroup(row).claimed = FALSE
      BY <1>4 DEF LeavesGroup, AuditRows
    <3>2. QED
      BY <1>5, <3>1
  <2> HIDE DEF kept
  <2>3. off \in AuditRows /\ off.active = FALSE /\ off.claimed = FALSE
    BY <2>2 DEF AuditRows
  <2>4. new.claimed = FALSE /\ new.active = FALSE
    BY <1>2, <1>11 DEF RowEffect
  <2> HIDE DEF off, new
  <2>5. Agree(off, new)
    BY <2>3, <2>4 DEF Agree
  <2>6. QED
    BY <2>1, <2>3, <2>5 DEF new
<1>12. CASE DerivedReactivation(e)
  <2> DEFINE on == [row EXCEPT !.active = TRUE]
  <2>1. ReplayEvent(row, e, n)' = on
    BY <1>12 DEF DerivedReactivation, ReplayEvent
  <2>2. on \in AuditRows
    BY DEF AuditRows
  <2>3. on.active = TRUE /\ on.claimed = row.claimed
    BY DEF AuditRows
  <2>4. new.claimed = old.claimed /\ new.active = TRUE
    BY <1>2, <1>12 DEF RowEffect
  <2>5. old.claimed = FALSE
    <3>1. old.claimed \in BOOLEAN
      BY <1>1, TableTypes DEF NetworkRows
    <3>2. ~old.active
      BY <1>12 DEF DerivedReactivation
    <3>3. QED
      BY <1>1, <3>1, <3>2 DEF ClaimRowsOK
  <2>6. row.claimed = old.claimed
    BY DEF Agree
  <2> HIDE DEF on, new, old
  <2>7. Agree(on, new)
    BY <2>3, <2>4, <2>5, <2>6 DEF Agree
  <2>8. QED
    BY <2>1, <2>2, <2>7 DEF new
<1>13. QED
  BY <1>1, <1>6, <1>7, <1>8, <1>9, <1>10, <1>11, <1>12 DEF DerivedEvent

(* An event extends the replay.                                            *)
LEMMA EventKeepsReplay ==
    ASSUME OperatorTypeOK, ClaimRowsOK, EventsAudited, StatusAudited,
           VerifyOperatorClaimReviews, \E g : ReplayHistory(g),
           NEW d \in Deployments, NEW r \in Requests(d), NEW at, NEW e,
           EventFor(r, at, e), Extends(at)
    PROVE  (\E g : ReplayHistory(g))'
<1>1. PICK n : n = Len(events) + 1
  OBVIOUS
<1>2. /\ Len(events) \in Nat /\ Len(events') = n /\ DOMAIN events = 1..Len(events)
      /\ n \in Nat /\ n - 1 = Len(events)
      /\ events'[n] = e /\ e.subject \in Deployments
      /\ \A x \in Deployments : x # e.subject => network'[x] = network[x]
  BY <1>1, EventTables, TableTypes
<1>3. TablesGrow
  BY <1>1, EventGrows
<1>4. PICK f : ReplayHistory(f)
  OBVIOUS
<1>5. PICK last : last = f[Len(events)]
  OBVIOUS
<1>6. /\ last \in [Deployments -> AuditRows]
      /\ \A x \in Deployments : Agree(last[x], network[x])
  BY <1>4, <1>5 DEF ReplayHistory
<1>7. PICK row : row = ReplayEvent(last[e.subject], e, n)'
  OBVIOUS
<1>8. row \in AuditRows /\ Agree(row, network'[e.subject])
  <2>1. last[e.subject] \in AuditRows /\ Agree(last[e.subject], network[e.subject])
    BY <1>2, <1>6
  <2>2. PICK z : z = last[e.subject]
    OBVIOUS
  <2>3. z \in AuditRows /\ Agree(z, network[e.subject]) /\ row = ReplayEvent(z, e, n)'
    BY <1>7, <2>1, <2>2
  <2> HIDE DEF AuditRows
  <2>4. QED
    BY <1>1, <2>3, EventReplayed
<1>9. PICK rows : rows = [last EXCEPT ![e.subject] = row]
  OBVIOUS
<1>10. /\ rows \in [Deployments -> AuditRows]
       /\ \A x \in Deployments : Agree(rows[x], network'[x])
       /\ rows = StepReplay(n, last)'
  <2>1. rows \in [Deployments -> AuditRows]
    <3> HIDE DEF AuditRows
    <3>1. QED
      BY <1>6, <1>8, <1>9
  <2>2. \A x \in Deployments : Agree(rows[x], network'[x])
    <3> HIDE DEF AuditRows
    <3>1. \A x \in Deployments : rows[x] = IF x = e.subject THEN row ELSE last[x]
      BY <1>6, <1>9
    <3>2. ASSUME NEW x \in Deployments PROVE Agree(rows[x], network'[x])
      <4>1. CASE x = e.subject
        BY <1>8, <3>1, <4>1
      <4>2. CASE x # e.subject
        <5>1. rows[x] = last[x] /\ network'[x] = network[x] /\ Agree(last[x], network[x])
          BY <1>2, <1>6, <3>1, <4>2
        <5>2. QED
          BY <5>1
      <4>3. QED
        BY <4>1, <4>2
    <3>3. QED
      BY <3>2
  <2>3. rows = StepReplay(n, last)'
    BY <1>2, <1>7, <1>9 DEF StepReplay
  <2>4. QED
    BY <2>1, <2>2, <2>3
<1>11. Authorized(n, last)'
  BY <1>1, <1>6, EventAuthorized
<1>12. PICK g : g = [i \in 0..n |-> IF i = n THEN rows ELSE f[i]]
  OBVIOUS
<1>13. g[0] = NoAudit
  BY <1>1, <1>2, <1>4, <1>12 DEF ReplayHistory
<1>14. ASSUME NEW i \in 1..n
       PROVE  g[i] = StepReplay(i, g[i - 1])' /\ Authorized(i, g[i - 1])'
  <2>1. CASE i = n
    <3>1. i - 1 \in 0..n /\ i - 1 # n /\ i - 1 = Len(events) /\ i \in 0..n
      BY <1>2, <2>1
    <3>2. g[i - 1] = last /\ g[i] = rows
      BY <1>5, <1>12, <2>1, <3>1
    <3>3. QED
      BY <1>10, <1>11, <2>1, <3>2
  <2>2. CASE i # n
    <3>1. i - 1 \in 0..n /\ i - 1 # n /\ i \in 0..n /\ i \in DOMAIN events
      BY <1>2, <2>2
    <3>2. g[i - 1] = f[i - 1] /\ g[i] = f[i]
      BY <1>12, <2>2, <3>1
    <3>3. f[i] = StepReplay(i, f[i - 1]) /\ Authorized(i, f[i - 1])
      BY <1>2, <1>4, <3>1 DEF ReplayHistory
    <3>4. PICK b : b = f[i - 1]
      OBVIOUS
    <3>5. StepReplay(i, b)' = StepReplay(i, b) /\ Authorized(i, b)'
      BY <1>3, <3>1, <3>3, <3>4, AuthorizedKept
    <3>6. QED
      BY <3>2, <3>3, <3>4, <3>5
  <2>3. QED
    BY <2>1, <2>2
<1>15. g[n] = rows
  BY <1>2, <1>12
<1>16. QED
  BY <1>2, <1>10, <1>13, <1>14, <1>15 DEF ReplayHistory, NoAudit

(* A step that appends no event keeps the replay.                          *)
LEMMA GrowthKeepsReplay ==
    ASSUME TablesGrow, VerifyOperatorClaimReviews, UNCHANGED <<events, network>>,
           \E g : ReplayHistory(g)
    PROVE  (\E g : ReplayHistory(g))'
<1>1. PICK g : ReplayHistory(g)
  OBVIOUS
<1>2. ASSUME NEW i \in 1..Len(events)
      PROVE  g[i] = StepReplay(i, g[i - 1])' /\ Authorized(i, g[i - 1])'
  <2>1. i \in DOMAIN events
    BY DEF TablesGrow
  <2>2. PICK b : b = g[i - 1]
    OBVIOUS
  <2>3. g[i] = StepReplay(i, b) /\ Authorized(i, b)
    BY <1>1, <2>2 DEF ReplayHistory
  <2>4. StepReplay(i, b)' = StepReplay(i, b) /\ Authorized(i, b)'
    BY <2>1, <2>3, AuthorizedKept
  <2>5. QED
    BY <2>2, <2>3, <2>4
<1>3. QED
  BY <1>1, <1>2 DEF ReplayHistory, NoAudit

-----------------------------------------------------------------------------
(* The complete audit.                                                     *)

(* The inductive invariant: what the audit checks table by table, with the *)
(* histories that its replays compute.                                     *)
AuditInv ==
    /\ EventsAudited
    /\ VerifyOperatorActionNonces
    /\ \E f : NetworkHistory(f)
    /\ \E g : ReplayHistory(g)
    /\ VerifyOperatorClaimReviews
    /\ DecisionsFollow
    /\ StatusAudited

(* The inductive invariant gives every clause of the audit that holds for  *)
(* any MaxLag.                                                             *)
LEMMA AuditInvSuffices == OperatorTypeOK /\ AuditInv => AuditBesidesSuperseded
<1> SUFFICES ASSUME OperatorTypeOK, AuditInv PROVE AuditBesidesSuperseded
  OBVIOUS
<1>1. Len(events) \in Nat /\ DOMAIN events = 1..Len(events)
  BY TableTypes
<1>2. VerifyOperatorNetworkStateRows /\ VerifyOperatorActionSemantics
  BY <1>1, HistoryAudited, ReplayAudited DEF AuditInv
<1>3. VerifyOperatorClaimStatusRows
  BY RebuiltRows DEF AuditInv
<1>4. QED
  BY <1>2, <1>3 DEF AuditInv, AuditBesidesSuperseded, EventsAudited, DecisionsFollow

(* The tables of a step that appends no event.                             *)
LEMMA NoEventGrows ==
    ASSUME OperatorTypeOK, EventsAudited, UNCHANGED <<events, submissions>>,
           DOMAIN reviews \subseteq DOMAIN reviews',
           \A k \in DOMAIN reviews : reviews'[k] = reviews[k]
    PROVE  TablesGrow
<1>1. Len(events) \in Nat /\ DOMAIN events = 1..Len(events)
  BY TableTypes
<1>2. OneSubmission
  BY OneSubmissionHolds
<1>3. OneSubmission'
  BY <1>2 DEF OneSubmission
<1>4. QED
  BY <1>1, <1>2, <1>3 DEF TablesGrow

(* Every step keeps the invariant.                                         *)
LEMMA AuditStep ==
    OperatorTypeOK /\ ClaimRowsOK /\ AuditInv /\ [OperatorNext]_operatorVars => AuditInv'
<1> SUFFICES ASSUME OperatorTypeOK, ClaimRowsOK, AuditInv, [OperatorNext]_operatorVars
             PROVE  AuditInv'
  OBVIOUS
<1>1. ClockReads \subseteq Times
  BY DEF ClockReads
<1>2. /\ EventsAudited /\ VerifyOperatorActionNonces /\ \E f : NetworkHistory(f)
      /\ \E g : ReplayHistory(g) /\ VerifyOperatorClaimReviews /\ DecisionsFollow
      /\ StatusAudited
  BY DEF AuditInv
<1>3. ASSUME NEW d \in Deployments, NEW r \in Requests(d), NEW at \in ClockReads,
             ApplyOperatorAction(r, at), NEW e, EventFor(r, at, e)
      PROVE  AuditInv'
  <2>1. Extends(at)
    BY <1>3 DEF ApplyOperatorAction
  <2>2. EventsAudited' /\ VerifyOperatorActionNonces' /\ StatusAudited'
    BY <1>2, <1>3, <2>1, EventKeepsAudit, EventKeepsNonces, EventKeepsStatus
  <2>3. (\E f : NetworkHistory(f))'
    BY <1>2, <1>3, EventKeepsHistory
  <2>4. (\E g : ReplayHistory(g))'
    BY <1>2, <1>3, <2>1, EventKeepsReplay
  <2>5. TablesGrow
    BY <1>2, <1>3, <2>1, EventGrows
  <2>6. UNCHANGED <<reviews, decisions>>
    BY <1>3, EventTables
  <2>7. VerifyOperatorClaimReviews' /\ DecisionsFollow'
    BY <1>2, <2>5, <2>6, SubmissionsGrow DEF TablesGrow
  <2>8. QED
    BY <2>2, <2>3, <2>4, <2>7 DEF AuditInv
<1>4. ASSUME UNCHANGED <<events, network>>, (\E g : ReplayHistory(g))', StatusAudited',
             VerifyOperatorClaimReviews', DecisionsFollow', VerifyOperatorActionNonces',
             UNCHANGED submissions
      PROVE  AuditInv'
  <2>1. EventsAudited'
    BY <1>2, <1>4
       DEF EventsAudited, VerifyOperatorAuditEvents, EventSubjects, SubmissionOf,
           IsStructuredClaim
  <2>2. (\E f : NetworkHistory(f))'
    BY <1>2, <1>4 DEF NetworkHistory, StepRows, NoRows
  <2>3. QED
    BY <1>4, <2>1, <2>2 DEF AuditInv
<1>5. ASSUME UNCHANGED <<events, network, submissions, status, eligibility, reviews, decisions>>
      PROVE  /\ (\E g : ReplayHistory(g))' /\ StatusAudited' /\ VerifyOperatorClaimReviews'
             /\ DecisionsFollow'
  <2>1. TablesGrow
    BY <1>2, <1>5, NoEventGrows
  <2>2. (\E g : ReplayHistory(g))'
    BY <1>2, <1>5, <2>1, GrowthKeepsReplay
  <2>3. VerifyOperatorClaimReviews' /\ DecisionsFollow'
    BY <1>2, <1>5, SubmissionsGrow
  <2>4. StatusAudited'
    BY <1>2, <1>5
       DEF StatusAudited, GenerationAudited, NewestClaim, OnlyReview, StateFollows, EndedBy,
           NewestDecision, EligibilityFollows, ClaimsOf, IsStructuredClaim, WithdrawalsAfter
  <2>5. QED
    BY <2>2, <2>3, <2>4
<1>6. ASSUME NEW d \in Deployments, NEW r \in Requests(d), RecordDuplicate(r) PROVE AuditInv'
  <2>1. UNCHANGED <<events, network, submissions, status, eligibility, reviews, decisions>>
    BY <1>6 DEF RecordDuplicate
  <2>2. VerifyOperatorActionNonces'
    BY <1>2, <1>6, DuplicateKeepsNonces
  <2>3. QED
    BY <1>4, <1>5, <2>1, <2>2
<1>7. ASSUME NEW s \in submissions, NEW at \in ClockReads,
             NEW decision \in {"approved", "rejected"}, DecideOperatorClaim(s, decision, at)
      PROVE  AuditInv'
  <2>1. PICK d, m : d = s.deployment /\ m = Len(reviews) + 1
    OBVIOUS
  <2>2. at \in Times
    BY <1>1
  <2>3. ReviewWrites(s, decision, at, d, m)
    BY <1>7, <2>1, ReviewTables
  <2>4. /\ Len(reviews) \in Nat /\ DOMAIN reviews = 1..Len(reviews) /\ DOMAIN reviews' = 1..m
        /\ \A k \in DOMAIN reviews : reviews'[k] = reviews[k]
        /\ UNCHANGED <<events, nonces, network, submissions, decisions>>
    BY <2>3 DEF ReviewWrites
  <2>5. DOMAIN reviews \subseteq DOMAIN reviews'
    BY <2>1, <2>4
  <2>6. TablesGrow
    BY <1>2, <2>4, <2>5, NoEventGrows
  <2>7. (\E g : ReplayHistory(g))'
    BY <1>2, <2>4, <2>6, GrowthKeepsReplay
  <2>8. StatusAudited'
    BY <1>2, <1>7, <2>1, <2>2, ReviewKeepsStatus
  <2>9. VerifyOperatorClaimReviews'
    BY <1>2, <1>7, <2>1, <2>2, ReviewKeepsReviews
  <2>10. DecisionsFollow'
    BY <1>2, <1>7, <2>1, ReviewKeepsDecisions
  <2>11. VerifyOperatorActionNonces'
    BY <1>2, <2>4 DEF VerifyOperatorActionNonces, EventsOf
  <2>12. QED
    BY <1>4, <2>4, <2>7, <2>8, <2>9, <2>10, <2>11
<1>8. ASSUME NEW s \in submissions, NEW at \in ClockReads,
             NEW decision \in {"suspend", "reinstate"},
             DecideOperatorClaimEligibility(s, decision, at)
      PROVE  AuditInv'
  <2>1. PICK d, m : d = s.deployment /\ m = Len(decisions) + 1
    OBVIOUS
  <2>2. DecisionWrites(s, decision, at, d, m)
    BY <1>8, <2>1, DecisionTables
  <2>3. UNCHANGED <<events, nonces, network, submissions, status, reviews>>
    BY <2>2 DEF DecisionWrites
  <2>4. TablesGrow
    BY <1>2, <2>3, NoEventGrows
  <2>5. (\E g : ReplayHistory(g))'
    BY <1>2, <2>3, <2>4, GrowthKeepsReplay
  <2>6. StatusAudited'
    BY <1>2, <1>8, <2>1, DecisionKeepsStatus
  <2>7. DecisionsFollow'
    BY <1>2, <1>8, <2>1, DecisionKeepsDecisions
  <2>8. VerifyOperatorClaimReviews'
    BY <1>2, <2>3 DEF VerifyOperatorClaimReviews
  <2>9. VerifyOperatorActionNonces'
    BY <1>2, <2>3 DEF VerifyOperatorActionNonces, EventsOf
  <2>10. QED
    BY <1>4, <2>3, <2>5, <2>6, <2>7, <2>8, <2>9
<1>9. ASSUME OperatorIdle PROVE AuditInv'
  <2>1. UNCHANGED <<events, nonces, network, submissions, status, eligibility, reviews,
                    decisions>>
    BY <1>9 DEF OperatorIdle, operatorTables
  <2>2. VerifyOperatorActionNonces'
    BY <1>2, <2>1 DEF VerifyOperatorActionNonces, EventsOf
  <2>3. QED
    BY <1>4, <1>5, <2>1, <2>2
<1>10. QED
  BY <1>3, <1>6, <1>7, <1>8, <1>9, StepCases

(* The empty tables pass.                                                  *)
LEMMA AuditInit == OperatorInit => AuditInv
<1> SUFFICES ASSUME OperatorInit PROVE AuditInv
  OBVIOUS
<1>1. /\ events = <<>> /\ reviews = <<>> /\ decisions = <<>> /\ submissions = {}
      /\ Len(events) = 0 /\ Len(reviews) = 0 /\ Len(decisions) = 0
      /\ DOMAIN events = {} /\ DOMAIN reviews = {} /\ DOMAIN decisions = {}
      /\ 1..0 = {} /\ 2..0 = {}
  BY DEF OperatorInit
<1>2. EventsAudited
  BY <1>1 DEF EventsAudited, VerifyOperatorAuditEvents, EventSubjects
<1>3. VerifyOperatorActionNonces
  BY <1>1 DEF OperatorInit, VerifyOperatorActionNonces
<1>4. \E f : NetworkHistory(f)
  <2> DEFINE f == [i \in {0} |-> NoRows]
  <2>1. NetworkHistory(f)
    BY <1>1 DEF OperatorInit, NetworkHistory, NoRows
  <2>2. QED
    BY <2>1
<1>5. \E g : ReplayHistory(g)
  <2> DEFINE g == [i \in {0} |-> NoAudit]
  <2>1. AuditRow \in AuditRows
    BY DEF AuditRow, AuditRows, AnyCompany, AnyDeployment
  <2>2. NoAudit \in [Deployments -> AuditRows]
    BY <2>1 DEF NoAudit
  <2>3. Agree(AuditRow, InitialRow)
    BY DEF Agree, AuditRow, InitialRow
  <2>4. \A d \in Deployments : network[d] = InitialRow
    BY DEF OperatorInit
  <2>5. \A d \in Deployments : Agree(NoAudit[d], network[d])
    BY <2>3, <2>4 DEF NoAudit
  <2>6. ReplayHistory(g)
    <3> HIDE DEF NoAudit
    <3>1. QED
      BY <1>1, <2>2, <2>5 DEF ReplayHistory
  <2>7. QED
    BY <2>6
<1>6. VerifyOperatorClaimReviews /\ DecisionsFollow
  BY <1>1 DEF VerifyOperatorClaimReviews, DecisionsFollow
<1>7. StatusAudited
  <2>1. \A d \in Deployments : status[d] = NoStatus /\ eligibility[d] = NoEligibility
    BY DEF OperatorInit
  <2>2. \A d : ClaimsOf(d) = {}
    BY <1>1 DEF ClaimsOf
  <2>3. NoStatus.state = "none"
    BY DEF NoStatus
  <2>4. QED
    BY <2>1, <2>2, <2>3 DEF StatusAudited, GenerationAudited
<1>8. QED
  BY <1>2, <1>3, <1>4, <1>5, <1>6, <1>7 DEF AuditInv

(* Every reachable database passes VerifyOperatorNetwork, however late     *)
(* transactions commit, but for the audit's search for an event that had   *)
(* superseded the claim of a decision.                                     *)
THEOREM OperatorTablesAudited == OperatorSpec => []AuditBesidesSuperseded
<1>1. OperatorInit => AuditInv
  BY AuditInit
<1>2. OperatorTypeOK /\ ClaimRowsOK /\ AuditInv /\ [OperatorNext]_operatorVars => AuditInv'
  BY AuditStep
<1>3. OperatorTypeOK /\ AuditInv => AuditBesidesSuperseded
  BY AuditInvSuffices
<1>4. QED
  BY <1>1, <1>2, <1>3, OperatorTypesHold, PTL DEF OperatorSpec

(* An approved claim has not been superseded but by a link.                *)
LEMMA ApprovedNotSuperseded ==
    ASSUME OperatorTypeOK, EventsAudited, StatusAudited, NEW d \in Deployments,
           status[d].state = "approved", NEW j \in DOMAIN events,
           Supersedes(j, status[d].claim)
    PROVE  events[j].link = j
<1> DEFINE c == status[d].claim
<1>1. /\ NewestClaim(d, status[d]) /\ StateFollows(d, status[d])
  BY DEF StatusAudited, GenerationAudited
<1>2. c \in ClaimsOf(d) /\ (\A i \in ClaimsOf(d) : i <= c) /\ WithdrawalsAfter(d, c) = {}
  BY <1>1 DEF NewestClaim, StateFollows
<1>3. events[c].deployment = d /\ c \in DOMAIN events /\ c \in Int /\ j \in Int
  BY <1>2, TableTypes DEF ClaimsOf
<1>4. j > c /\ events[j].subject = d
  BY <1>3 DEF Supersedes
<1>5. j \notin ClaimsOf(d)
  BY <1>2, <1>3, <1>4
<1>6. events[j].payload.action \notin {"withdraw-claim", "deactivate-deployment"}
  BY <1>2, <1>4 DEF WithdrawalsAfter
<1>7. \/ events[j].payload.action = "claim"
      \/ events[j].payload.action = "redeem-client-token"
  BY <1>6 DEF Supersedes
<1>8. /\ events[j].payload.action # "revoke-group-link"
        => events[j].subject = events[j].deployment
      /\ events[j].payload.action = "redeem-client-token"
        => DerivesClaim(events[j]) \/ events[j].link = j
  BY DEF EventsAudited, EventSubjects
<1>9. events[j].deployment = d
  BY <1>4, <1>7, <1>8
<1>10. ~IsStructuredClaim(j)
  BY <1>5, <1>9 DEF ClaimsOf
<1>11. QED
  BY <1>7, <1>8, <1>10 DEF IsStructuredClaim

(* What DecidedOnLiveClaims says of a step.                                *)
DecidedLive ==
    \A k \in DOMAIN decisions' \ DOMAIN decisions : \A j \in DOMAIN events :
        Supersedes(j, decisions'[k].claim) => events[j].link = j

(* Only DecideOperatorClaimEligibility adds a decision, and it does so on  *)
(* the approved claim of the status row.                                   *)
LEMMA DecidedLiveStep ==
    OperatorTypeOK /\ ClaimRowsOK /\ AuditInv /\ [OperatorNext]_operatorVars => DecidedLive
<1> SUFFICES ASSUME OperatorTypeOK, ClaimRowsOK, AuditInv, [OperatorNext]_operatorVars
             PROVE  DecidedLive
  OBVIOUS
<1>1. ASSUME UNCHANGED decisions PROVE DecidedLive
  BY <1>1 DEF DecidedLive
<1>2. ASSUME NEW s \in submissions, NEW at \in ClockReads,
             NEW decision \in {"suspend", "reinstate"},
             DecideOperatorClaimEligibility(s, decision, at)
      PROVE  DecidedLive
  <2>1. PICK d, m : d = s.deployment /\ m = Len(decisions) + 1
    OBVIOUS
  <2>2. DecisionWrites(s, decision, at, d, m)
    BY <1>2, <2>1, DecisionTables
  <2>3. /\ d \in Deployments /\ status[d].claim = s.claim /\ status[d].state = "approved"
        /\ Len(decisions) \in Nat /\ DOMAIN decisions = 1..Len(decisions)
        /\ DOMAIN decisions' = 1..m /\ decisions'[m].claim = s.claim
    BY <2>2 DEF DecisionWrites
  <2>4. ASSUME NEW k \in DOMAIN decisions' \ DOMAIN decisions, NEW j \in DOMAIN events,
               Supersedes(j, decisions'[k].claim)
        PROVE  events[j].link = j
    <3>1. k = m
      BY <2>1, <2>3, <2>4
    <3>2. Supersedes(j, status[d].claim)
      BY <2>3, <2>4, <3>1
    <3>3. QED
      BY <2>3, <3>2, ApprovedNotSuperseded DEF AuditInv
  <2>5. QED
    BY <2>4 DEF DecidedLive
<1>3. ASSUME NEW d \in Deployments, NEW r \in Requests(d), NEW at \in ClockReads,
             NEW e, EventFor(r, at, e)
      PROVE  UNCHANGED decisions
  BY <1>3, EventTables
<1>4. ASSUME NEW r, RecordDuplicate(r) PROVE UNCHANGED decisions
  BY <1>4 DEF RecordDuplicate
<1>5. ASSUME NEW s, NEW decision, NEW at, DecideOperatorClaim(s, decision, at)
      PROVE  UNCHANGED decisions
  BY <1>5 DEF DecideOperatorClaim
<1>6. ASSUME OperatorIdle PROVE UNCHANGED decisions
  BY <1>6 DEF OperatorIdle, operatorTables
<1>7. QED
  BY <1>1, <1>2, <1>3, <1>4, <1>5, <1>6, StepCases

(* A decision is made on a claim that its deployment has not ended by any  *)
(* of its own actions, whatever clock values the decision and they carry:  *)
(* the order of the commits decides, not the order of the times.           *)
THEOREM DecidedOnLiveClaimsHolds == OperatorSpec => DecidedOnLiveClaims
<1>1. OperatorInit => AuditInv
  BY AuditInit
<1>2. OperatorTypeOK /\ ClaimRowsOK /\ AuditInv /\ [OperatorNext]_operatorVars
        => AuditInv' /\ DecidedLive
  BY AuditStep, DecidedLiveStep
<1>3. QED
  BY <1>1, <1>2, OperatorTypesHold, PTL DEF OperatorSpec, DecidedOnLiveClaims, DecidedLive
=============================================================================
