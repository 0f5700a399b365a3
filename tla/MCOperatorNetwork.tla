------------------------- MODULE MCOperatorNetwork -------------------------
(* Instances of the operator network for TLC.                              *)
EXTENDS OperatorAudit, TLC

(* Nothing orders deployments or companies.                                *)
OperatorSymmetry == Permutations(Deployments) \cup Permutations(Companies)

(* Deployment d has claimed and an administrator has approved the claim,   *)
(* both in the first second.                                               *)
InitApproved ==
    \E d \in Deployments, c \in Companies :
        LET r == [deployment |-> d, nonce |-> 1, key |-> 1,
                  payload |-> [Payload("claim") EXCEPT !.company = c]]
            e == [Event(r, 1) EXCEPT !.state = "pending-review", !.company = c, !.group = 1]
        IN  /\ clock = 1
            /\ events = <<e>>
            /\ nonces = [x \in Deployments |-> IF x = d THEN <<NonceRow(r, 1)>> ELSE <<>>]
            /\ network = [x \in Deployments |->
                            IF x = d THEN Claimed(InitialRow, e, 1) ELSE InitialRow]
            /\ submissions = {[claim |-> 1, deployment |-> d, group |-> 1, company |-> c,
                               at |-> 1]}
            /\ reviews = <<[claim |-> 1, deployment |-> d, group |-> 1, company |-> c,
                            decision |-> "approved", at |-> 1]>>
            /\ status = [x \in Deployments |->
                            IF x = d
                            THEN [claim |-> 1, group |-> 1, company |-> c,
                                  state |-> "approved", submittedAt |-> 1, review |-> 1,
                                  approvedAt |-> 1, updatedAt |-> 1]
                            ELSE NoStatus]
            /\ eligibility = [x \in Deployments |->
                            IF x = d
                            THEN [claim |-> 1, group |-> 1, company |-> c,
                                  state |-> "active", review |-> 1, decision |-> 0,
                                  updatedAt |-> 1]
                            ELSE NoEligibility]
            /\ decisions = <<>>
            /\ transferredAt = 0

SpecApproved == InitApproved /\ [][OperatorNext]_operatorVars
=============================================================================
