--------------------------- MODULE MCExitLifecycle ---------------------------
(* Instances of the exit rails for TLC.                                    *)
EXTENDS ExitAudit, TLC

(* Two deployments have each claimed a group of their own in the first     *)
(* second, and both claims are approved.                                   *)
InitialClaim(i, d, c) ==
    LET r == [deployment |-> d, nonce |-> 1, key |-> 1,
              payload |-> [Payload("claim") EXCEPT !.company = c]]
    IN  [Event(r, 1) EXCEPT !.state = "pending-review", !.company = c, !.group = i]

TwoOperators ==
    \E d \in [1..Cardinality(Deployments) -> Deployments], c \in Companies :
        LET N == Cardinality(Deployments)
            I(x) == CHOOSE i \in 1..N : d[i] = x
        IN  /\ \A x \in Deployments : \E i \in 1..N : d[i] = x
            /\ events = [i \in 1..N |-> InitialClaim(i, d[i], c)]
            /\ nonces = [x \in Deployments |->
                            <<[key |-> 1, payload |-> events[I(x)].payload, action |-> I(x)]>>]
            /\ network = [x \in Deployments |-> Claimed(InitialRow, events[I(x)], I(x))]
            /\ submissions = {[claim |-> i, deployment |-> d[i], group |-> i, company |-> c,
                               at |-> 1] : i \in 1..N}
            /\ reviews = [i \in 1..N |-> [claim |-> i, deployment |-> d[i], group |-> i,
                                          company |-> c, decision |-> "approved", at |-> 1]]
            /\ status = [x \in Deployments |->
                            [claim |-> I(x), group |-> I(x), company |-> c,
                             state |-> "approved", submittedAt |-> 1, review |-> I(x),
                             approvedAt |-> 1, updatedAt |-> 1]]
            /\ eligibility = [x \in Deployments |->
                            [claim |-> I(x), group |-> I(x), company |-> c,
                             state |-> "active", review |-> I(x), decision |-> 0,
                             updatedAt |-> 1]]
            /\ decisions = <<>>
            /\ transferredAt = 0
            /\ ExitInit

InitTwoOperators == clock = 1 /\ TwoOperators

(* Bound on the operator events, the eligibility decisions and the exit    *)
(* events together, the two claims of the start included.                  *)
MaxTurns == 5

NextFewTurns == Next /\ Len(events') + Len(decisions') + Len(exitEvents') <= MaxTurns

(* Retries, which only spend nonces, are left to the other runs.           *)
NextWithoutRetries == Next /\ (nonces' # nonces => events' # events)

SpecWithoutRetries == InitTwoOperators /\ [][NextWithoutRetries]_vars

ExitSymmetry == Permutations(Deployments)
=============================================================================
