------------------------ MODULE ExitLifecycle_proofs ------------------------
(***************************************************************************)
(* Proofs about exit reviews, ownership transfers and exit allocations,    *)
(* for every number of deployments, commands and events.                   *)
(***************************************************************************)
EXTENDS ExitAudit, OperatorNetwork_proofs

-----------------------------------------------------------------------------
(* The exit rails as seen from the operator network.                       *)

(* The newest completion is not later than the newest transfer event.      *)
TransferClock ==
    /\ \E S : transferEvents \in Seq(S)
    /\ transferredAt \in Nat
    /\ HeadAt(transferEvents) \in Nat
    /\ transferredAt <= HeadAt(transferEvents)

(* The head of a chain is the event appended to it.                        *)
LEMMA HeadOfAppend ==
    ASSUME NEW s, \E S : s \in Seq(S), NEW e
    PROVE  /\ HeadAt(Append(s, e)) = e.at
           /\ \E S : Append(s, e) \in Seq(S)
<1>1. PICK S : s \in Seq(S)
  OBVIOUS
<1>2. PICK T : T = S \cup {e}
  OBVIOUS
<1>3. s \in Seq(T) /\ e \in T
  BY <1>1, <1>2
<1>4. Append(s, e) \in Seq(T) /\ Len(Append(s, e)) = Len(s) + 1
      /\ Append(s, e)[Len(s) + 1] = e /\ Append(s, e) # <<>>
  BY <1>3
<1>5. QED
  BY <1>4 DEF HeadAt

(* Clock values are times.                                                 *)
LEMMA ReadsAreTimes == ClockReads \subseteq Times /\ Times \subseteq Nat
BY TimeAssumption DEF ClockReads, Times

(* A step of the exit rails is a step of the operator network or leaves it *)
(* alone: only a completion touches it.                                    *)
LEMMA ExitStepIdles ==
    ASSUME TransferClock, ExitStep
    PROVE  [OperatorNext]_operatorVars /\ TransferClock'
<1>1. \A at \in ClockReads : at \in Nat /\ at \in Times
  BY ReadsAreTimes
<1>2. ASSUME NEW at \in ClockReads, FreezeCommand(at) \/ ReviewCommand(at)
               \/ CreateAllocationCommand(at) \/ VerifyAllocationCommand(at)
      PROVE  UNCHANGED <<operatorVars, transferEvents>>
  BY <1>2 DEF FreezeCommand, FreezeExitReview, ReviewCommand, AppendExitReviewEvent,
     CreateAllocationCommand, CreateExitAllocation, VerifyAllocationCommand, VerifyExitAllocation
<1>3. ASSUME NEW at \in ClockReads, NEW e, transferEvents' = Append(transferEvents, e),
             e.at = at, HeadAt(transferEvents) <= at
      PROVE  HeadAt(transferEvents)' = at /\ (\E S : transferEvents \in Seq(S))'
  <2>1. HeadAt(Append(transferEvents, e)) = at /\ \E S : Append(transferEvents, e) \in Seq(S)
    BY <1>3, HeadOfAppend DEF TransferClock
  <2>2. QED
    BY <1>3, <2>1 DEF HeadAt
<1>4. ASSUME NEW at \in ClockReads, PrepareCommand(at)
      PROVE  UNCHANGED operatorVars /\ TransferClock'
  <2>1. PICK x : x = Len(transfers) + 1
    OBVIOUS
  <2>2. PICK e : e = [transfer |-> x, action |-> "prepare", status |-> "prepared", at |-> at]
    OBVIOUS
  <2>3. /\ transferEvents' = Append(transferEvents, e) /\ HeadAt(transferEvents) <= at
        /\ UNCHANGED operatorVars
    BY <1>4, <2>1, <2>2 DEF PrepareCommand, PrepareOwnershipTransfer
  <2>4. HeadAt(transferEvents)' = at /\ (\E S : transferEvents \in Seq(S))'
    BY <1>3, <2>2, <2>3
  <2>5. transferredAt' = transferredAt
    BY <2>3 DEF operatorVars
  <2>6. QED
    BY <1>1, <2>3, <2>4, <2>5 DEF TransferClock
<1>5. ASSUME NEW at \in ClockReads, NEW x, NEW action, DecideOwnershipTransfer(x, action, at)
      PROVE  UNCHANGED operatorVars /\ TransferClock'
  <2>2. PICK e : e = TransferEvent(x, action, at)
    OBVIOUS
  <2>3. /\ transferEvents' = Append(transferEvents, e) /\ HeadAt(transferEvents) <= at
        /\ UNCHANGED operatorVars
    BY <1>5, <2>2 DEF DecideOwnershipTransfer
  <2>4. HeadAt(transferEvents)' = at /\ (\E S : transferEvents \in Seq(S))'
    BY <1>3, <2>2, <2>3 DEF TransferEvent
  <2>5. transferredAt' = transferredAt
    BY <2>3 DEF operatorVars
  <2>6. QED
    BY <1>1, <2>3, <2>4, <2>5 DEF TransferClock
<1>6. ASSUME NEW at \in ClockReads, NEW x, CompleteOwnershipTransfer(x, at)
      PROVE  [OperatorNext]_operatorVars /\ TransferClock'
  <2>2. PICK e : e = TransferEvent(x, "complete", at)
    OBVIOUS
  <2>3. /\ transferEvents' = Append(transferEvents, e) /\ HeadAt(transferEvents) <= at
        /\ HeadAt(events) < at /\ transferredAt' = at
        /\ UNCHANGED <<clock, events, nonces, network, submissions, status, eligibility,
                       reviews, decisions>>
    BY <1>6, <2>2 DEF CompleteOwnershipTransfer
  <2>4. HeadAt(transferEvents)' = at /\ (\E S : transferEvents \in Seq(S))'
    BY <1>3, <2>2, <2>3 DEF TransferEvent
  <2>5. TransferClock'
    BY <1>1, <2>3, <2>4 DEF TransferClock
  <2>6. transferredAt < at \/ transferredAt = at
    BY <1>1, <2>3 DEF TransferClock
  <2>7. CASE transferredAt < at
    <3>1. TransferCompletes
      BY <2>3, <2>7 DEF TransferCompletes
    <3>2. QED
      BY <2>5, <3>1 DEF OperatorNext
  <2>8. CASE transferredAt = at
    <3>1. UNCHANGED operatorVars
      BY <2>3, <2>8 DEF operatorVars
    <3>2. QED
      BY <2>5, <3>1
  <2>9. QED
    BY <2>6, <2>7, <2>8
<1>7. ASSUME UNCHANGED <<operatorVars, transferEvents>> PROVE TransferClock'
  BY <1>7 DEF operatorVars, TransferClock, HeadAt
<1>8. QED
  BY <1>2, <1>4, <1>5, <1>6, <1>7 DEF ExitStep, OwnershipStep, TransferCommand

(* An operator action leaves the time of the newest completion.            *)
LEMMA TransferTimeKept ==
    ASSUME OperatorStep \/ Tick
    PROVE  transferredAt' = transferredAt
<1>1. ASSUME NEW r, NEW e, AppendOperatorAction(r, e) PROVE transferredAt' = transferredAt
  BY <1>1 DEF AppendOperatorAction
<1> HIDE DEF AppendOperatorAction
<1>2. ASSUME NEW r, NEW at, ApplyOperatorAction(r, at) PROVE transferredAt' = transferredAt
  <2>1. \E e : AppendOperatorAction(r, e)
    BY <1>2, Zenon
       DEF ApplyOperatorAction, Claim, WithdrawClaim, IssueClientToken, RevokeClientToken,
           RedeemLink, RedeemClaim, RevokeGroupLink, DeactivateDeployment,
           ReactivateDeployment
  <2>2. QED
    BY <1>1, <2>1
<1>3. ASSUME NEW r, RecordDuplicate(r) PROVE transferredAt' = transferredAt
  BY <1>3, SMTT(30) DEF RecordDuplicate
<1>4. ASSUME NEW s, NEW at, ReviewClaim(s, at) \/ ReviewEligibility(s, at)
      PROVE  transferredAt' = transferredAt
  BY <1>4 DEF ReviewClaim, ReviewEligibility, DecideOperatorClaim,
              DecideOperatorClaimEligibility
<1>5. Tick => transferredAt' = transferredAt
  BY DEF Tick
<1>6. QED
  BY <1>2, <1>3, <1>4, <1>5 DEF OperatorStep

(* Every step of the exit rails and the operator network together is a     *)
(* step of the operator network.                                           *)
LEMMA StepImplements ==
    TransferClock /\ [Next]_vars => [OperatorNext]_operatorVars /\ TransferClock'
<1> SUFFICES ASSUME TransferClock, [Next]_vars
             PROVE  [OperatorNext]_operatorVars /\ TransferClock'
  OBVIOUS
<1>1. CASE (OperatorStep \/ Tick) /\ UNCHANGED exitVars
  <2>1. transferredAt' = transferredAt /\ transferEvents' = transferEvents
    BY <1>1, TransferTimeKept DEF exitVars
  <2>2. TransferClock'
    BY <2>1 DEF TransferClock, HeadAt
  <2>3. QED
    BY <1>1, <2>2 DEF OperatorNext
<1>2. CASE ExitStep
  BY <1>2, ExitStepIdles
<1>3. CASE UNCHANGED vars
  BY <1>3 DEF vars, exitVars, operatorVars, TransferClock, HeadAt
<1>4. QED
  BY <1>1, <1>2, <1>3 DEF Next

(* The exit rails implement the operator network: whatever buyers,         *)
(* auditors and managers do, claims, tokens and links go through the       *)
(* states that the operator network goes through alone, and completions    *)
(* move its newest transfer time forward.                                  *)
THEOREM ExitsImplementOperators == Spec => OperatorSpec
<1>1. Init => OperatorInit /\ TransferClock
  BY DEF Init, OperatorInit, ExitInit, TransferClock, HeadAt
<1>2. TransferClock /\ [Next]_vars => [OperatorNext]_operatorVars /\ TransferClock'
  BY StepImplements
<1>3. QED
  BY <1>1, <1>2, PTL DEF Spec, OperatorSpec

-----------------------------------------------------------------------------
(* The operator network next to the exit rails.                            *)

(* A claim event asks for a review.                                        *)
ClaimsPending ==
    \A i \in DOMAIN events :
        events[i].payload.action = "claim" => events[i].state = "pending-review"

(* What the operator network keeps, with or without the exit rails.        *)
OperatorInv == OperatorTypeOK /\ ClaimRowsOK /\ AuditInv /\ ClaimsPending

(* Every step of the operator network keeps it.                            *)
LEMMA OperatorInvStep == OperatorInv /\ [OperatorNext]_operatorVars => OperatorInv'
<1> SUFFICES ASSUME OperatorInv, [OperatorNext]_operatorVars PROVE OperatorInv'
  OBVIOUS
<1>1. OperatorTypeOK /\ ClaimRowsOK /\ AuditInv /\ ClaimsPending
  BY DEF OperatorInv
<1>2. OperatorTypeOK' /\ ClaimRowsOK' /\ AuditInv'
  BY <1>1, RowsStep, AuditStep
<1>3. ClaimsPending'
  <2>1. CASE UNCHANGED <<events, network, submissions>>
    BY <1>1, <2>1 DEF ClaimsPending
  <2>2. ASSUME NEW d \in Deployments, NEW r \in Requests(d), NEW at \in ClockReads,
               NEW e \in NextEventRows, EventFor(r, at, e)
        PROVE  ClaimsPending'
    <3>1. /\ Len(events) \in Nat /\ DOMAIN events = 1..Len(events)
          /\ DOMAIN events' = 1..(Len(events) + 1)
          /\ \A i \in DOMAIN events : events'[i] = events[i]
          /\ events'[Len(events) + 1] = e
      BY <1>1, <2>2, EventTables, TableTypes
    <3>2. e.payload.action = "claim" => e.state = "pending-review"
      BY <2>2 DEF EventFor, DerivedEvent, DerivedClaim, DerivedWithdrawal, DerivedIssue,
         DerivedTokenRevocation, DerivedRedemption, DerivedLink, DerivedClaimCopy,
         DerivedLinkRevocation, DerivedDeactivation, DerivedReactivation
    <3>3. \A i \in DOMAIN events' : i \in DOMAIN events \/ i = Len(events) + 1
      BY <3>1
    <3>4. QED
      BY <1>1, <3>1, <3>2, <3>3 DEF ClaimsPending
  <2>3. QED
    BY <1>1, <2>1, <2>2, EventOrNone
<1>4. QED
  BY <1>2, <1>3 DEF OperatorInv

(* Row by row, table new continues table old.                              *)
Grown(old, new) ==
    /\ Len(old) \in Nat /\ DOMAIN old = 1..Len(old)
    /\ Len(new) \in Nat /\ DOMAIN new = 1..Len(new)
    /\ Len(old) <= Len(new)
    /\ \A i \in DOMAIN old : i \in DOMAIN new /\ new[i] = old[i]

(* Table new is table old with row e.                                      *)
Extended(old, new, e) ==
    /\ Grown(old, new)
    /\ Len(new) = Len(old) + 1
    /\ Len(new) \in DOMAIN new
    /\ new[Len(new)] = e
    /\ \A i \in DOMAIN new : i \in DOMAIN old \/ i = Len(new)
    /\ Len(new) \notin DOMAIN old

(* A table that keeps its rows has grown.                                  *)
LEMMA SameGrows ==
    ASSUME NEW S, NEW s \in Seq(S), NEW t, t = s
    PROVE  Grown(s, t)
BY DEF Grown

(* So has one with a row appended.                                         *)
LEMMA AppendExtends ==
    ASSUME NEW S, NEW s \in Seq(S), NEW e, NEW t, t = Append(s, e)
    PROVE  Extended(s, t, e)
<1>1. PICK T : T = S \cup {e}
  OBVIOUS
<1>2. s \in Seq(T) /\ e \in T
  BY <1>1
<1>3. /\ t \in Seq(T) /\ Len(t) = Len(s) + 1 /\ t[Len(s) + 1] = e
      /\ \A i \in 1..Len(s) : t[i] = s[i]
  BY <1>2
<1>4. /\ Len(s) \in Nat /\ DOMAIN s = 1..Len(s) /\ Len(t) \in Nat /\ DOMAIN t = 1..Len(t)
  BY <1>2, <1>3
<1>5. QED
  BY <1>3, <1>4 DEF Grown, Extended

(* How the operator tables grow: in the order of time, with events later   *)
(* than the newest completion.                                             *)
OperatorGrowth ==
    /\ Grown(events, events') /\ Grown(reviews, reviews') /\ Grown(decisions, decisions')
    /\ submissions \subseteq submissions'
    /\ \A i \in DOMAIN events' : i \notin DOMAIN events =>
            events'[i].at \in ClockReads /\ (transferredAt # 0 => transferredAt < events'[i].at)
    /\ \A i \in DOMAIN reviews' : i \notin DOMAIN reviews => reviews'[i].at \in ClockReads
    /\ \A i \in DOMAIN decisions' : i \notin DOMAIN decisions => decisions'[i].at \in ClockReads
    /\ clock <= clock'

(* A step of the operator network only extends its tables, and moves its   *)
(* clock forward.                                                          *)
LEMMA OperatorGrows ==
    ASSUME OperatorInv, [OperatorNext]_operatorVars
    PROVE  OperatorGrowth
<1> HIDE DEF EventRows, ReviewRows, DecisionRows
<1>1. /\ OperatorTypeOK /\ ClaimRowsOK
      /\ events \in Seq(EventRows) /\ reviews \in Seq(ReviewRows)
      /\ decisions \in Seq(DecisionRows) /\ clock \in Nat
  BY TimeAssumption DEF OperatorInv, OperatorTypeOK, Times
<1>2. /\ UNCHANGED events => Grown(events, events')
      /\ UNCHANGED reviews => Grown(reviews, reviews')
      /\ UNCHANGED decisions => Grown(decisions, decisions')
  BY <1>1, SameGrows
<1>3. ASSUME NEW d \in Deployments, NEW r \in Requests(d), NEW at \in ClockReads,
             ApplyOperatorAction(r, at), NEW e, EventFor(r, at, e)
      PROVE  OperatorGrowth
  <2>1. /\ events' = Append(events, e) /\ e.at = at
        /\ UNCHANGED <<clock, reviews, decisions, transferredAt>>
    BY <1>3 DEF EventFor, AppendOperatorAction
  <2>2. Extended(events, events', e)
    BY <1>1, <2>1, AppendExtends
  <2>3. Extends(at)
    BY <1>3 DEF ApplyOperatorAction
  <2>4. submissions \subseteq submissions'
    BY <1>3 DEF EventFor, DerivedEvent, DerivedClaim, DerivedWithdrawal, DerivedIssue,
       DerivedTokenRevocation, DerivedRedemption, DerivedLink, DerivedClaimCopy,
       DerivedLinkRevocation, DerivedDeactivation, DerivedReactivation, KeepClaims,
       WritePendingClaim, WithdrawCurrentClaim
  <2>5. QED
    BY <1>1, <1>2, <2>1, <2>2, <2>3, <2>4 DEF Extended, Extends, OperatorGrowth
<1>4. ASSUME UNCHANGED <<clock, events, submissions, reviews, decisions>>
      PROVE  OperatorGrowth
  BY <1>1, <1>2, <1>4 DEF OperatorGrowth
<1>5. ASSUME NEW r, RecordDuplicate(r) PROVE OperatorGrowth
  BY <1>4, <1>5 DEF RecordDuplicate
<1>6. ASSUME NEW s \in submissions, NEW at \in ClockReads, NEW decision,
             DecideOperatorClaim(s, decision, at)
      PROVE  OperatorGrowth
  <2>1. PICK e : e = [claim |-> s.claim, deployment |-> s.deployment, group |-> s.group,
                      company |-> s.company, decision |-> decision, at |-> at]
    OBVIOUS
  <2>2. /\ reviews' = Append(reviews, e) /\ e.at = at
        /\ UNCHANGED <<clock, events, submissions, decisions>>
    BY <1>6, <2>1 DEF DecideOperatorClaim
  <2>3. Extended(reviews, reviews', e)
    BY <1>1, <2>2, AppendExtends
  <2>4. QED
    BY <1>1, <1>2, <2>2, <2>3 DEF Extended, OperatorGrowth
<1>7. ASSUME NEW s \in submissions, NEW at \in ClockReads, NEW decision,
             DecideOperatorClaimEligibility(s, decision, at)
      PROVE  OperatorGrowth
  <2>1. PICK e : e = [claim |-> s.claim, deployment |-> s.deployment, group |-> s.group,
                      company |-> s.company, decision |-> decision, at |-> at]
    OBVIOUS
  <2>2. /\ decisions' = Append(decisions, e) /\ e.at = at
        /\ UNCHANGED <<clock, events, submissions, reviews>>
    BY <1>7, <2>1 DEF DecideOperatorClaimEligibility
  <2>3. Extended(decisions, decisions', e)
    BY <1>1, <2>2, AppendExtends
  <2>4. QED
    BY <1>1, <1>2, <2>2, <2>3 DEF Extended, OperatorGrowth
<1>8. ASSUME Tick PROVE OperatorGrowth
  BY <1>1, <1>2, <1>8 DEF Tick, OperatorGrowth
<1>9. ASSUME TransferCompletes \/ UNCHANGED operatorVars PROVE OperatorGrowth
  BY <1>4, <1>9 DEF TransferCompletes, operatorVars
<1>10. ASSUME OperatorStep PROVE OperatorGrowth
  <2>1. ASSUME NEW d \in Deployments, NEW r \in Requests(d), NEW at \in ClockReads,
               ApplyOperatorAction(r, at)
        PROVE  OperatorGrowth
    <3>1. \E e : EventFor(r, at, e)
      BY <1>1, <2>1, ReadsAreTimes, ActionAppends
    <3>2. QED
      BY <1>3, <2>1, <3>1
  <2>2. QED
    BY <1>5, <1>6, <1>7, <1>10, <2>1 DEF OperatorStep, ReviewClaim, ReviewEligibility
<1>11. QED
  BY <1>8, <1>9, <1>10 DEF OperatorNext

-----------------------------------------------------------------------------
(* The days of the clock.                                                  *)

(* Days are counted from one, follow the clock, and a day is over when a   *)
(* later one has begun.                                                    *)
LEMMA DayFacts ==
    /\ \A t \in Times : Day(t) \in Nat \ {0}
    /\ \A t, u \in Times : t <= u => Day(t) <= Day(u)
    /\ \A t \in Times, day \in Nat : day < Day(t) => LastSecond(day) < t
    /\ \A day \in Nat : LastSecond(day) \in Nat
<1> DEFINE n == SecondsPerDay
<1>1. n \in Nat \ {0}
  BY DayAssumption
<1> HIDE DEF n
<1>2. ASSUME NEW t \in Times PROVE t - 1 \in Nat /\ t \in Nat
  BY <1>2, TimeAssumption DEF Times
<1>3. ASSUME NEW a \in Nat, NEW b \in Nat, a <= b
      PROVE  a \div n <= b \div n /\ a \div n \in Nat
  BY <1>1, <1>3
<1>4. ASSUME NEW a \in Nat, NEW q \in Nat, q <= a \div n PROVE q * n <= a
  <2>1. a = n * (a \div n) + (a % n) /\ a % n \in 0..(n - 1) /\ a \div n \in Int
    BY <1>1, <1>4
  <2>2. PICK p \in Int : p = a \div n
    BY <2>1
  <2>3. q * n <= n * p
    BY <1>1, <1>4, <2>2
  <2>4. n * p \in Int /\ q * n \in Int /\ a % n >= 0 /\ a % n \in Int
    BY <1>1, <1>4, <2>1, <2>2
  <2>5. QED
    BY <2>1, <2>2, <2>3, <2>4
<1>5. ASSUME NEW t \in Times, NEW u \in Times, t <= u
      PROVE  Day(t) <= Day(u) /\ Day(t) \in Nat \ {0}
  <2>1. t - 1 \in Nat /\ u - 1 \in Nat /\ t - 1 <= u - 1
    BY <1>2, <1>5
  <2>2. (t - 1) \div n <= (u - 1) \div n /\ (t - 1) \div n \in Nat
        /\ (u - 1) \div n \in Nat
    BY <1>3, <2>1
  <2>3. QED
    BY <2>2 DEF Day, n
<1>6. ASSUME NEW t \in Times, NEW day \in Nat, day < Day(t) PROVE LastSecond(day) < t
  <2>1. t - 1 \in Nat /\ t \in Nat
    BY <1>2
  <2>2. (t - 1) \div n \in Nat
    BY <1>3, <2>1
  <2>3. day <= (t - 1) \div n
    BY <1>6, <2>2 DEF Day, n
  <2>4. day * n <= t - 1
    BY <1>4, <2>1, <2>3
  <2>5. day * n \in Nat
    BY <1>1
  <2>6. QED
    BY <2>1, <2>4, <2>5 DEF LastSecond, n
<1>7. \A day \in Nat : LastSecond(day) \in Nat
  BY <1>1 DEF LastSecond, n
<1>8. \A t \in Times : t <= t
  BY <1>2
<1>9. QED
  BY <1>5, <1>6, <1>7, <1>8

-----------------------------------------------------------------------------
(* The rows of the exit rails.                                             *)

(* The indexes and the rows of each table.                                 *)
LEMMA ExitTableTypes ==
    ASSUME TypeOK
    PROVE  /\ exitReviews \in Seq(ExitReviewRows) /\ exitEvents \in Seq(ExitEventRows)
           /\ transfers \in Seq(TransferRows) /\ transferEvents \in Seq(TransferEventRows)
           /\ memberships \in Seq(MembershipRows) /\ allocations \in Seq(AllocationRows)
           /\ allocationEvents \in Seq(AllocationEventRows)
           /\ Len(exitReviews) \in Nat /\ DOMAIN exitReviews = 1..Len(exitReviews)
           /\ Len(exitEvents) \in Nat /\ DOMAIN exitEvents = 1..Len(exitEvents)
           /\ Len(transfers) \in Nat /\ DOMAIN transfers = 1..Len(transfers)
           /\ Len(transferEvents) \in Nat /\ DOMAIN transferEvents = 1..Len(transferEvents)
           /\ Len(memberships) \in Nat /\ DOMAIN memberships = 1..Len(memberships)
           /\ Len(allocations) \in Nat /\ DOMAIN allocations = 1..Len(allocations)
           /\ Len(allocationEvents) \in Nat
           /\ DOMAIN allocationEvents = 1..Len(allocationEvents)
           /\ \A v \in DOMAIN exitReviews : exitReviews[v] \in ExitReviewRows
           /\ \A k \in DOMAIN exitEvents : exitEvents[k] \in ExitEventRows
           /\ \A x \in DOMAIN transfers : transfers[x] \in TransferRows
           /\ \A k \in DOMAIN transferEvents : transferEvents[k] \in TransferEventRows
           /\ \A m \in DOMAIN memberships : memberships[m] \in MembershipRows
           /\ \A a \in DOMAIN allocations : allocations[a] \in AllocationRows
           /\ \A k \in DOMAIN allocationEvents : allocationEvents[k] \in AllocationEventRows
<1>1. /\ exitReviews \in Seq(ExitReviewRows) /\ exitEvents \in Seq(ExitEventRows)
      /\ transfers \in Seq(TransferRows) /\ transferEvents \in Seq(TransferEventRows)
      /\ memberships \in Seq(MembershipRows) /\ allocations \in Seq(AllocationRows)
      /\ allocationEvents \in Seq(AllocationEventRows)
  BY DEF TypeOK
<1> HIDE DEF ExitReviewRows, ExitEventRows, TransferRows, TransferEventRows, MembershipRows,
             AllocationRows, AllocationEventRows
<1>2. QED
  BY <1>1

(* How the tables of the exit rails grow.                                  *)
ExitGrowth ==
    /\ Grown(exitReviews, exitReviews') /\ Grown(exitEvents, exitEvents')
    /\ Grown(transfers, transfers') /\ Grown(transferEvents, transferEvents')
    /\ Grown(memberships, memberships') /\ Grown(allocations, allocations')
    /\ Grown(allocationEvents, allocationEvents')

(* When every table has grown, a row is still a row of its table.          *)
LEMMA ExitRowsGrow ==
    ASSUME OperatorGrowth, ExitGrowth
    PROVE  /\ ExitReviewRows \subseteq ExitReviewRows'
           /\ ExitEventRows \subseteq ExitEventRows'
           /\ TransferRows \subseteq TransferRows'
           /\ TransferEventRows \subseteq TransferEventRows'
           /\ MembershipRows \subseteq MembershipRows'
           /\ AllocationRows \subseteq AllocationRows'
           /\ AllocationEventRows \subseteq AllocationEventRows'
<1>1. /\ DOMAIN events \subseteq DOMAIN events' /\ Ids \subseteq Ids'
      /\ 0..Len(reviews) \subseteq 0..Len(reviews')
      /\ 0..Len(decisions) \subseteq 0..Len(decisions')
  BY DEF OperatorGrowth, Grown, Ids
<1>2. /\ DOMAIN exitReviews \subseteq DOMAIN exitReviews'
      /\ DOMAIN exitEvents \subseteq DOMAIN exitEvents'
      /\ DOMAIN transfers \subseteq DOMAIN transfers'
      /\ DOMAIN transferEvents \subseteq DOMAIN transferEvents'
      /\ 0..Len(transferEvents) \subseteq 0..Len(transferEvents')
      /\ DOMAIN allocations \subseteq DOMAIN allocations'
  BY SMTT(30) DEF ExitGrowth, Grown
<1>3. MemberRows \subseteq MemberRows'
  BY <1>1 DEF MemberRows
<1>4. SUBSET MemberRows \subseteq SUBSET (MemberRows')
  BY <1>3
<1>5. ExitReviewRows \subseteq ExitReviewRows'
  <2>1. ExitReviewRows' =
            [target: Deployments, claim: DOMAIN events', group: DOMAIN events',
             date: 1..Day(MaxTime), audit: Ids', review: 0..Len(reviews'),
             eligibility: 0..Len(decisions'), members: SUBSET (MemberRows'), at: Times]
    BY DEF ExitReviewRows
  <2> HIDE DEF MemberRows, Ids
  <2>2. QED
    BY <1>1, <1>4, <2>1 DEF ExitReviewRows
<1>6. ExitEventRows \subseteq ExitEventRows'
  BY <1>2 DEF ExitEventRows
<1>7. TransferRows \subseteq TransferRows'
  BY <1>1, <1>2 DEF TransferRows
<1>8. TransferEventRows \subseteq TransferEventRows'
  BY <1>2 DEF TransferEventRows
<1>9. MembershipRows \subseteq MembershipRows'
  BY <1>1, <1>2 DEF MembershipRows
<1>10. AllocationRows \subseteq AllocationRows'
  BY <1>1, <1>2 DEF AllocationRows
<1>11. AllocationEventRows \subseteq AllocationEventRows'
  BY <1>2 DEF AllocationEventRows
<1>12. QED
  BY <1>5, <1>6, <1>7, <1>8, <1>9, <1>10, <1>11

-----------------------------------------------------------------------------
(* The network rows of the past.                                           *)

(* A network row of some time: a claimed one is that of a claim event.     *)
PastRow(row) ==
    /\ row \in NetworkRows
    /\ row.claimed => row.profile \in DOMAIN events /\ row.state = "pending-review"

(* An event of the chain leaves such a row.                                *)
LEMMA EventLeavesRow ==
    ASSUME OperatorInv, NEW i \in DOMAIN events, NEW row, PastRow(row)
    PROVE  PastRow(ApplyEvent(row, events[i], i))
<1>1. PICK e : e = events[i]
  OBVIOUS
<1>2. /\ e \in EventRows /\ i \in Ids /\ 0 \in Ids /\ DOMAIN events = 1..Len(events)
      /\ Len(events) \in Nat
  BY <1>1, TableTypes DEF OperatorInv, Ids
<1>3. e.payload.action = "claim" => e.state = "pending-review"
  BY <1>1 DEF OperatorInv, ClaimsPending
<1>4. /\ e.group \in Ids /\ e.link \in Ids /\ e.company \in AnyCompany /\ e.state \in ClaimStates
      /\ e.related \in AnyDeployment /\ NoDeployment \in AnyDeployment
      /\ "withdrawn" \in ClaimStates
  BY <1>2 DEF EventRows, AnyDeployment, ClaimStates
<1>5. row \in NetworkRows /\ row.claimed \in BOOLEAN
  BY DEF PastRow, NetworkRows
<1>6. /\ row.group \in Ids
      /\ row.claimed => row.profile \in DOMAIN events /\ row.state = "pending-review"
  BY DEF PastRow, NetworkRows
<1> HIDE DEF Ids, AnyCompany, AnyDeployment, ClaimStates
<1>7. ASSUME e.state = "pending-review" PROVE PastRow(Claimed(row, e, i))
  <2>1. Claimed(row, e, i) \in NetworkRows /\ Claimed(row, e, i).profile = i
        /\ Claimed(row, e, i).state = e.state
    BY <1>2, <1>4, <1>5 DEF Claimed, NetworkRows
  <2>2. QED
    BY <1>7, <2>1 DEF PastRow
<1>8. PastRow(Withdrawn(row))
  BY <1>2, <1>4, <1>5 DEF Withdrawn, NetworkRows, PastRow
<1>9. ASSUME NEW w, PastRow(w), NEW l \in Ids PROVE PastRow([w EXCEPT !.link = l])
  BY <1>9 DEF PastRow, NetworkRows
<1>10. ASSUME NEW w, PastRow(w), NEW a \in BOOLEAN PROVE PastRow([w EXCEPT !.active = a])
  BY <1>10 DEF PastRow, NetworkRows
<1>11. ASSUME NEW g \in Ids, NEW l \in Ids, NEW x \in AnyDeployment
       PROVE  PastRow([row EXCEPT !.effective = g, !.link = l, !.related = x])
  BY <1>11 DEF PastRow, NetworkRows
<1>12. CASE e.payload.action = "claim"
  <2>1. ApplyEvent(row, e, i) = [Claimed(row, e, i) EXCEPT !.link = 0]
    BY <1>12 DEF ApplyEvent
  <2>2. PastRow(Claimed(row, e, i))
    BY <1>3, <1>7, <1>12
  <2>3. QED
    BY <1>1, <1>2, <1>9, <2>1, <2>2
<1>13. CASE e.payload.action = "withdraw-claim"
  BY <1>1, <1>8, <1>13 DEF ApplyEvent
<1>14. CASE e.payload.action = "redeem-client-token"
  <2>1. CASE ~row.claimed /\ DerivesClaim(e)
    <3>1. ApplyEvent(row, e, i) = Claimed(row, e, i)
      BY <1>14, <2>1 DEF ApplyEvent
    <3>2. e.state = "pending-review"
      BY <2>1 DEF DerivesClaim
    <3>3. QED
      BY <1>1, <1>7, <3>1, <3>2
  <2>2. CASE ~(~row.claimed /\ DerivesClaim(e))
    <3>1. ApplyEvent(row, e, i) =
            [row EXCEPT !.effective = e.group, !.link = e.link, !.related = e.related]
      BY <1>14, <2>2 DEF ApplyEvent
    <3>2. PastRow([row EXCEPT !.effective = e.group, !.link = e.link, !.related = e.related])
      BY <1>4, <1>11
    <3>3. QED
      BY <1>1, <3>1, <3>2
  <2>3. QED
    BY <2>1, <2>2
<1>15. CASE e.payload.action = "revoke-group-link"
  <2>1. PICK g : g = IF row.claimed THEN row.group ELSE 0
    OBVIOUS
  <2>2. g \in Ids
    BY <1>2, <1>6, <2>1
  <2>3. ApplyEvent(row, e, i) =
            [row EXCEPT !.effective = g, !.link = 0, !.related = NoDeployment]
    BY <1>15, <2>1 DEF ApplyEvent
  <2>4. PastRow([row EXCEPT !.effective = g, !.link = 0, !.related = NoDeployment])
    BY <1>2, <1>4, <1>11, <2>2
  <2>5. QED
    BY <1>1, <2>3, <2>4
<1>16. CASE e.payload.action = "deactivate-deployment"
  <2>1. PICK w : w = IF row.claimed THEN Withdrawn(row) ELSE row
    OBVIOUS
  <2>2. ApplyEvent(row, e, i) = [w EXCEPT !.active = FALSE]
    BY <1>16, <2>1 DEF ApplyEvent
  <2>3. PastRow(w)
    BY <1>8, <2>1
  <2>4. QED
    BY <1>1, <1>10, <2>2, <2>3
<1>17. CASE e.payload.action = "reactivate-deployment"
  <2>1. ApplyEvent(row, e, i) = [row EXCEPT !.active = TRUE]
    BY <1>17 DEF ApplyEvent
  <2>2. QED
    BY <1>1, <1>10, <2>1
<1>18. CASE e.payload.action \notin {"claim", "withdraw-claim", "redeem-client-token",
                "revoke-group-link", "deactivate-deployment", "reactivate-deployment"}
  <2>1. ApplyEvent(row, e, i) = row
    BY <1>18 DEF ApplyEvent
  <2>2. QED
    BY <1>1, <2>1
<1>19. QED
  BY <1>12, <1>13, <1>14, <1>15, <1>16, <1>17, <1>18

(* So the rows as of every audit index are such rows.                      *)
LEMMA PastRows ==
    ASSUME OperatorInv
    PROVE  \A i \in 0..Len(events) :
                /\ DOMAIN NetworkAt[i] = Deployments
                /\ \A d \in Deployments : PastRow(NetworkAt[i][d])
<1> DEFINE Good(rows) == DOMAIN rows = Deployments /\ \A d \in Deployments : PastRow(rows[d])
           T == {i \in Nat : i <= Len(events) /\ ~Good(NetworkAt[i])}
<1>1. Len(events) \in Nat /\ DOMAIN events = 1..Len(events)
  BY TableTypes DEF OperatorInv
<1>2. SUFFICES ASSUME T # {} PROVE FALSE
  BY <1>1
<1>3. PICK m \in T : \A y \in T : m <= y
  BY <1>2, SmallestElement
<1>4. m \in Nat /\ m <= Len(events) /\ ~Good(NetworkAt[m])
  BY <1>3
<1>5. NetworkAt[m] = IF m = 0 THEN NoRows ELSE StepRows(m, NetworkAt[m - 1])
  BY <1>4, RowsUnfolds
<1>6. Good(NoRows)
  <2>1. InitialRow \in NetworkRows /\ ~InitialRow.claimed
    BY <1>1 DEF InitialRow, NetworkRows, ClaimStates, Ids, AnyCompany, AnyDeployment
  <2>2. PastRow(InitialRow)
    BY <2>1 DEF PastRow
  <2>3. QED
    BY <2>2 DEF NoRows
<1>7. CASE m # 0
  <2>1. m - 1 \in Nat /\ m - 1 <= Len(events) /\ ~(m <= m - 1) /\ m \in DOMAIN events
    BY <1>1, <1>4, <1>7
  <2>2. PICK rows : rows = NetworkAt[m - 1]
    OBVIOUS
  <2>3. Good(rows)
    BY <1>3, <2>1, <2>2
  <2>4. \A d \in Deployments : PastRow(ApplyEvent(rows[d], events[m], m))
    BY <2>1, <2>3, EventLeavesRow
  <2>5. Good(StepRows(m, rows))
    <3> HIDE DEF PastRow
    <3>1. QED
      BY <2>3, <2>4 DEF StepRows
  <2>6. QED
    BY <1>4, <1>5, <1>7, <2>2, <2>5
<1>8. QED
  BY <1>4, <1>5, <1>6, <1>7

-----------------------------------------------------------------------------
(* Boundaries and the members of a group.                                  *)

(* A boundary within the tables.                                           *)
Within(b) ==
    /\ b.audit \in 0..Len(events)
    /\ b.review \in 0..Len(reviews)
    /\ b.eligibility \in 0..Len(decisions)
    /\ b.transfer \in 0..Len(transferEvents)

(* The rows of a chain accepted by some time are some of its rows.         *)
LEMMA ThroughIndexIs ==
    ASSUME NEW S, NEW chain \in Seq(S), NEW t
    PROVE  /\ ThroughIndex(chain, t) \in 0..Len(chain)
           /\ (\A i \in DOMAIN chain : chain[i].at <= t) => ThroughIndex(chain, t) = Len(chain)
<1> DEFINE I == {i \in DOMAIN chain : chain[i].at <= t}
<1>1. Len(chain) \in Nat /\ DOMAIN chain = 1..Len(chain)
  OBVIOUS
<1>2. IsFiniteSet(1..Len(chain)) /\ Cardinality(1..Len(chain)) = Len(chain)
  BY <1>1, FS_Interval
<1>3. I \in SUBSET (1..Len(chain))
  BY <1>1
<1>4. IsFiniteSet(I) /\ Cardinality(I) <= Len(chain) /\ Cardinality(I) \in Nat
  <2> HIDE DEF I
  <2>1. IsFiniteSet(I) /\ Cardinality(I) <= Cardinality(1..Len(chain))
    BY <1>2, <1>3, FS_Subset
  <2>2. Cardinality(I) \in Nat
    BY <2>1, FS_CardinalityType
  <2>3. QED
    BY <1>2, <2>1, <2>2
<1>5. (\A i \in DOMAIN chain : chain[i].at <= t) => I = 1..Len(chain)
  BY <1>1
<1>6. ThroughIndex(chain, t) = Cardinality(I)
  BY DEF ThroughIndex
<1>7. QED
  <2> HIDE DEF I
  <2>1. QED
    BY <1>1, <1>2, <1>4, <1>5, <1>6

(* Every boundary that is read is within the tables.                       *)
LEMMA BoundaryWithin ==
    ASSUME TypeOK, NEW t
    PROVE  Within(BoundaryAt(t))
<1>1. /\ events \in Seq(EventRows) /\ reviews \in Seq(ReviewRows)
      /\ decisions \in Seq(DecisionRows) /\ transferEvents \in Seq(TransferEventRows)
  BY DEF TypeOK, OperatorTypeOK
<1>2. /\ ThroughIndex(events, t) \in 0..Len(events)
      /\ ThroughIndex(reviews, t) \in 0..Len(reviews)
      /\ ThroughIndex(decisions, t) \in 0..Len(decisions)
      /\ ThroughIndex(transferEvents, t) \in 0..Len(transferEvents)
  BY <1>1, ThroughIndexIs
<1>3. QED
  BY <1>2 DEF Within, BoundaryAt

(* The members of a group at such a boundary are member rows.              *)
LEMMA MembersTyped ==
    ASSUME OperatorInv, NEW group, NEW b, Within(b)
    PROVE  MembersAt(group, b) \subseteq MemberRows
<1>1. PICK rows : rows = NetworkAt[b.audit]
  OBVIOUS
<1>2. \A d \in Deployments : PastRow(rows[d])
  BY <1>1, PastRows DEF Within
<1>3. ASSUME NEW d \in Deployments, rows[d].claimed
      PROVE  /\ rows[d].profile \in DOMAIN events
             /\ ClaimStateAt(rows[d], b) \in VerificationStates
             /\ EligibilityAt(rows[d], b) \in EligibilityStates
  <2>1. rows[d].profile \in DOMAIN events /\ rows[d].state = "pending-review"
    BY <1>2, <1>3 DEF PastRow
  <2>2. ClaimStateAt(rows[d], b) \in VerificationStates
    <3> DEFINE R == {k \in 1..b.review : reviews[k].claim = rows[d].profile}
    <3>1. b.review \in Nat /\ b.review <= Len(reviews) /\ Len(reviews) \in Nat
          /\ DOMAIN reviews = 1..Len(reviews)
      BY TableTypes DEF Within, OperatorInv
    <3>2. CASE R = {}
      BY <2>1, <3>2 DEF ClaimStateAt, VerificationStates
    <3>3. CASE R # {}
      <4>1. R \in SUBSET (1..b.review) /\ R \in SUBSET Int
        BY <3>1
      <4>2. PICK m \in R : \A j \in R : j <= m
        <5> HIDE DEF R
        <5>1. QED
          BY <3>1, <3>3, <4>1, LargestElement
      <4>3. Newest(R) = m
        <5> HIDE DEF R
        <5>1. QED
          BY <4>1, <4>2, NewestIs
      <4>4. m \in DOMAIN reviews
        BY <3>1, <4>2
      <4>5. reviews[m] \in ReviewRows
        BY <4>4, TableTypes DEF OperatorInv
      <4>6. reviews[m].decision \in VerificationStates
        BY <4>5 DEF ReviewRows, VerificationStates
      <4>7. ClaimStateAt(rows[d], b) = reviews[m].decision
        BY <2>1, <3>3, <4>3 DEF ClaimStateAt
      <4>8. QED
        BY <4>6, <4>7
    <3>4. QED
      BY <3>2, <3>3
  <2>3. EligibilityAt(rows[d], b) \in EligibilityStates
    BY DEF EligibilityAt, EligibilityStates
  <2>4. QED
    BY <2>1, <2>2, <2>3
<1>4. QED
  BY <1>1, <1>3 DEF MembersAt, MemberRows

-----------------------------------------------------------------------------
(* The newest events of reviews, transfers and allocations.                *)

(* The newest of some table indexes.                                       *)
LEMMA NewestOf ==
    ASSUME NEW n \in Nat, NEW S \in SUBSET (1..n), S # {}
    PROVE  Newest(S) \in S /\ \A j \in S : j <= Newest(S)
<1>1. PICK m \in S : \A j \in S : j <= m
  BY LargestElement
<1>2. S \in SUBSET Int
  OBVIOUS
<1>3. Newest(S) = m
  BY <1>1, <1>2, NewestIs
<1>4. QED
  BY <1>1, <1>3

(* An index beyond the table is newer than all of it.                      *)
LEMMA NewestBeyond ==
    ASSUME NEW n \in Nat, NEW S \in SUBSET (1..n)
    PROVE  Newest(S \cup {n + 1}) = n + 1
<1>1. S \cup {n + 1} \in SUBSET Int /\ n + 1 \in S \cup {n + 1}
      /\ \A j \in S \cup {n + 1} : j <= n + 1
  OBVIOUS
<1>2. QED
  BY <1>1, NewestIs

(* The events of one review, one transfer, one allocation.                 *)
ExitEventsOf(v) == {k \in DOMAIN exitEvents : exitEvents[k].exit = v}
TransferEventsOf(x) == {k \in DOMAIN transferEvents : transferEvents[k].transfer = x}
AllocationEventsOf(a) == {k \in DOMAIN allocationEvents : allocationEvents[k].allocation = a}

(* None of them is without an event.                                       *)
HeadsExist ==
    /\ \A v \in DOMAIN exitReviews : ExitEventsOf(v) # {}
    /\ \A x \in DOMAIN transfers : TransferEventsOf(x) # {}
    /\ \A a \in DOMAIN allocations : AllocationEventsOf(a) # {}

(* So each has a newest one.                                               *)
LEMMA ExitHeadIs ==
    ASSUME TypeOK, HeadsExist, NEW v \in DOMAIN exitReviews
    PROVE  /\ ExitHead(v) \in DOMAIN exitEvents
           /\ exitEvents[ExitHead(v)].exit = v
           /\ \A k \in DOMAIN exitEvents : exitEvents[k].exit = v => k <= ExitHead(v)
<1>1. Len(exitEvents) \in Nat /\ DOMAIN exitEvents = 1..Len(exitEvents)
  BY ExitTableTypes
<1>2. ExitEventsOf(v) \in SUBSET (1..Len(exitEvents)) /\ ExitEventsOf(v) # {}
  BY <1>1 DEF HeadsExist, ExitEventsOf
<1>3. Newest(ExitEventsOf(v)) \in ExitEventsOf(v)
      /\ \A j \in ExitEventsOf(v) : j <= Newest(ExitEventsOf(v))
  BY <1>1, <1>2, NewestOf
<1>4. ExitHead(v) = Newest(ExitEventsOf(v))
  BY DEF ExitHead, ExitEventsOf
<1>5. QED
  BY <1>3, <1>4 DEF ExitEventsOf

(* The head of a stored transfer is its newest event.                      *)
LEMMA TransferHeadIs ==
    ASSUME TypeOK, HeadsExist, NEW x \in DOMAIN transfers
    PROVE  /\ TransferHead(x) \in DOMAIN transferEvents
           /\ transferEvents[TransferHead(x)].transfer = x
           /\ \A k \in DOMAIN transferEvents :
                transferEvents[k].transfer = x => k <= TransferHead(x)
<1>1. Len(transferEvents) \in Nat /\ DOMAIN transferEvents = 1..Len(transferEvents)
  BY ExitTableTypes
<1>2. TransferEventsOf(x) \in SUBSET (1..Len(transferEvents)) /\ TransferEventsOf(x) # {}
  BY <1>1 DEF HeadsExist, TransferEventsOf
<1>3. Newest(TransferEventsOf(x)) \in TransferEventsOf(x)
      /\ \A j \in TransferEventsOf(x) : j <= Newest(TransferEventsOf(x))
  BY <1>1, <1>2, NewestOf
<1>4. TransferHead(x) = Newest(TransferEventsOf(x))
  BY DEF TransferHead, TransferEventsOf
<1>5. QED
  BY <1>3, <1>4 DEF TransferEventsOf

(* The head of a stored allocation is its newest event.                    *)
LEMMA AllocationHeadIs ==
    ASSUME TypeOK, HeadsExist, NEW a \in DOMAIN allocations
    PROVE  /\ AllocationHead(a) \in DOMAIN allocationEvents
           /\ allocationEvents[AllocationHead(a)].allocation = a
           /\ \A k \in DOMAIN allocationEvents :
                allocationEvents[k].allocation = a => k <= AllocationHead(a)
<1>1. Len(allocationEvents) \in Nat /\ DOMAIN allocationEvents = 1..Len(allocationEvents)
  BY ExitTableTypes
<1>2. AllocationEventsOf(a) \in SUBSET (1..Len(allocationEvents)) /\ AllocationEventsOf(a) # {}
  BY <1>1 DEF HeadsExist, AllocationEventsOf
<1>3. Newest(AllocationEventsOf(a)) \in AllocationEventsOf(a)
      /\ \A j \in AllocationEventsOf(a) : j <= Newest(AllocationEventsOf(a))
  BY <1>1, <1>2, NewestOf
<1>4. AllocationHead(a) = Newest(AllocationEventsOf(a))
  BY DEF AllocationHead, AllocationEventsOf
<1>5. QED
  BY <1>3, <1>4 DEF AllocationEventsOf

(* An appended event is the newest of its review, and of no other.         *)
LEMMA ExitHeadMoves ==
    ASSUME NEW e, Extended(exitEvents, exitEvents', e)
    PROVE  /\ ExitHead(e.exit)' = Len(exitEvents) + 1
           /\ \A v : v # e.exit => ExitHead(v)' = ExitHead(v)
           /\ \A v : ExitEventsOf(v) \subseteq ExitEventsOf(v)'
           /\ ExitEventsOf(e.exit)' # {}
<1>1. PICK n : n = Len(exitEvents)
  OBVIOUS
<1>2. /\ n \in Nat /\ DOMAIN exitEvents = 1..n /\ Len(exitEvents') = n + 1
      /\ exitEvents'[n + 1] = e /\ n + 1 \in DOMAIN exitEvents' /\ n + 1 \notin DOMAIN exitEvents
      /\ \A i \in DOMAIN exitEvents : i \in DOMAIN exitEvents' /\ exitEvents'[i] = exitEvents[i]
      /\ \A i \in DOMAIN exitEvents' : i \in DOMAIN exitEvents \/ i = n + 1
  BY <1>1 DEF Extended, Grown
<1>3. ASSUME NEW v
      PROVE  ExitEventsOf(v)' = IF v = e.exit THEN ExitEventsOf(v) \cup {n + 1}
                                ELSE ExitEventsOf(v)
  BY <1>2 DEF ExitEventsOf
<1>4. \A v : ExitHead(v) = Newest(ExitEventsOf(v)) /\ ExitHead(v)' = Newest(ExitEventsOf(v)')
  BY DEF ExitHead, ExitEventsOf, Newest
<1>5. ASSUME NEW v PROVE Newest(ExitEventsOf(v) \cup {n + 1}) = n + 1
  <2>1. ExitEventsOf(v) \in SUBSET (1..n)
    BY <1>2 DEF ExitEventsOf
  <2>2. QED
    BY <1>2, <2>1, NewestBeyond
<1>6. QED
  BY <1>1, <1>3, <1>4, <1>5

(* A new transfer event is the head of its transfer, and of no other.      *)
LEMMA TransferHeadMoves ==
    ASSUME NEW e, Extended(transferEvents, transferEvents', e)
    PROVE  /\ TransferHead(e.transfer)' = Len(transferEvents) + 1
           /\ \A x : x # e.transfer => TransferHead(x)' = TransferHead(x)
           /\ \A x : TransferEventsOf(x) \subseteq TransferEventsOf(x)'
           /\ TransferEventsOf(e.transfer)' # {}
<1>1. PICK n : n = Len(transferEvents)
  OBVIOUS
<1>2. /\ n \in Nat /\ DOMAIN transferEvents = 1..n /\ Len(transferEvents') = n + 1
      /\ transferEvents'[n + 1] = e /\ n + 1 \in DOMAIN transferEvents'
      /\ n + 1 \notin DOMAIN transferEvents
      /\ \A i \in DOMAIN transferEvents :
            i \in DOMAIN transferEvents' /\ transferEvents'[i] = transferEvents[i]
      /\ \A i \in DOMAIN transferEvents' : i \in DOMAIN transferEvents \/ i = n + 1
  BY <1>1 DEF Extended, Grown
<1>3. ASSUME NEW x
      PROVE  TransferEventsOf(x)' = IF x = e.transfer THEN TransferEventsOf(x) \cup {n + 1}
                                    ELSE TransferEventsOf(x)
  BY <1>2 DEF TransferEventsOf
<1>4. \A x : TransferHead(x) = Newest(TransferEventsOf(x))
             /\ TransferHead(x)' = Newest(TransferEventsOf(x)')
  BY DEF TransferHead, TransferEventsOf, Newest
<1>5. ASSUME NEW x PROVE Newest(TransferEventsOf(x) \cup {n + 1}) = n + 1
  <2>1. TransferEventsOf(x) \in SUBSET (1..n)
    BY <1>2 DEF TransferEventsOf
  <2>2. QED
    BY <1>2, <2>1, NewestBeyond
<1>6. QED
  BY <1>1, <1>3, <1>4, <1>5

(* A new allocation event is the head of its allocation, and of no other.  *)
LEMMA AllocationHeadMoves ==
    ASSUME NEW e, Extended(allocationEvents, allocationEvents', e)
    PROVE  /\ AllocationHead(e.allocation)' = Len(allocationEvents) + 1
           /\ \A a : a # e.allocation => AllocationHead(a)' = AllocationHead(a)
           /\ \A a : AllocationEventsOf(a) \subseteq AllocationEventsOf(a)'
           /\ AllocationEventsOf(e.allocation)' # {}
<1>1. PICK n : n = Len(allocationEvents)
  OBVIOUS
<1>2. /\ n \in Nat /\ DOMAIN allocationEvents = 1..n /\ Len(allocationEvents') = n + 1
      /\ allocationEvents'[n + 1] = e /\ n + 1 \in DOMAIN allocationEvents'
      /\ n + 1 \notin DOMAIN allocationEvents
      /\ \A i \in DOMAIN allocationEvents :
            i \in DOMAIN allocationEvents' /\ allocationEvents'[i] = allocationEvents[i]
      /\ \A i \in DOMAIN allocationEvents' : i \in DOMAIN allocationEvents \/ i = n + 1
  BY <1>1 DEF Extended, Grown
<1>3. ASSUME NEW a
      PROVE  AllocationEventsOf(a)' =
                IF a = e.allocation THEN AllocationEventsOf(a) \cup {n + 1}
                ELSE AllocationEventsOf(a)
  BY <1>2 DEF AllocationEventsOf
<1>4. \A a : AllocationHead(a) = Newest(AllocationEventsOf(a))
             /\ AllocationHead(a)' = Newest(AllocationEventsOf(a)')
  BY DEF AllocationHead, AllocationEventsOf, Newest
<1>5. ASSUME NEW a PROVE Newest(AllocationEventsOf(a) \cup {n + 1}) = n + 1
  <2>1. AllocationEventsOf(a) \in SUBSET (1..n)
    BY <1>2 DEF AllocationEventsOf
  <2>2. QED
    BY <1>2, <2>1, NewestBeyond
<1>6. QED
  BY <1>1, <1>3, <1>4, <1>5

-----------------------------------------------------------------------------
(* What the commands write.                                                *)

FreezeEvent(at) ==
    [exit |-> Len(exitReviews) + 1, action |-> "freeze", status |-> "review-pending", at |-> at]

Froze(s, date, at) ==
    /\ FreezeExitReview(s, date, at)
    /\ Extended(exitReviews, exitReviews', FrozenRecord(s, date, at))
    /\ Extended(exitEvents, exitEvents', FreezeEvent(at))
    /\ UNCHANGED <<operatorVars, transfers, transferEvents, memberships, allocations,
                   allocationEvents>>

ReviewEvent(v, action, at) ==
    [exit |-> v, action |-> action, status |-> ExitResult[action], at |-> at]

ReviewedExit(v, action, at) ==
    /\ AppendExitReviewEvent(v, action, at)
    /\ Extended(exitEvents, exitEvents', ReviewEvent(v, action, at))
    /\ UNCHANGED <<operatorVars, exitReviews, transfers, transferEvents, memberships,
                   allocations, allocationEvents>>

PreparedTransfer(v, group, at) ==
    [exit |-> v, target |-> exitReviews[v].target, claim |-> exitReviews[v].claim,
     source |-> exitReviews[v].group, to |-> group, verification |-> ExitHead(v), at |-> at]

PrepareEvent(at) ==
    [transfer |-> Len(transfers) + 1, action |-> "prepare", status |-> "prepared", at |-> at]

Prepared(v, group, at) ==
    /\ PrepareOwnershipTransfer(v, group, at)
    /\ Extended(transfers, transfers', PreparedTransfer(v, group, at))
    /\ Extended(transferEvents, transferEvents', PrepareEvent(at))
    /\ UNCHANGED <<operatorVars, exitReviews, exitEvents, memberships, allocations,
                   allocationEvents>>

Decided(x, action, at) ==
    /\ DecideOwnershipTransfer(x, action, at)
    /\ Extended(transferEvents, transferEvents', TransferEvent(x, action, at))
    /\ UNCHANGED <<operatorVars, exitReviews, exitEvents, transfers, memberships,
                   allocations, allocationEvents>>

Membership(x, at) ==
    [transfer |-> x, event |-> Len(transferEvents) + 1, target |-> transfers[x].target,
     claim |-> transfers[x].claim, source |-> transfers[x].source, to |-> transfers[x].to,
     effective |-> Day(at), through |-> Len(events), at |-> at]

Completed(x, at) ==
    /\ CompleteOwnershipTransfer(x, at)
    /\ Extended(transferEvents, transferEvents', TransferEvent(x, "complete", at))
    /\ Extended(memberships, memberships', Membership(x, at))
    /\ transferredAt' = at
    /\ UNCHANGED <<operatorTables, clock, exitReviews, exitEvents, transfers, allocations,
                   allocationEvents>>

Allocation(v, x, beneficiary, at) ==
    [exit |-> v, verification |-> ExitHead(v), transfer |-> x,
     completion |-> IF x = 0 THEN 0 ELSE TransferHead(x), through |-> Len(transferEvents),
     beneficiary |-> beneficiary, at |-> at]

CreateEvent(at) == [allocation |-> Len(allocations) + 1, action |-> "create", at |-> at]

Created(v, x, beneficiary, at) ==
    /\ CreateExitAllocation(v, x, beneficiary, at)
    /\ Extended(allocations, allocations', Allocation(v, x, beneficiary, at))
    /\ Extended(allocationEvents, allocationEvents', CreateEvent(at))
    /\ UNCHANGED <<operatorVars, exitReviews, exitEvents, transfers, transferEvents, memberships>>

VerifyEvent(a, at) == [allocation |-> a, action |-> "verify", at |-> at]

Verified(a, at) ==
    /\ VerifyExitAllocation(a, at)
    /\ Extended(allocationEvents, allocationEvents', VerifyEvent(a, at))
    /\ UNCHANGED <<operatorVars, exitReviews, exitEvents, transfers, transferEvents,
                   memberships, allocations>>

(* Every step is one of these, or leaves the exit rails alone.             *)
LEMMA ExitCases ==
    ASSUME TypeOK, [Next]_vars
    PROVE  \/ UNCHANGED exitVars
           \/ \E s \in submissions, date \in 1..Day(clock), at \in ClockReads : Froze(s, date, at)
           \/ \E v \in DOMAIN exitReviews, action \in DOMAIN ExitResult, at \in ClockReads :
                ReviewedExit(v, action, at)
           \/ \E v \in DOMAIN exitReviews, group \in Groups, at \in ClockReads :
                Prepared(v, group, at)
           \/ \E x \in DOMAIN transfers, action \in DOMAIN TransferResult, at \in ClockReads :
                Decided(x, action, at)
           \/ \E x \in DOMAIN transfers, at \in ClockReads : Completed(x, at)
           \/ \E v \in DOMAIN exitReviews, x \in {0} \cup DOMAIN transfers,
                 beneficiary \in Groups \cup Contractors, at \in ClockReads :
                Created(v, x, beneficiary, at)
           \/ \E a \in DOMAIN allocations, at \in ClockReads : Verified(a, at)
<1> HIDE DEF ExitReviewRows, ExitEventRows, TransferRows, TransferEventRows, MembershipRows,
             AllocationRows, AllocationEventRows
<1>1. /\ exitReviews \in Seq(ExitReviewRows) /\ exitEvents \in Seq(ExitEventRows)
      /\ transfers \in Seq(TransferRows) /\ transferEvents \in Seq(TransferEventRows)
      /\ memberships \in Seq(MembershipRows) /\ allocations \in Seq(AllocationRows)
      /\ allocationEvents \in Seq(AllocationEventRows)
  BY ExitTableTypes
<1>2. /\ \A e : exitReviews' = Append(exitReviews, e) => Extended(exitReviews, exitReviews', e)
      /\ \A e : exitEvents' = Append(exitEvents, e) => Extended(exitEvents, exitEvents', e)
      /\ \A e : transfers' = Append(transfers, e) => Extended(transfers, transfers', e)
      /\ \A e : transferEvents' = Append(transferEvents, e)
                    => Extended(transferEvents, transferEvents', e)
      /\ \A e : memberships' = Append(memberships, e) => Extended(memberships, memberships', e)
      /\ \A e : allocations' = Append(allocations, e) => Extended(allocations, allocations', e)
      /\ \A e : allocationEvents' = Append(allocationEvents, e)
                    => Extended(allocationEvents, allocationEvents', e)
  BY <1>1, AppendExtends
<1> HIDE DEF Extended
<1>3. ASSUME NEW s, NEW date, NEW at, FreezeExitReview(s, date, at) PROVE Froze(s, date, at)
  BY <1>2, <1>3 DEF FreezeExitReview, Froze, FreezeEvent
<1>4. ASSUME NEW v, NEW action, NEW at, AppendExitReviewEvent(v, action, at)
      PROVE  ReviewedExit(v, action, at)
  BY <1>2, <1>4 DEF AppendExitReviewEvent, ReviewedExit, ReviewEvent
<1>5. ASSUME NEW v, NEW group, NEW at, PrepareOwnershipTransfer(v, group, at)
      PROVE  Prepared(v, group, at)
  BY <1>2, <1>5 DEF PrepareOwnershipTransfer, Prepared, PreparedTransfer, PrepareEvent
<1>6. ASSUME NEW x, NEW action, NEW at, DecideOwnershipTransfer(x, action, at)
      PROVE  Decided(x, action, at)
  BY <1>2, <1>6 DEF DecideOwnershipTransfer, Decided
<1>7. ASSUME NEW x, NEW at, CompleteOwnershipTransfer(x, at) PROVE Completed(x, at)
  BY <1>2, <1>7 DEF CompleteOwnershipTransfer, Completed, Membership, operatorTables
<1>8. ASSUME NEW v, NEW x, NEW beneficiary, NEW at, CreateExitAllocation(v, x, beneficiary, at)
      PROVE  Created(v, x, beneficiary, at)
  BY <1>2, <1>8 DEF CreateExitAllocation, Created, Allocation, CreateEvent
<1>9. ASSUME NEW a, NEW at, VerifyExitAllocation(a, at) PROVE Verified(a, at)
  BY <1>2, <1>9 DEF VerifyExitAllocation, Verified, VerifyEvent
<1>10. CASE ExitStep
  <2>1. PICK at \in ClockReads :
            \/ ReviewCommand(at) \/ PrepareCommand(at) \/ TransferCommand(at)
            \/ FreezeCommand(at) \/ CreateAllocationCommand(at) \/ VerifyAllocationCommand(at)
    BY <1>10 DEF ExitStep, OwnershipStep
  <2>2. CASE ReviewCommand(at)
    BY <1>4, <2>2 DEF ReviewCommand
  <2>3. CASE PrepareCommand(at)
    BY <1>5, <2>3 DEF PrepareCommand
  <2>4. CASE TransferCommand(at)
    BY <1>6, <1>7, <2>4 DEF TransferCommand
  <2>5. CASE FreezeCommand(at)
    BY <1>3, <2>5 DEF FreezeCommand
  <2>6. CASE CreateAllocationCommand(at)
    BY <1>8, <2>6 DEF CreateAllocationCommand
  <2>7. CASE VerifyAllocationCommand(at)
    BY <1>9, <2>7 DEF VerifyAllocationCommand
  <2>8. QED
    BY <2>1, <2>2, <2>3, <2>4, <2>5, <2>6, <2>7
<1>11. CASE UNCHANGED vars
  BY <1>11 DEF vars, exitVars
<1>12. QED
  BY <1>10, <1>11 DEF Next

(* So the tables of the exit rails only grow.                              *)
LEMMA ExitGrows ==
    ASSUME TypeOK, [Next]_vars
    PROVE  ExitGrowth
<1> HIDE DEF ExitReviewRows, ExitEventRows, TransferRows, TransferEventRows, MembershipRows,
             AllocationRows, AllocationEventRows
<1>1. /\ UNCHANGED exitReviews => Grown(exitReviews, exitReviews')
      /\ UNCHANGED exitEvents => Grown(exitEvents, exitEvents')
      /\ UNCHANGED transfers => Grown(transfers, transfers')
      /\ UNCHANGED transferEvents => Grown(transferEvents, transferEvents')
      /\ UNCHANGED memberships => Grown(memberships, memberships')
      /\ UNCHANGED allocations => Grown(allocations, allocations')
      /\ UNCHANGED allocationEvents => Grown(allocationEvents, allocationEvents')
  BY ExitTableTypes, SameGrows
<1>2. \A s, t, e : Extended(s, t, e) => Grown(s, t)
  BY DEF Extended
<1> HIDE DEF Extended, Grown
<1>3. QED
  BY <1>1, <1>2, ExitCases
     DEF exitVars, Froze, ReviewedExit, Prepared, Decided, Completed, Created, Verified,
         ExitGrowth

-----------------------------------------------------------------------------
(* Type correctness.                                                       *)

(* A table extended by a typed row is typed.                               *)
LEMMA ExtendedTyped ==
    ASSUME NEW S, NEW T, S \subseteq T, NEW s \in Seq(S), NEW e \in T, NEW t,
           t = Append(s, e)
    PROVE  t \in Seq(T)
<1>1. s \in Seq(T)
  BY SeqSubset
<1>2. QED
  BY <1>1

(* Newest events exist after every step.                                   *)
LEMMA HeadsStep ==
    ASSUME TypeOK, HeadsExist, [Next]_vars
    PROVE  HeadsExist'
<1>1. ASSUME UNCHANGED exitEvents PROVE \A v : ExitEventsOf(v)' = ExitEventsOf(v)
  BY <1>1 DEF ExitEventsOf
<1>2. ASSUME UNCHANGED transferEvents PROVE \A x : TransferEventsOf(x)' = TransferEventsOf(x)
  BY <1>2 DEF TransferEventsOf
<1>3. ASSUME UNCHANGED allocationEvents
      PROVE  \A a : AllocationEventsOf(a)' = AllocationEventsOf(a)
  BY <1>3 DEF AllocationEventsOf
<1>4. \A v \in DOMAIN exitReviews' : ExitEventsOf(v)' # {}
  <2>1. CASE UNCHANGED <<exitReviews, exitEvents>>
    BY <1>1, <2>1 DEF HeadsExist
  <2>2. ASSUME NEW s, NEW date, NEW at, Froze(s, date, at)
        PROVE  \A v \in DOMAIN exitReviews' : ExitEventsOf(v)' # {}
    <3>1. PICK e : e = FreezeEvent(at)
      OBVIOUS
    <3>2. Extended(exitEvents, exitEvents', e) /\ e.exit = Len(exitReviews) + 1
      BY <2>2, <3>1 DEF Froze, FreezeEvent
    <3>3. \A v \in DOMAIN exitReviews' : v \in DOMAIN exitReviews \/ v = Len(exitReviews) + 1
      BY <2>2 DEF Froze, Extended
    <3>4. QED
      BY <3>2, <3>3, ExitHeadMoves DEF HeadsExist
  <2>3. ASSUME NEW v, NEW action, NEW at, ReviewedExit(v, action, at)
        PROVE  \A w \in DOMAIN exitReviews' : ExitEventsOf(w)' # {}
    <3>1. PICK e : e = ReviewEvent(v, action, at)
      OBVIOUS
    <3>2. Extended(exitEvents, exitEvents', e) /\ exitReviews' = exitReviews
      BY <2>3, <3>1 DEF ReviewedExit
    <3>3. QED
      BY <3>2, ExitHeadMoves DEF HeadsExist
  <2>4. QED
    BY <2>1, <2>2, <2>3, ExitCases
       DEF exitVars, Prepared, Decided, Completed, Created, Verified
<1>5. \A x \in DOMAIN transfers' : TransferEventsOf(x)' # {}
  <2>1. CASE UNCHANGED <<transfers, transferEvents>>
    BY <1>2, <2>1 DEF HeadsExist
  <2>2. ASSUME NEW v, NEW group, NEW at, Prepared(v, group, at)
        PROVE  \A x \in DOMAIN transfers' : TransferEventsOf(x)' # {}
    <3>1. PICK e : e = PrepareEvent(at)
      OBVIOUS
    <3>2. Extended(transferEvents, transferEvents', e) /\ e.transfer = Len(transfers) + 1
      BY <2>2, <3>1 DEF Prepared, PrepareEvent
    <3>3. \A x \in DOMAIN transfers' : x \in DOMAIN transfers \/ x = Len(transfers) + 1
      BY <2>2 DEF Prepared, Extended
    <3>4. QED
      BY <3>2, <3>3, TransferHeadMoves DEF HeadsExist
  <2>3. ASSUME NEW e, Extended(transferEvents, transferEvents', e), transfers' = transfers
        PROVE  \A x \in DOMAIN transfers' : TransferEventsOf(x)' # {}
    BY <2>3, TransferHeadMoves DEF HeadsExist
  <2>4. QED
    BY <2>1, <2>2, <2>3, ExitCases
       DEF exitVars, Froze, ReviewedExit, Decided, Completed, Created, Verified
<1>6. \A a \in DOMAIN allocations' : AllocationEventsOf(a)' # {}
  <2>1. CASE UNCHANGED <<allocations, allocationEvents>>
    BY <1>3, <2>1 DEF HeadsExist
  <2>2. ASSUME NEW v, NEW x, NEW b, NEW at, Created(v, x, b, at)
        PROVE  \A a \in DOMAIN allocations' : AllocationEventsOf(a)' # {}
    <3>1. PICK e : e = CreateEvent(at)
      OBVIOUS
    <3>2. Extended(allocationEvents, allocationEvents', e) /\ e.allocation = Len(allocations) + 1
      BY <2>2, <3>1 DEF Created, CreateEvent
    <3>3. \A a \in DOMAIN allocations' : a \in DOMAIN allocations \/ a = Len(allocations) + 1
      BY <2>2 DEF Created, Extended
    <3>4. QED
      BY <3>2, <3>3, AllocationHeadMoves DEF HeadsExist
  <2>3. ASSUME NEW a, NEW at, Verified(a, at)
        PROVE  \A b \in DOMAIN allocations' : AllocationEventsOf(b)' # {}
    <3>1. PICK e : e = VerifyEvent(a, at)
      OBVIOUS
    <3>2. Extended(allocationEvents, allocationEvents', e) /\ allocations' = allocations
      BY <2>3, <3>1 DEF Verified
    <3>3. QED
      BY <3>2, AllocationHeadMoves DEF HeadsExist
  <2>4. QED
    BY <2>1, <2>2, <2>3, ExitCases
       DEF exitVars, Froze, ReviewedExit, Prepared, Decided, Completed
<1>7. QED
  BY <1>4, <1>5, <1>6 DEF HeadsExist

(* The rows that the commands append have the types of their tables.       *)
LEMMA FrozenTyped ==
    ASSUME TypeOK, OperatorInv, NEW s \in submissions, NEW date \in 1..Day(clock),
           NEW at \in ClockReads, date < Day(at)
    PROVE  FrozenRecord(s, date, at) \in ExitReviewRows
<1>1. s \in SubmissionRows /\ at \in Times /\ MaxTime \in Times /\ at <= MaxTime
  BY TimeAssumption, ReadsAreTimes DEF OperatorInv, OperatorTypeOK, Times
<1>2. date \in 1..Day(MaxTime)
  BY <1>1, DayFacts
<1>3. PICK b : b = BoundaryAt(LastSecond(date))
  OBVIOUS
<1>4. Within(b)
  BY <1>3, BoundaryWithin
<1>5. MembersAt(s.group, b) \subseteq MemberRows
  BY <1>4, MembersTyped
<1>6. FrozenRecord(s, date, at) =
        [target |-> s.deployment, claim |-> s.claim, group |-> s.group, date |-> date,
         audit |-> b.audit, review |-> b.review, eligibility |-> b.eligibility,
         members |-> MembersAt(s.group, b), at |-> at]
  BY <1>3 DEF FrozenRecord
<1>7. s.deployment \in Deployments /\ s.claim \in DOMAIN events /\ s.group \in DOMAIN events
  BY <1>1 DEF SubmissionRows
<1>8. b.audit \in Ids /\ b.review \in 0..Len(reviews) /\ b.eligibility \in 0..Len(decisions)
  BY <1>4 DEF Within, Ids
<1> HIDE DEF MembersAt, MemberRows
<1>9. QED
  BY <1>1, <1>2, <1>5, <1>6, <1>7, <1>8 DEF ExitReviewRows

(* Groups are named by the events that made them.                          *)
LEMMA GroupsTyped == OperatorInv => Groups \subseteq DOMAIN events
BY DEF OperatorInv, OperatorTypeOK, SubmissionRows, Groups

(* A prepared transfer is a row of its table.                              *)
LEMMA PreparedTyped ==
    ASSUME TypeOK, OperatorInv, HeadsExist, NEW v \in DOMAIN exitReviews, NEW group \in Groups,
           NEW at \in ClockReads
    PROVE  PreparedTransfer(v, group, at) \in TransferRows
<1>1. PICK r : r = exitReviews[v]
  OBVIOUS
<1>2. r \in ExitReviewRows /\ ExitHead(v) \in DOMAIN exitEvents /\ at \in Times
      /\ group \in DOMAIN events
  BY <1>1, ExitTableTypes, ExitHeadIs, ReadsAreTimes, GroupsTyped
<1>3. r.target \in Deployments /\ r.claim \in DOMAIN events /\ r.group \in DOMAIN events
  BY <1>2 DEF ExitReviewRows
<1>4. QED
  BY <1>1, <1>2, <1>3 DEF PreparedTransfer, TransferRows

(* A new allocation is a row of its table.                                 *)
LEMMA AllocationTyped ==
    ASSUME TypeOK, OperatorInv, HeadsExist, NEW v \in DOMAIN exitReviews,
           NEW x \in {0} \cup DOMAIN transfers, NEW b \in Groups \cup Contractors,
           NEW at \in ClockReads
    PROVE  Allocation(v, x, b, at) \in AllocationRows
<1>1. /\ ExitHead(v) \in DOMAIN exitEvents /\ at \in Times
      /\ b \in DOMAIN events \cup Contractors
  BY ExitHeadIs, ReadsAreTimes, GroupsTyped
<1>2. Len(transferEvents) \in Nat /\ DOMAIN transferEvents = 1..Len(transferEvents)
      /\ Len(transferEvents) \in 0..Len(transferEvents) /\ 0 \in 0..Len(transferEvents)
  BY ExitTableTypes
<1>3. PICK c : c = IF x = 0 THEN 0 ELSE TransferHead(x)
  OBVIOUS
<1>4. c \in 0..Len(transferEvents)
  <2>1. CASE x = 0
    BY <1>2, <1>3, <2>1
  <2>2. CASE x # 0
    <3>1. c \in DOMAIN transferEvents
      BY <1>3, <2>2, TransferHeadIs
    <3>2. QED
      BY <1>2, <3>1
  <2>3. QED
    BY <2>1, <2>2
<1>5. Allocation(v, x, b, at) =
        [exit |-> v, verification |-> ExitHead(v), transfer |-> x, completion |-> c,
         through |-> Len(transferEvents), beneficiary |-> b, at |-> at]
  BY <1>3 DEF Allocation
<1>6. QED
  BY <1>1, <1>2, <1>4, <1>5 DEF AllocationRows

(* The membership a completion writes is a row of its table.               *)
LEMMA MembershipTyped ==
    ASSUME TypeOK, OperatorInv, NEW x \in DOMAIN transfers, NEW at \in ClockReads,
           Completed(x, at), OperatorGrowth, ExitGrowth
    PROVE  Membership(x, at) \in MembershipRows'
<1>1. PICK t : t = transfers[x]
  OBVIOUS
<1>2. t \in TransferRows /\ at \in Times /\ MaxTime \in Times /\ at <= MaxTime
  BY <1>1, ExitTableTypes, TimeAssumption, ReadsAreTimes DEF Times
<1>3. t.target \in Deployments /\ t.claim \in DOMAIN events /\ t.source \in DOMAIN events
      /\ t.to \in DOMAIN events
  BY <1>2 DEF TransferRows
<1>4. Day(at) \in 1..Day(MaxTime)
  BY <1>2, DayFacts
<1>5. /\ DOMAIN events \subseteq DOMAIN events' /\ Len(events) \in Ids'
      /\ DOMAIN transfers \subseteq DOMAIN transfers'
  <2>1. Grown(events, events') /\ Grown(transfers, transfers')
    BY DEF OperatorGrowth, ExitGrowth
  <2>2. Len(events) \in Nat /\ Len(events') \in Nat /\ Len(events) <= Len(events')
    BY <2>1 DEF Grown
  <2>3. Ids' = 0..Len(events')
    BY DEF Ids
  <2>4. QED
    BY <2>1, <2>2, <2>3 DEF Grown
<1>6. Len(transferEvents) + 1 \in DOMAIN transferEvents'
  BY DEF Completed, Extended
<1>7. MembershipRows' =
        [transfer: DOMAIN transfers', event: DOMAIN transferEvents', target: Deployments,
         claim: DOMAIN events', source: DOMAIN events', to: DOMAIN events',
         effective: 1..Day(MaxTime), through: Ids', at: Times]
  BY DEF MembershipRows
<1>8. Membership(x, at) =
        [transfer |-> x, event |-> Len(transferEvents) + 1, target |-> t.target,
         claim |-> t.claim, source |-> t.source, to |-> t.to, effective |-> Day(at),
         through |-> Len(events), at |-> at]
  BY <1>1 DEF Membership
<1> HIDE DEF Ids
<1>9. QED
  BY <1>2, <1>3, <1>4, <1>5, <1>6, <1>7, <1>8

(* Every step keeps the types.                                             *)
LEMMA TypesStep ==
    ASSUME TypeOK, OperatorInv, HeadsExist, OperatorInv', OperatorGrowth, [Next]_vars
    PROVE  TypeOK'
<1> HIDE DEF ExitReviewRows, ExitEventRows, TransferRows, TransferEventRows, MembershipRows,
             AllocationRows, AllocationEventRows
<1>1. ExitGrowth
  BY ExitGrows
<1>2. /\ ExitReviewRows \subseteq ExitReviewRows'
      /\ ExitEventRows \subseteq ExitEventRows'
      /\ TransferRows \subseteq TransferRows'
      /\ TransferEventRows \subseteq TransferEventRows'
      /\ MembershipRows \subseteq MembershipRows'
      /\ AllocationRows \subseteq AllocationRows'
      /\ AllocationEventRows \subseteq AllocationEventRows'
  BY <1>1, ExitRowsGrow
<1>3. /\ exitReviews \in Seq(ExitReviewRows) /\ exitEvents \in Seq(ExitEventRows)
      /\ transfers \in Seq(TransferRows) /\ transferEvents \in Seq(TransferEventRows)
      /\ memberships \in Seq(MembershipRows) /\ allocations \in Seq(AllocationRows)
      /\ allocationEvents \in Seq(AllocationEventRows)
  BY ExitTableTypes
<1>4. /\ exitReviews \in Seq(ExitReviewRows') /\ exitEvents \in Seq(ExitEventRows')
      /\ transfers \in Seq(TransferRows') /\ transferEvents \in Seq(TransferEventRows')
      /\ memberships \in Seq(MembershipRows') /\ allocations \in Seq(AllocationRows')
      /\ allocationEvents \in Seq(AllocationEventRows')
  BY <1>2, <1>3, SeqSubset
<1>5. \A at \in ClockReads : at \in Times
  BY ReadsAreTimes
<1>6. OperatorTypeOK'
  BY DEF OperatorInv
<1>7. (exitReviews \in Seq(ExitReviewRows))'
  <2>1. ASSUME NEW s \in submissions, NEW date \in 1..Day(clock), NEW at \in ClockReads,
               FreezeExitReview(s, date, at)
        PROVE  (exitReviews \in Seq(ExitReviewRows))'
    <3>1. PICK r : r = FrozenRecord(s, date, at)
      OBVIOUS
    <3>2. date < Day(at) /\ exitReviews' = Append(exitReviews, r)
      BY <2>1, <3>1 DEF FreezeExitReview
    <3>3. r \in ExitReviewRows'
      BY <1>2, <3>1, <3>2, FrozenTyped
    <3>4. QED
      BY <1>2, <1>3, <3>2, <3>3, ExtendedTyped
  <2>2. UNCHANGED exitReviews => (exitReviews \in Seq(ExitReviewRows))'
    BY <1>4
  <2>3. QED
    BY <2>1, <2>2, ExitCases
       DEF exitVars, Froze, ReviewedExit, Prepared, Decided, Completed, Created, Verified
<1>8. (exitEvents \in Seq(ExitEventRows))'
  <2>1. ASSUME NEW s \in submissions, NEW date \in 1..Day(clock), NEW at \in ClockReads,
               Froze(s, date, at)
        PROVE  (exitEvents \in Seq(ExitEventRows))'
    <3>1. PICK e : e = FreezeEvent(at)
      OBVIOUS
    <3>2. exitEvents' = Append(exitEvents, e)
      BY <2>1, <3>1 DEF Froze, FreezeExitReview, FreezeEvent
    <3>3. Len(exitReviews) + 1 \in DOMAIN exitReviews'
      BY <2>1 DEF Froze, Extended
    <3>4. e \in ExitEventRows'
      BY <1>5, <3>1, <3>3 DEF ExitEventRows, FreezeEvent
    <3>5. QED
      BY <1>2, <1>3, <3>2, <3>4, ExtendedTyped
  <2>2. ASSUME NEW v \in DOMAIN exitReviews, NEW action \in DOMAIN ExitResult,
               NEW at \in ClockReads, ReviewedExit(v, action, at)
        PROVE  (exitEvents \in Seq(ExitEventRows))'
    <3>1. PICK e : e = ReviewEvent(v, action, at)
      OBVIOUS
    <3>2. exitEvents' = Append(exitEvents, e)
      BY <2>2, <3>1 DEF ReviewedExit, AppendExitReviewEvent, ReviewEvent
    <3>3. e \in ExitEventRows
      BY <1>5, <3>1 DEF ExitEventRows, ReviewEvent, ExitResult
    <3>4. e \in ExitEventRows'
      BY <1>2, <3>3
    <3>5. QED
      BY <1>2, <1>3, <3>2, <3>4, ExtendedTyped
  <2>3. UNCHANGED exitEvents => (exitEvents \in Seq(ExitEventRows))'
    BY <1>4
  <2>4. QED
    BY <2>1, <2>2, <2>3, ExitCases
       DEF exitVars, Prepared, Decided, Completed, Created, Verified
<1>9. (transfers \in Seq(TransferRows))'
  <2>1. ASSUME NEW v \in DOMAIN exitReviews, NEW group \in Groups, NEW at \in ClockReads,
               PrepareOwnershipTransfer(v, group, at)
        PROVE  (transfers \in Seq(TransferRows))'
    <3>1. PICK r : r = PreparedTransfer(v, group, at)
      OBVIOUS
    <3>2. transfers' = Append(transfers, r)
      BY <2>1, <3>1 DEF PrepareOwnershipTransfer, PreparedTransfer
    <3>3. r \in TransferRows'
      BY <1>2, <3>1, PreparedTyped
    <3>4. QED
      BY <1>2, <1>3, <3>2, <3>3, ExtendedTyped
  <2>2. UNCHANGED transfers => (transfers \in Seq(TransferRows))'
    BY <1>4
  <2>3. QED
    BY <2>1, <2>2, ExitCases
       DEF exitVars, Froze, ReviewedExit, Prepared, Decided, Completed, Created, Verified
<1>10. (transferEvents \in Seq(TransferEventRows))'
  <2>1. ASSUME NEW v, NEW group, NEW at \in ClockReads, Prepared(v, group, at)
        PROVE  (transferEvents \in Seq(TransferEventRows))'
    <3>1. PICK e : e = PrepareEvent(at)
      OBVIOUS
    <3>2. transferEvents' = Append(transferEvents, e)
      BY <2>1, <3>1 DEF Prepared, PrepareOwnershipTransfer, PrepareEvent
    <3>3. Len(transfers) + 1 \in DOMAIN transfers'
      BY <2>1 DEF Prepared, Extended
    <3>4. e \in TransferEventRows'
      BY <1>5, <3>1, <3>3 DEF TransferEventRows, PrepareEvent
    <3>5. QED
      BY <1>2, <1>3, <3>2, <3>4, ExtendedTyped
  <2>2. ASSUME NEW x \in DOMAIN transfers, NEW action \in DOMAIN TransferResult,
               NEW at \in ClockReads,
               transferEvents' = Append(transferEvents, TransferEvent(x, action, at))
        PROVE  (transferEvents \in Seq(TransferEventRows))'
    <3>1. PICK e : e = TransferEvent(x, action, at)
      OBVIOUS
    <3>2. e \in TransferEventRows
      BY <1>5, <3>1 DEF TransferEventRows, TransferEvent, TransferResult
    <3>3. e \in TransferEventRows'
      BY <1>2, <3>2
    <3>4. QED
      BY <1>2, <1>3, <2>2, <3>1, <3>3, ExtendedTyped
  <2>3. "complete" \in DOMAIN TransferResult
    BY DEF TransferResult
  <2>4. UNCHANGED transferEvents => (transferEvents \in Seq(TransferEventRows))'
    BY <1>4
  <2>5. QED
    BY <2>1, <2>2, <2>3, <2>4, ExitCases
       DEF exitVars, Froze, ReviewedExit, Decided, DecideOwnershipTransfer, Completed,
           CompleteOwnershipTransfer, Created, Verified
<1>11. (memberships \in Seq(MembershipRows))'
  <2>1. ASSUME NEW x \in DOMAIN transfers, NEW at \in ClockReads, Completed(x, at)
        PROVE  (memberships \in Seq(MembershipRows))'
    <3>1. PICK r : r = Membership(x, at)
      OBVIOUS
    <3>2. memberships' = Append(memberships, r)
      BY <2>1, <3>1 DEF Completed, CompleteOwnershipTransfer, Membership
    <3>3. r \in MembershipRows'
      BY <1>1, <2>1, <3>1, MembershipTyped
    <3>4. QED
      BY <1>2, <1>3, <3>2, <3>3, ExtendedTyped
  <2>2. UNCHANGED memberships => (memberships \in Seq(MembershipRows))'
    BY <1>4
  <2>3. QED
    BY <2>1, <2>2, ExitCases
       DEF exitVars, Froze, ReviewedExit, Prepared, Decided, Created, Verified
<1>12. (allocations \in Seq(AllocationRows))'
  <2>1. ASSUME NEW v \in DOMAIN exitReviews, NEW x \in {0} \cup DOMAIN transfers,
               NEW b \in Groups \cup Contractors, NEW at \in ClockReads, Created(v, x, b, at)
        PROVE  (allocations \in Seq(AllocationRows))'
    <3>1. PICK r : r = Allocation(v, x, b, at)
      OBVIOUS
    <3>2. allocations' = Append(allocations, r)
      BY <2>1, <3>1 DEF Created, CreateExitAllocation, Allocation
    <3>3. r \in AllocationRows'
      BY <1>2, <3>1, AllocationTyped
    <3>4. QED
      BY <1>2, <1>3, <3>2, <3>3, ExtendedTyped
  <2>2. UNCHANGED allocations => (allocations \in Seq(AllocationRows))'
    BY <1>4
  <2>3. QED
    BY <2>1, <2>2, ExitCases
       DEF exitVars, Froze, ReviewedExit, Prepared, Decided, Completed, Verified
<1>13. (allocationEvents \in Seq(AllocationEventRows))'
  <2>1. ASSUME NEW v, NEW x, NEW b, NEW at \in ClockReads, Created(v, x, b, at)
        PROVE  (allocationEvents \in Seq(AllocationEventRows))'
    <3>1. PICK e : e = CreateEvent(at)
      OBVIOUS
    <3>2. allocationEvents' = Append(allocationEvents, e)
      BY <2>1, <3>1 DEF Created, CreateExitAllocation, CreateEvent
    <3>3. Len(allocations) + 1 \in DOMAIN allocations'
      BY <2>1 DEF Created, Extended
    <3>4. e \in AllocationEventRows'
      BY <1>5, <3>1, <3>3 DEF AllocationEventRows, CreateEvent
    <3>5. QED
      BY <1>2, <1>3, <3>2, <3>4, ExtendedTyped
  <2>2. ASSUME NEW a \in DOMAIN allocations, NEW at \in ClockReads, Verified(a, at)
        PROVE  (allocationEvents \in Seq(AllocationEventRows))'
    <3>1. PICK e : e = VerifyEvent(a, at)
      OBVIOUS
    <3>2. allocationEvents' = Append(allocationEvents, e)
      BY <2>2, <3>1 DEF Verified, VerifyExitAllocation, VerifyEvent
    <3>3. e \in AllocationEventRows
      BY <1>5, <3>1 DEF AllocationEventRows, VerifyEvent
    <3>4. e \in AllocationEventRows'
      BY <1>2, <3>3
    <3>5. QED
      BY <1>2, <1>3, <3>2, <3>4, ExtendedTyped
  <2>3. UNCHANGED allocationEvents => (allocationEvents \in Seq(AllocationEventRows))'
    BY <1>4
  <2>4. QED
    BY <2>1, <2>2, <2>3, ExitCases
       DEF exitVars, Froze, ReviewedExit, Prepared, Decided, Completed
<1>14. QED
  BY <1>6, <1>7, <1>8, <1>9, <1>10, <1>11, <1>12, <1>13 DEF TypeOK

(* What holds of the tables one by one.                                    *)
TablesInv == TypeOK /\ OperatorInv /\ TransferClock /\ HeadsExist

(* It holds of the empty tables, and every step keeps it.                  *)
LEMMA TablesInit == Init => TablesInv
<1> SUFFICES ASSUME Init PROVE TablesInv
  OBVIOUS
<1>1. OperatorInit /\ ExitInit
  BY DEF Init
<1>2. OperatorTypeOK /\ ClaimRowsOK /\ AuditInv
  BY <1>1, RowsInit, AuditInit
<1>3. ClaimsPending
  BY <1>1 DEF OperatorInit, ClaimsPending
<1>4. TransferClock
  BY <1>1 DEF OperatorInit, ExitInit, TransferClock, HeadAt
<1>5. TypeOK
  BY <1>1, <1>2 DEF ExitInit, TypeOK
<1>6. HeadsExist
  BY <1>1 DEF ExitInit, HeadsExist
<1>7. QED
  BY <1>2, <1>3, <1>4, <1>5, <1>6 DEF TablesInv, OperatorInv

(* Every step keeps the tables in order, is a step or a stutter of the     *)
(* operator network, and only extends the tables.                          *)
LEMMA TablesStep ==
    TablesInv /\ [Next]_vars
        => TablesInv' /\ [OperatorNext]_operatorVars /\ OperatorGrowth /\ ExitGrowth
<1> SUFFICES ASSUME TablesInv, [Next]_vars
             PROVE  TablesInv' /\ [OperatorNext]_operatorVars /\ OperatorGrowth /\ ExitGrowth
  OBVIOUS
<1>1. TypeOK /\ OperatorInv /\ TransferClock /\ HeadsExist
  BY DEF TablesInv
<1>2. [OperatorNext]_operatorVars /\ TransferClock'
  BY <1>1, StepImplements
<1>3. OperatorInv' /\ OperatorGrowth
  BY <1>1, <1>2, OperatorInvStep, OperatorGrows
<1>4. HeadsExist' /\ ExitGrowth /\ TypeOK'
  BY <1>1, <1>3, HeadsStep, ExitGrows, TypesStep
<1>5. QED
  BY <1>2, <1>3, <1>4 DEF TablesInv

(* Every reachable database has rows of the tables' types: what a frozen   *)
(* review, a transfer or an allocation names is in the tables, the newest  *)
(* event it is decided on included.                                        *)
THEOREM ExitTypesHold == Spec => []TypeOK
<1>1. Init => TablesInv
  BY TablesInit
<1>2. TablesInv /\ [Next]_vars => TablesInv'
  BY TablesStep
<1>3. TablesInv => TypeOK
  BY DEF TablesInv
<1>4. QED
  BY <1>1, <1>2, <1>3, PTL DEF Spec

-----------------------------------------------------------------------------
(* Exit reviews.                                                           *)

(* A row that is not older than the head keeps a chain in order.           *)
LEMMA OrderedExtends ==
    ASSUME NEW S, NEW s \in Seq(S), NEW t, NEW e, Extended(s, t, e), Ordered(s),
           HeadAt(s) <= e.at
    PROVE  Ordered(t)
<1>1. /\ Len(s) \in Nat /\ DOMAIN s = 1..Len(s) /\ Len(t) = Len(s) + 1
      /\ \A i \in DOMAIN s : t[i] = s[i]
      /\ t[Len(t)] = e
  BY DEF Extended, Grown
<1>2. ASSUME NEW i \in 2..Len(t) PROVE t[i - 1].at <= t[i].at
  <2>1. CASE i = Len(t)
    <3>1. Len(s) \in DOMAIN s /\ i - 1 = Len(s) /\ Len(s) # 0
      BY <1>1, <2>1
    <3>2. s # <<>>
      BY <3>1
    <3>3. HeadAt(s) = s[Len(s)].at
      BY <3>2 DEF HeadAt
    <3>4. QED
      BY <1>1, <2>1, <3>1, <3>3
  <2>2. CASE i # Len(t)
    <3>1. i \in 2..Len(s) /\ i \in DOMAIN s /\ i - 1 \in DOMAIN s
      BY <1>1, <2>2
    <3>2. QED
      BY <1>1, <3>1 DEF Ordered
  <2>3. QED
    BY <2>1, <2>2
<1>3. QED
  BY <1>2 DEF Ordered

(* One review for a claim generation.                                      *)
OneReview ==
    \A v, w \in DOMAIN exitReviews :
        /\ exitReviews[v].target = exitReviews[w].target
        /\ exitReviews[v].claim = exitReviews[w].claim
        => v = w

ExitRail == VerifyExitReviewEvents /\ OneReview

(* An event of the past follows what was before it, whatever is appended.  *)
LEMMA PastExitEvents ==
    ASSUME TypeOK, NEW e, Extended(exitEvents, exitEvents', e),
           NEW k \in DOMAIN exitEvents, ExitEventFollows(k)
    PROVE  ExitEventFollows(k)'
<1>1. /\ Len(exitEvents) \in Nat /\ DOMAIN exitEvents = 1..Len(exitEvents)
      /\ \A i \in DOMAIN exitEvents : exitEvents'[i] = exitEvents[i]
  BY DEF Extended, Grown
<1>2. k \in Nat /\ \A j \in 1..(k - 1) : j \in DOMAIN exitEvents
  BY <1>1
<1>3. ExitBefore(k)' = ExitBefore(k) /\ ExitBefore(k) \in SUBSET (1..(k - 1))
  BY <1>1, <1>2 DEF ExitBefore
<1>4. PICK before : before = ExitBefore(k)
  OBVIOUS
<1>5. ASSUME before # {} PROVE Newest(before) \in DOMAIN exitEvents
  <2>1. k - 1 \in Nat /\ before \in SUBSET (1..(k - 1))
    BY <1>1, <1>3, <1>4
  <2>2. Newest(before) \in before
    BY <1>5, <2>1, NewestOf
  <2>3. QED
    BY <1>2, <2>1, <2>2
<1>6. QED
  BY <1>1, <1>3, <1>4, <1>5 DEF ExitEventFollows

(* The new event follows the newest one of its review.                     *)
LEMMA NewExitEvent ==
    ASSUME TypeOK, NEW e, Extended(exitEvents, exitEvents', e),
           IF e.action = "freeze"
           THEN ExitEventsOf(e.exit) = {} /\ e.status = "review-pending"
           ELSE /\ ExitEventsOf(e.exit) # {}
                /\ ExitTransition(ExitStatus(e.exit), e.action)
                /\ e.status = ExitResult[e.action],
           NEW k, k = Len(exitEvents) + 1
    PROVE  ExitEventFollows(k)'
<1>2. /\ Len(exitEvents) \in Nat /\ DOMAIN exitEvents = 1..Len(exitEvents)
      /\ \A i \in DOMAIN exitEvents : exitEvents'[i] = exitEvents[i]
      /\ exitEvents'[k] = e /\ k - 1 = Len(exitEvents)
  BY DEF Extended, Grown
<1>3. ExitBefore(k)' = ExitEventsOf(e.exit)
  BY <1>2 DEF ExitBefore, ExitEventsOf
<1>4. PICK before : before = ExitEventsOf(e.exit)
  OBVIOUS
<1>5. ExitStatus(e.exit) = exitEvents[Newest(before)].status
  BY <1>4 DEF ExitStatus, ExitHead, ExitEventsOf
<1>6. ASSUME before # {} PROVE exitEvents'[Newest(before)] = exitEvents[Newest(before)]
  <2>1. before \in SUBSET (1..Len(exitEvents))
    BY <1>2, <1>4 DEF ExitEventsOf
  <2>2. Newest(before) \in before
    BY <1>2, <1>6, <2>1, NewestOf
  <2>3. QED
    BY <1>2, <2>1, <2>2
<1>7. QED
  BY <1>2, <1>3, <1>4, <1>5, <1>6 DEF ExitEventFollows

(* Every step keeps the exit reviews' rail.                                *)
LEMMA ExitRailStep ==
    ASSUME TablesInv, ExitRail, [Next]_vars
    PROVE  ExitRail'
<1> HIDE DEF ExitReviewRows, ExitEventRows
<1>1. TypeOK /\ HeadsExist /\ Ordered(exitEvents) /\ OneReview
      /\ \A k \in DOMAIN exitEvents : ExitEventFollows(k)
  BY DEF TablesInv, ExitRail, VerifyExitReviewEvents
<1>2. /\ exitEvents \in Seq(ExitEventRows) /\ Len(exitEvents) \in Nat
      /\ Len(exitReviews) \in Nat /\ DOMAIN exitReviews = 1..Len(exitReviews)
      /\ \A k \in DOMAIN exitEvents : exitEvents[k] \in ExitEventRows
  BY <1>1, ExitTableTypes
<1>3. CASE UNCHANGED <<exitReviews, exitEvents>>
  BY <1>3 DEF ExitRail, VerifyExitReviewEvents, OneReview, Ordered, ExitEventFollows, ExitBefore
<1>4. ASSUME NEW e, Extended(exitEvents, exitEvents', e), HeadAt(exitEvents) <= e.at,
             IF e.action = "freeze"
             THEN ExitEventsOf(e.exit) = {} /\ e.status = "review-pending"
             ELSE /\ ExitEventsOf(e.exit) # {}
                  /\ ExitTransition(ExitStatus(e.exit), e.action)
                  /\ e.status = ExitResult[e.action]
      PROVE  VerifyExitReviewEvents'
  <2>1. Ordered(exitEvents)'
    <3>1. \A t : Extended(exitEvents, t, e) => Ordered(t)
      BY <1>1, <1>2, <1>4, OrderedExtends
    <3>2. PICK t : t = exitEvents'
      OBVIOUS
    <3>3. Ordered(t)
      BY <1>4, <3>1, <3>2
    <3>4. QED
      BY <3>2, <3>3 DEF Ordered
  <2>2. PICK n : n = Len(exitEvents) + 1
    OBVIOUS
  <2>3. ExitEventFollows(n)'
    BY <1>1, <1>4, <2>2, NewExitEvent
  <2>4. \A k \in DOMAIN exitEvents : ExitEventFollows(k)'
    BY <1>1, <1>4, PastExitEvents
  <2>5. \A k \in DOMAIN exitEvents' : k \in DOMAIN exitEvents \/ k = n
    BY <1>4, <2>2 DEF Extended
  <2>6. QED
    BY <2>1, <2>3, <2>4, <2>5 DEF VerifyExitReviewEvents
<1>5. ASSUME NEW s, NEW date, NEW at, Froze(s, date, at) PROVE ExitRail'
  <2>1. PICK e : e = FreezeEvent(at)
    OBVIOUS
  <2>2. /\ Extended(exitEvents, exitEvents', e) /\ HeadAt(exitEvents) <= at /\ e.at = at
        /\ e.exit = Len(exitReviews) + 1 /\ e.action = "freeze" /\ e.status = "review-pending"
    BY <1>5, <2>1 DEF Froze, FreezeExitReview, FreezeEvent
  <2>3. ExitEventsOf(e.exit) = {}
    <3>1. \A k \in DOMAIN exitEvents : exitEvents[k].exit \in DOMAIN exitReviews
      BY <1>2 DEF ExitEventRows
    <3>2. e.exit \notin DOMAIN exitReviews
      BY <1>2, <2>2
    <3>3. QED
      BY <3>1, <3>2 DEF ExitEventsOf
  <2>4. VerifyExitReviewEvents'
    BY <1>4, <2>2, <2>3
  <2>5. PICK r : r = FrozenRecord(s, date, at)
    OBVIOUS
  <2>6. /\ Extended(exitReviews, exitReviews', r)
        /\ \A v \in DOMAIN exitReviews :
                ~(exitReviews[v].target = r.target /\ exitReviews[v].claim = r.claim)
    BY <1>5, <2>5 DEF Froze, FreezeExitReview, FrozenRecord
  <2>7. OneReview'
    BY <1>1, <2>6 DEF OneReview, Extended, Grown
  <2>8. QED
    BY <2>4, <2>7 DEF ExitRail
<1>6. ASSUME NEW v \in DOMAIN exitReviews, NEW action \in DOMAIN ExitResult, NEW at,
             ReviewedExit(v, action, at)
      PROVE  ExitRail'
  <2>1. PICK e : e = ReviewEvent(v, action, at)
    OBVIOUS
  <2>2. /\ Extended(exitEvents, exitEvents', e) /\ HeadAt(exitEvents) <= at /\ e.at = at
        /\ e.exit = v /\ e.action = action /\ e.status = ExitResult[action]
        /\ ExitTransition(ExitStatus(v), action) /\ exitReviews' = exitReviews
    BY <1>6, <2>1 DEF ReviewedExit, AppendExitReviewEvent, ReviewEvent
  <2>3. ExitEventsOf(v) # {} /\ action # "freeze"
    BY <1>1 DEF HeadsExist, ExitResult
  <2>4. VerifyExitReviewEvents'
    BY <1>4, <2>2, <2>3
  <2>5. OneReview'
    BY <1>1, <2>2 DEF OneReview
  <2>6. QED
    BY <2>4, <2>5 DEF ExitRail
<1>7. QED
  BY <1>1, <1>3, <1>5, <1>6, ExitCases
     DEF exitVars, Prepared, Decided, Completed, Created, Verified

(* A review whose newest event is a verification stands as verified.       *)
LEMMA VerifiedStatus ==
    ASSUME TypeOK, HeadsExist, ExitRail, NEW v \in DOMAIN exitReviews, NEW k,
           ExactVerifiedExit(v, k)
    PROVE  /\ k \in DOMAIN exitEvents
           /\ exitEvents[k].exit = v
           /\ ExitStatus(v) = "verified-eligible"
<1>1. k = ExitHead(v) /\ exitEvents[k].action = "verify"
  BY DEF ExactVerifiedExit
<1>2. k \in DOMAIN exitEvents /\ exitEvents[k].exit = v
  BY <1>1, ExitHeadIs
<1>3. ExitEventFollows(k)
  BY <1>2 DEF ExitRail, VerifyExitReviewEvents
<1>4. exitEvents[k].status = "verified-eligible"
  BY <1>1, <1>3 DEF ExitEventFollows, ExitResult
<1>5. QED
  BY <1>1, <1>2, <1>4 DEF ExitStatus

-----------------------------------------------------------------------------
(* Ownership transfers.                                                    *)

(* An appended event gives its transfer a new status, and no other.        *)
LEMMA TransferStatusMoves ==
    ASSUME TypeOK, HeadsExist, NEW e, Extended(transferEvents, transferEvents', e)
    PROVE  /\ TransferStatus(e.transfer)' = e.status
           /\ \A x \in DOMAIN transfers :
                x # e.transfer => TransferStatus(x)' = TransferStatus(x)
<1>1. /\ TransferHead(e.transfer)' = Len(transferEvents) + 1
      /\ \A x : x # e.transfer => TransferHead(x)' = TransferHead(x)
  BY TransferHeadMoves
<1>2. /\ transferEvents'[Len(transferEvents) + 1] = e
      /\ \A i \in DOMAIN transferEvents : transferEvents'[i] = transferEvents[i]
  BY DEF Extended, Grown
<1>3. \A x \in DOMAIN transfers : TransferHead(x) \in DOMAIN transferEvents
  BY TransferHeadIs
<1>4. QED
  BY <1>1, <1>2, <1>3 DEF TransferStatus

(* The events of a transfer before event k.                                *)
LEMMA PastTransferEvents ==
    ASSUME TypeOK, ExitGrowth, NEW k \in DOMAIN transferEvents, TransferEventFollows(k)
    PROVE  TransferEventFollows(k)'
<1>1. /\ Len(transferEvents) \in Nat /\ DOMAIN transferEvents = 1..Len(transferEvents)
      /\ \A i \in DOMAIN transferEvents : transferEvents'[i] = transferEvents[i]
      /\ \A x \in DOMAIN transfers : transfers'[x] = transfers[x]
  BY DEF ExitGrowth, Grown
<1>2. k \in Nat /\ \A j \in 1..(k - 1) : j \in DOMAIN transferEvents
  BY <1>1
<1>3. TransferBefore(k)' = TransferBefore(k) /\ TransferBefore(k) \in SUBSET (1..(k - 1))
  BY <1>1, <1>2 DEF TransferBefore
<1>4. PICK before : before = TransferBefore(k)
  OBVIOUS
<1>5. ASSUME before # {} PROVE Newest(before) \in DOMAIN transferEvents
  <2>1. k - 1 \in Nat /\ before \in SUBSET (1..(k - 1))
    BY <1>1, <1>3, <1>4
  <2>2. Newest(before) \in before
    BY <1>5, <2>1, NewestOf
  <2>3. QED
    BY <1>2, <2>1, <2>2
<1>6. transferEvents[k].transfer \in DOMAIN transfers
  BY ExitTableTypes DEF TransferEventRows
<1>7. QED
  BY <1>1, <1>3, <1>4, <1>5, <1>6 DEF TransferEventFollows

(* The new event follows the newest one of its transfer.                   *)
LEMMA NewTransferEvent ==
    ASSUME TypeOK, NEW e, Extended(transferEvents, transferEvents', e),
           IF e.action = "prepare"
           THEN /\ TransferEventsOf(e.transfer) = {}
                /\ e.status = "prepared"
                /\ e.at = transfers'[e.transfer].at
           ELSE /\ TransferEventsOf(e.transfer) # {}
                /\ TransferTransition(TransferStatus(e.transfer), e.action)
                /\ e.status = TransferResult[e.action],
           NEW k, k = Len(transferEvents) + 1
    PROVE  TransferEventFollows(k)'
<1>1. /\ Len(transferEvents) \in Nat /\ DOMAIN transferEvents = 1..Len(transferEvents)
      /\ \A i \in DOMAIN transferEvents : transferEvents'[i] = transferEvents[i]
      /\ transferEvents'[k] = e /\ k - 1 = Len(transferEvents)
  BY DEF Extended, Grown
<1>2. TransferBefore(k)' = TransferEventsOf(e.transfer)
  BY <1>1 DEF TransferBefore, TransferEventsOf
<1>3. PICK before : before = TransferEventsOf(e.transfer)
  OBVIOUS
<1>4. TransferStatus(e.transfer) = transferEvents[Newest(before)].status
  BY <1>3 DEF TransferStatus, TransferHead, TransferEventsOf
<1>5. ASSUME before # {} PROVE transferEvents'[Newest(before)] = transferEvents[Newest(before)]
  <2>1. before \in SUBSET (1..Len(transferEvents))
    BY <1>1, <1>3 DEF TransferEventsOf
  <2>2. Newest(before) \in before
    BY <1>1, <1>5, <2>1, NewestOf
  <2>3. QED
    BY <1>1, <2>1, <2>2
<1>6. QED
  BY <1>1, <1>2, <1>3, <1>4, <1>5 DEF TransferEventFollows

(* A transfer stays pinned to the review and the verification it names.    *)
LEMMA PinnedKept ==
    ASSUME TypeOK, ExitGrowth, NEW x \in DOMAIN transfers, TransferPinned(x)
    PROVE  TransferPinned(x)'
<1>1. /\ transfers'[x] = transfers[x]
      /\ \A v \in DOMAIN exitReviews : exitReviews'[v] = exitReviews[v]
      /\ \A k \in DOMAIN exitEvents : exitEvents'[k] = exitEvents[k]
  BY DEF ExitGrowth, Grown
<1>2. transfers[x].exit \in DOMAIN exitReviews /\ transfers[x].verification \in DOMAIN exitEvents
  BY ExitTableTypes DEF TransferRows
<1>3. QED
  BY <1>1, <1>2 DEF TransferPinned

TransferRail ==
    /\ \A x \in DOMAIN transfers : TransferPinned(x)
    /\ Ordered(transferEvents)
    /\ \A k \in DOMAIN transferEvents : TransferEventFollows(k)
    /\ NoConflictingActiveTransfers

(* Every step keeps the transfers' rail.                                   *)
LEMMA TransferRailStep ==
    ASSUME TablesInv, ExitRail, TransferRail, [Next]_vars
    PROVE  TransferRail'
<1> HIDE DEF TransferRows, TransferEventRows
<1>1. /\ TypeOK /\ HeadsExist /\ Ordered(transferEvents) /\ NoConflictingActiveTransfers
      /\ \A k \in DOMAIN transferEvents : TransferEventFollows(k)
      /\ \A x \in DOMAIN transfers : TransferPinned(x)
  BY DEF TablesInv, TransferRail
<1>2. ExitGrowth
  BY TablesStep
<1>3. /\ transferEvents \in Seq(TransferEventRows) /\ Len(transferEvents) \in Nat
      /\ Len(transfers) \in Nat /\ DOMAIN transfers = 1..Len(transfers)
      /\ \A k \in DOMAIN transferEvents : transferEvents[k] \in TransferEventRows
  BY <1>1, ExitTableTypes
<1>4. \A x \in DOMAIN transfers : TransferPinned(x)'
  BY <1>1, <1>2, PinnedKept
<1>5. CASE UNCHANGED <<transfers, transferEvents>>
  <2>1. \A k \in DOMAIN transferEvents' : TransferEventFollows(k)'
    BY <1>1, <1>2, <1>5, PastTransferEvents
  <2>2. Ordered(transferEvents)' /\ NoConflictingActiveTransfers'
    BY <1>1, <1>5 DEF Ordered, NoConflictingActiveTransfers, TransferStatus, TransferHead, Newest
  <2>3. QED
    BY <1>4, <1>5, <2>1, <2>2 DEF TransferRail
<1>6. ASSUME NEW e, Extended(transferEvents, transferEvents', e), HeadAt(transferEvents) <= e.at,
             IF e.action = "prepare"
             THEN /\ TransferEventsOf(e.transfer) = {}
                  /\ e.status = "prepared"
                  /\ e.at = transfers'[e.transfer].at
             ELSE /\ TransferEventsOf(e.transfer) # {}
                  /\ TransferTransition(TransferStatus(e.transfer), e.action)
                  /\ e.status = TransferResult[e.action]
      PROVE  Ordered(transferEvents)' /\ \A k \in DOMAIN transferEvents' : TransferEventFollows(k)'
  <2>1. Ordered(transferEvents)'
    <3>1. \A t : Extended(transferEvents, t, e) => Ordered(t)
      BY <1>1, <1>3, <1>6, OrderedExtends
    <3>2. PICK t : t = transferEvents'
      OBVIOUS
    <3>3. Ordered(t)
      BY <1>6, <3>1, <3>2
    <3>4. QED
      BY <3>2, <3>3 DEF Ordered
  <2>2. PICK n : n = Len(transferEvents) + 1
    OBVIOUS
  <2>3. TransferEventFollows(n)'
    BY <1>1, <1>6, <2>2, NewTransferEvent
  <2>4. \A k \in DOMAIN transferEvents : TransferEventFollows(k)'
    BY <1>1, <1>2, PastTransferEvents
  <2>5. \A k \in DOMAIN transferEvents' : k \in DOMAIN transferEvents \/ k = n
    BY <1>6, <2>2 DEF Extended
  <2>6. QED
    BY <2>1, <2>3, <2>4, <2>5
<1>7. ASSUME NEW v \in DOMAIN exitReviews, NEW group, NEW at, Prepared(v, group, at)
      PROVE  TransferRail'
  <2>1. PICK e : e = PrepareEvent(at)
    OBVIOUS
  <2>2. PICK r : r = PreparedTransfer(v, group, at)
    OBVIOUS
  <2>3. PICK n : n = Len(transfers) + 1
    OBVIOUS
  <2>4. /\ Extended(transferEvents, transferEvents', e) /\ Extended(transfers, transfers', r)
        /\ HeadAt(transferEvents) <= at
        /\ MayPrepare(v, group) /\ ExactVerifiedExit(v, ExitHead(v))
        /\ UNCHANGED <<exitReviews, exitEvents>>
    BY <1>7, <2>1, <2>2 DEF Prepared, PrepareOwnershipTransfer
  <2>5. /\ e.transfer = n /\ e.action = "prepare" /\ e.status = "prepared" /\ e.at = at
        /\ r.exit = v /\ r.target = exitReviews[v].target /\ r.claim = exitReviews[v].claim
        /\ r.source = exitReviews[v].group /\ r.to = group /\ r.verification = ExitHead(v)
        /\ r.at = at
    BY <2>1, <2>2, <2>3 DEF PrepareEvent, PreparedTransfer
  <2>6. /\ transfers'[n] = r /\ n \notin DOMAIN transfers
        /\ \A x \in DOMAIN transfers' : x \in DOMAIN transfers \/ x = n
        /\ \A x \in DOMAIN transfers : transfers'[x] = transfers[x]
    BY <2>3, <2>4 DEF Extended, Grown
  <2>7. TransferEventsOf(n) = {}
    <3>1. \A k \in DOMAIN transferEvents : transferEvents[k].transfer \in DOMAIN transfers
      BY <1>3 DEF TransferEventRows
    <3>2. QED
      BY <2>6, <3>1 DEF TransferEventsOf
  <2>8. Ordered(transferEvents)' /\ \A k \in DOMAIN transferEvents' : TransferEventFollows(k)'
    BY <1>6, <2>4, <2>5, <2>6, <2>7
  <2>9. TransferPinned(n)'
    <3>1. exitEvents[ExitHead(v)].exit = v /\ exitEvents[ExitHead(v)].action = "verify"
      BY <1>1, <2>4, VerifiedStatus DEF ExactVerifiedExit
    <3>2. exitReviews[v].group # group
      BY <2>4 DEF MayPrepare
    <3>3. QED
      BY <2>4, <2>5, <2>6, <3>1, <3>2 DEF TransferPinned
  <2>10. NoConflictingActiveTransfers'
    <3>1. \A x \in DOMAIN transfers : TransferStatus(x)' = TransferStatus(x)
      BY <1>1, <2>4, <2>5, <2>6, TransferStatusMoves
    <3>2. \A x \in DOMAIN transfers :
            transfers[x].target = r.target /\ transfers[x].claim = r.claim
                => TransferStatus(x) \notin {"prepared", "approved"}
      BY <2>4, <2>5 DEF MayPrepare, ActiveTransferForClaim
    <3>3. ASSUME NEW x \in DOMAIN transfers', NEW y \in DOMAIN transfers',
                 TransferStatus(x)' \in {"prepared", "approved"},
                 TransferStatus(y)' \in {"prepared", "approved"},
                 transfers'[x].target = transfers'[y].target,
                 transfers'[x].claim = transfers'[y].claim
          PROVE  x = y
      <4>1. CASE x \in DOMAIN transfers /\ y \in DOMAIN transfers
        BY <1>1, <2>6, <3>1, <3>3, <4>1 DEF NoConflictingActiveTransfers
      <4>2. CASE x = n /\ y # n
        BY <2>6, <3>1, <3>2, <3>3, <4>2
      <4>3. CASE y = n /\ x # n
        BY <2>6, <3>1, <3>2, <3>3, <4>3
      <4>4. QED
        BY <2>6, <4>1, <4>2, <4>3
    <3>4. QED
      BY <3>3 DEF NoConflictingActiveTransfers
  <2>11. QED
    BY <1>4, <2>6, <2>8, <2>9, <2>10 DEF TransferRail
<1>8. ASSUME NEW x \in DOMAIN transfers, NEW action \in DOMAIN TransferResult, NEW at,
             Extended(transferEvents, transferEvents', TransferEvent(x, action, at)),
             HeadAt(transferEvents) <= at, TransferTransition(TransferStatus(x), action),
             transfers' = transfers
      PROVE  TransferRail'
  <2>1. PICK e : e = TransferEvent(x, action, at)
    OBVIOUS
  <2>2. /\ Extended(transferEvents, transferEvents', e)
        /\ e.transfer = x /\ e.action = action /\ e.status = TransferResult[action]
        /\ e.at = at
    BY <1>8, <2>1 DEF TransferEvent
  <2>3. TransferEventsOf(x) # {} /\ action # "prepare"
    BY <1>1 DEF HeadsExist, TransferResult
  <2>4. Ordered(transferEvents)' /\ \A k \in DOMAIN transferEvents' : TransferEventFollows(k)'
    BY <1>6, <1>8, <2>2, <2>3
  <2>5. TransferStatus(x) \in {"prepared", "approved"}
    BY <1>8 DEF TransferTransition, TransferResult
  <2>6. \A y \in DOMAIN transfers : y # x => TransferStatus(y)' = TransferStatus(y)
    BY <1>1, <2>2, TransferStatusMoves
  <2>7. NoConflictingActiveTransfers'
    <3>1. ASSUME NEW y \in DOMAIN transfers, TransferStatus(y)' \in {"prepared", "approved"}
          PROVE  TransferStatus(y) \in {"prepared", "approved"}
      BY <2>5, <2>6, <3>1
    <3>2. QED
      BY <1>1, <1>8, <3>1 DEF NoConflictingActiveTransfers
  <2>8. QED
    BY <1>4, <1>8, <2>4, <2>7 DEF TransferRail
<1>9. ASSUME NEW x \in DOMAIN transfers, NEW action \in DOMAIN TransferResult, NEW at,
             Decided(x, action, at)
      PROVE  TransferRail'
  BY <1>8, <1>9 DEF Decided, DecideOwnershipTransfer
<1>10. ASSUME NEW x \in DOMAIN transfers, NEW at, Completed(x, at) PROVE TransferRail'
  <2>1. "complete" \in DOMAIN TransferResult
    BY DEF TransferResult
  <2>2. QED
    BY <1>8, <1>10, <2>1 DEF Completed, CompleteOwnershipTransfer
<1>11. QED
  BY <1>1, <1>5, <1>7, <1>9, <1>10, ExitCases
     DEF exitVars, Froze, ReviewedExit, Created, Verified

-----------------------------------------------------------------------------
(* The membership boundaries of completions.                               *)

(* No row of an ordered chain is later than its head.                      *)
LEMMA HeadIsLatest ==
    ASSUME NEW S, NEW s \in Seq(S), \A i \in DOMAIN s : s[i].at \in Nat, Ordered(s)
    PROVE  \A i \in DOMAIN s : s[i].at <= HeadAt(s)
<1>1. PICK n : n = Len(s)
  OBVIOUS
<1>2. n \in Nat /\ DOMAIN s = 1..n
  BY <1>1
<1> DEFINE T == {i \in 1..n : ~(s[i].at <= s[n].at)}
<1>3. T = {}
  <2>1. SUFFICES ASSUME T # {} PROVE FALSE
    OBVIOUS
  <2>2. T \in SUBSET (1..n)
    OBVIOUS
  <2>3. PICK k \in T : \A i \in T : i <= k
    <3> HIDE DEF T
    <3>1. QED
      BY <1>2, <2>1, <2>2, LargestElement
  <2>4. k \in 1..n /\ ~(s[k].at <= s[n].at)
    BY <2>3
  <2>5. k # n
    BY <1>2, <2>4
  <2>6. k + 1 \in 2..n /\ k + 1 \in 1..n /\ ~(k + 1 <= k) /\ (k + 1) - 1 = k
    BY <1>2, <2>4, <2>5
  <2>7. s[k + 1].at <= s[n].at
    BY <2>3, <2>6
  <2>8. s[k].at <= s[k + 1].at
    BY <1>1, <2>6 DEF Ordered
  <2>9. PICK a \in Nat, b \in Nat, c \in Nat : a = s[k].at /\ b = s[k + 1].at /\ c = s[n].at
    BY <1>2, <2>4, <2>6
  <2>10. ~(a <= c) /\ b <= c /\ a <= b
    BY <2>4, <2>7, <2>8, <2>9
  <2>11. QED
    BY <2>10
<1>4. ASSUME NEW i \in DOMAIN s PROVE s[i].at <= HeadAt(s)
  <2>1. s # <<>>
    BY <1>4
  <2>2. HeadAt(s) = s[n].at
    BY <1>1, <2>1 DEF HeadAt
  <2>3. i \notin T
    BY <1>3
  <2>4. QED
    BY <1>2, <1>4, <2>2, <2>3
<1>5. QED
  BY <1>4

(* The boundary row of a completion.                                       *)
Boundary(m) ==
    LET row == memberships[m]
        e == transferEvents[row.event]
    IN  /\ e.action = "complete"
        /\ e.transfer = row.transfer
        /\ TransferHead(row.transfer) = row.event
        /\ row.target = transfers[row.transfer].target
        /\ row.claim = transfers[row.transfer].claim
        /\ row.to = transfers[row.transfer].to
        /\ row.at = e.at
        /\ row.effective = Day(e.at)

(* It is drawn after every event there was: later ones are newer than the  *)
(* completion.                                                             *)
BoundaryAtHead(m) ==
    /\ memberships[m].at <= transferredAt
    /\ \A i \in DOMAIN events :
            events[i].at < memberships[m].at <=> i <= memberships[m].through

MembershipRail ==
    /\ \A m \in DOMAIN memberships : Boundary(m) /\ BoundaryAtHead(m)
    /\ \A m, n \in DOMAIN memberships : memberships[m].transfer = memberships[n].transfer => m = n
    /\ \A x \in DOMAIN transfers :
            TransferStatus(x) = "completed" <=>
                \E m \in DOMAIN memberships : memberships[m].transfer = x

(* This is what the audit asks of them.                                    *)
LEMMA MembershipsAudited ==
    ASSUME TypeOK, OperatorInv, MembershipRail
    PROVE  VerifyTransferMemberships
<1>1. ASSUME NEW m \in DOMAIN memberships
      PROVE  memberships[m].through =
                Cardinality({i \in DOMAIN events : events[i].at < memberships[m].at})
  <2>1. PICK row : row = memberships[m]
    OBVIOUS
  <2>2. row.through \in 0..Len(events)
    BY <1>1, <2>1, ExitTableTypes DEF MembershipRows, Ids
  <2>3. Len(events) \in Nat /\ DOMAIN events = 1..Len(events)
    BY TableTypes DEF OperatorInv
  <2>4. \A i \in DOMAIN events : events[i].at < row.at <=> i <= row.through
    BY <1>1, <2>1 DEF MembershipRail, BoundaryAtHead
  <2>5. {i \in DOMAIN events : events[i].at < row.at} = 1..row.through
    BY <2>2, <2>3, <2>4
  <2>6. Cardinality(1..row.through) = row.through
    <3>1. PICK n \in Nat : n = row.through
      BY <2>2, <2>3
    <3>2. Cardinality(1..n) = n
      BY FS_Interval
    <3>3. QED
      BY <3>1, <3>2
  <2>7. QED
    BY <2>1, <2>5, <2>6
<1>2. ASSUME NEW x \in DOMAIN transfers
      PROVE  TransferStatus(x) = "completed" <=>
                Cardinality({m \in DOMAIN memberships : memberships[m].transfer = x}) = 1
  <2> DEFINE M == {m \in DOMAIN memberships : memberships[m].transfer = x}
  <2>1. TransferStatus(x) = "completed" <=> M # {}
    BY <1>2 DEF MembershipRail
  <2>2. \A m, n \in M : m = n
    BY DEF MembershipRail
  <2>3. ASSUME M # {} PROVE Cardinality(M) = 1
    <3>1. PICK m \in M : TRUE
      BY <2>3
    <3>2. M = {m}
      BY <2>2, <3>1
    <3>3. QED
      <4> HIDE DEF M
      <4>1. QED
        BY <3>2, FS_Singleton
  <2>4. M = {} => Cardinality(M) = 0
    BY FS_EmptySet
  <2>5. QED
    <3> HIDE DEF M
    <3>1. TransferStatus(x) = "completed" <=> Cardinality(M) = 1
      BY <2>1, <2>3, <2>4
    <3>2. QED
      BY <3>1 DEF M
<1>3. \A m \in DOMAIN memberships : Boundary(m)
  BY DEF MembershipRail
<1>4. QED
  BY <1>1, <1>2, <1>3 DEF VerifyTransferMemberships, Boundary

(* A completed transfer has no later event, so its boundary keeps it.      *)
LEMMA BoundaryKept ==
    ASSUME TypeOK, ExitGrowth, NEW m \in DOMAIN memberships, Boundary(m),
           NEW x, x = memberships[m].transfer, TransferHead(x)' = TransferHead(x)
    PROVE  Boundary(m)'
<1>1. PICK row : row = memberships[m]
  OBVIOUS
<1>2. /\ memberships'[m] = row
      /\ \A y \in DOMAIN transfers : transfers'[y] = transfers[y]
      /\ \A k \in DOMAIN transferEvents : transferEvents'[k] = transferEvents[k]
  BY <1>1 DEF ExitGrowth, Grown
<1>3. row.transfer \in DOMAIN transfers /\ row.event \in DOMAIN transferEvents
  BY <1>1, ExitTableTypes DEF MembershipRows
<1>4. QED
  BY <1>1, <1>2, <1>3 DEF Boundary

(* Events are newer than the completions before them.                      *)
LEMMA BoundaryStaysAtHead ==
    ASSUME TypeOK, OperatorGrowth, ExitGrowth, transferredAt' \in Nat,
           transferredAt <= transferredAt', transferredAt \in Nat,
           NEW m \in DOMAIN memberships, BoundaryAtHead(m)
    PROVE  BoundaryAtHead(m)'
<1>1. PICK row : row = memberships[m]
  OBVIOUS
<1>2. memberships'[m] = row /\ row.at <= transferredAt
      /\ \A i \in DOMAIN events : events[i].at < row.at <=> i <= row.through
  BY <1>1 DEF ExitGrowth, Grown, BoundaryAtHead
<1>3. row.at \in Nat /\ row.at # 0 /\ row.through \in Nat /\ row.through <= Len(events)
      /\ Len(events) \in Nat
  <2>1. row \in MembershipRows
    BY <1>1, ExitTableTypes
  <2>2. row.at \in Times /\ row.through \in 0..Len(events)
    BY <2>1 DEF MembershipRows, Ids
  <2>3. Len(events) \in Nat
    BY DEF OperatorGrowth, Grown
  <2>4. QED
    BY <2>2, <2>3, TimeAssumption DEF Times
<1>4. /\ DOMAIN events = 1..Len(events) /\ DOMAIN events' = 1..Len(events') /\ Len(events') \in Nat
      /\ \A i \in DOMAIN events : events'[i] = events[i]
      /\ \A i \in DOMAIN events' : i \notin DOMAIN events =>
            events'[i].at \in ClockReads /\ (transferredAt # 0 => transferredAt < events'[i].at)
  BY DEF OperatorGrowth, Grown
<1>5. ASSUME NEW i \in DOMAIN events' PROVE events'[i].at < row.at <=> i <= row.through
  <2>1. CASE i \in DOMAIN events
    BY <1>2, <1>4, <2>1
  <2>2. CASE i \notin DOMAIN events
    <3>0. transferredAt # 0
      BY <1>2, <1>3
    <3>1. events'[i].at \in Nat /\ transferredAt < events'[i].at
      BY <1>4, <1>5, <2>2, <3>0, ReadsAreTimes
    <3>2. ~(events'[i].at < row.at)
      BY <1>2, <1>3, <3>1
    <3>3. ~(i <= row.through)
      BY <1>3, <1>4, <2>2
    <3>4. QED
      BY <3>2, <3>3
  <2>3. QED
    BY <2>1, <2>2
<1>6. row.at <= transferredAt'
  BY <1>2, <1>3
<1>7. QED
  BY <1>2, <1>5, <1>6 DEF BoundaryAtHead

(* Every step keeps the memberships' rail.                                 *)
LEMMA MembershipRailStep ==
    ASSUME TablesInv, TransferRail, MembershipRail, [Next]_vars
    PROVE  MembershipRail'
<1>1. /\ TypeOK /\ HeadsExist /\ OperatorInv /\ TransferClock /\ TypeOK'
      /\ OperatorGrowth /\ ExitGrowth
  BY TablesStep DEF TablesInv
<1>2. transferredAt \in Nat /\ transferredAt' \in Nat
  BY TablesStep DEF TablesInv, TransferClock
<1>3. transferredAt <= transferredAt'
  <2>1. CASE UNCHANGED transferredAt
    BY <1>2, <2>1
  <2>2. CASE TransferCompletes
    BY <1>2, <2>2, ReadsAreTimes DEF TransferCompletes
  <2>3. QED
    BY <2>1, <2>2, TablesStep, TransferTimeKept DEF OperatorNext, operatorVars
<1>4. \A m \in DOMAIN memberships : BoundaryAtHead(m)'
  BY <1>1, <1>2, <1>3, BoundaryStaysAtHead DEF MembershipRail
<1>5. /\ \A m \in DOMAIN memberships : Boundary(m)
      /\ \A m, n \in DOMAIN memberships :
            memberships[m].transfer = memberships[n].transfer => m = n
      /\ \A x \in DOMAIN transfers :
            TransferStatus(x) = "completed" <=>
                \E m \in DOMAIN memberships : memberships[m].transfer = x
  BY DEF MembershipRail
<1>6. /\ \A m \in DOMAIN memberships : memberships[m].transfer \in DOMAIN transfers
      /\ \A m \in DOMAIN memberships : memberships'[m] = memberships[m]
  BY <1>1, ExitTableTypes DEF MembershipRows, ExitGrowth, Grown
<1>7. CASE UNCHANGED <<transfers, transferEvents, memberships>>
  <2>1. \A x : TransferHead(x)' = TransferHead(x) /\ TransferStatus(x)' = TransferStatus(x)
    BY <1>7 DEF TransferHead, TransferStatus
  <2>2. \A m \in DOMAIN memberships : Boundary(m)'
    BY <1>1, <1>5, <2>1, BoundaryKept
  <2>3. QED
    BY <1>4, <1>5, <1>7, <2>1, <2>2 DEF MembershipRail
<1>8. ASSUME NEW v, NEW group, NEW at, Prepared(v, group, at) PROVE MembershipRail'
  <2>1. PICK n : n = Len(transfers) + 1
    OBVIOUS
  <2>2. PICK e : e = PrepareEvent(at)
    OBVIOUS
  <2>3. /\ Extended(transferEvents, transferEvents', e) /\ e.transfer = n /\ e.status = "prepared"
        /\ memberships' = memberships
    BY <1>8, <2>1, <2>2 DEF Prepared, PrepareEvent
  <2>4. n \notin DOMAIN transfers /\ \A x \in DOMAIN transfers' : x \in DOMAIN transfers \/ x = n
    BY <1>8, <2>1 DEF Prepared, Extended
  <2>5. \A x \in DOMAIN transfers :
            TransferHead(x)' = TransferHead(x) /\ TransferStatus(x)' = TransferStatus(x)
    BY <1>1, <2>3, <2>4, TransferHeadMoves, TransferStatusMoves
  <2>6. TransferStatus(n)' = "prepared"
    BY <1>1, <2>3, TransferStatusMoves
  <2>7. \A m \in DOMAIN memberships : Boundary(m)'
    BY <1>1, <1>5, <1>6, <2>5, BoundaryKept
  <2>8. \A x \in DOMAIN transfers' :
            TransferStatus(x)' = "completed" <=>
                \E m \in DOMAIN memberships : memberships[m].transfer = x
    BY <1>5, <1>6, <2>4, <2>5, <2>6
  <2>9. QED
    BY <1>4, <1>5, <2>3, <2>7, <2>8 DEF MembershipRail
<1>9. ASSUME NEW x \in DOMAIN transfers, NEW e, Extended(transferEvents, transferEvents', e),
             e.transfer = x, TransferStatus(x) # "completed", transfers' = transfers
      PROVE  /\ \A m \in DOMAIN memberships : Boundary(m)'
             /\ \A m \in DOMAIN memberships : memberships[m].transfer # x
             /\ TransferStatus(x)' = e.status
             /\ \A y \in DOMAIN transfers : y # x => TransferStatus(y)' = TransferStatus(y)
  <2>1. \A m \in DOMAIN memberships : memberships[m].transfer # x
    BY <1>5, <1>9
  <2>2. \A y : y # x => TransferHead(y)' = TransferHead(y)
    BY <1>9, TransferHeadMoves
  <2>3. \A m \in DOMAIN memberships : Boundary(m)'
    BY <1>1, <1>5, <2>1, <2>2, BoundaryKept
  <2>4. QED
    BY <1>1, <1>9, <2>1, <2>3, TransferStatusMoves
<1>10. ASSUME NEW x \in DOMAIN transfers, NEW action \in DOMAIN TransferResult, NEW at,
              Decided(x, action, at)
       PROVE  MembershipRail'
  <2>1. PICK e : e = TransferEvent(x, action, at)
    OBVIOUS
  <2>2. /\ Extended(transferEvents, transferEvents', e) /\ e.transfer = x
        /\ e.status = TransferResult[action] /\ action # "complete"
        /\ TransferTransition(TransferStatus(x), action)
        /\ transfers' = transfers /\ memberships' = memberships
    BY <1>10, <2>1 DEF Decided, DecideOwnershipTransfer, TransferEvent
  <2>3. TransferStatus(x) # "completed" /\ e.status # "completed"
    BY <2>2 DEF TransferTransition, TransferResult
  <2>4. /\ \A m \in DOMAIN memberships : Boundary(m)' /\ memberships[m].transfer # x
        /\ TransferStatus(x)' = e.status
        /\ \A y \in DOMAIN transfers : y # x => TransferStatus(y)' = TransferStatus(y)
    BY <1>9, <2>2, <2>3
  <2>5. QED
    BY <1>4, <1>5, <2>2, <2>3, <2>4 DEF MembershipRail
<1>11. ASSUME NEW x \in DOMAIN transfers, NEW at \in ClockReads, Completed(x, at)
       PROVE  MembershipRail'
  <2>1. PICK e : e = TransferEvent(x, "complete", at)
    OBVIOUS
  <2>2. PICK row : row = Membership(x, at)
    OBVIOUS
  <2>3. PICK n : n = Len(memberships) + 1
    OBVIOUS
  <2>4. PICK k : k = Len(transferEvents) + 1
    OBVIOUS
  <2>5. /\ Extended(transferEvents, transferEvents', e) /\ Extended(memberships, memberships', row)
        /\ TransferTransition(TransferStatus(x), "complete") /\ HeadAt(events) < at
        /\ transferredAt' = at /\ transfers' = transfers /\ events' = events
    BY <1>11, <2>1, <2>2 DEF Completed, CompleteOwnershipTransfer
  <2>6. /\ e.transfer = x /\ e.action = "complete" /\ e.status = "completed" /\ e.at = at
        /\ row.transfer = x /\ row.event = k /\ row.target = transfers[x].target
        /\ row.claim = transfers[x].claim /\ row.to = transfers[x].to
        /\ row.effective = Day(at) /\ row.through = Len(events) /\ row.at = at
    BY <2>1, <2>2, <2>4 DEF TransferEvent, TransferResult, Membership
  <2>7. /\ memberships'[n] = row /\ transferEvents'[k] = e
        /\ \A m \in DOMAIN memberships' : m \in DOMAIN memberships \/ m = n
        /\ n \in DOMAIN memberships'
    BY <2>3, <2>4, <2>5 DEF Extended
  <2>8. TransferStatus(x) # "completed"
    BY <2>5 DEF TransferTransition
  <2>9. /\ \A m \in DOMAIN memberships : Boundary(m)' /\ memberships[m].transfer # x
        /\ TransferStatus(x)' = "completed"
        /\ \A y \in DOMAIN transfers : y # x => TransferStatus(y)' = TransferStatus(y)
    BY <1>9, <2>5, <2>6, <2>8
  <2>10. TransferHead(x)' = k
    BY <2>4, <2>5, <2>6, TransferHeadMoves
  <2>11. Boundary(n)'
    BY <2>5, <2>6, <2>7, <2>10 DEF Boundary
  <2>12. BoundaryAtHead(n)'
    <3>1. /\ events \in Seq(EventRows) /\ Len(events) \in Nat /\ DOMAIN events = 1..Len(events)
          /\ \A i \in DOMAIN events : events[i] \in EventRows
      BY <1>1, TableTypes DEF OperatorInv, OperatorTypeOK
    <3>2. \A i \in DOMAIN events : events[i].at \in Nat
      BY <3>1, ReadsAreTimes DEF EventRows
    <3>3. Ordered(events)
      BY <1>1 DEF OperatorInv, AuditInv, EventsAudited, VerifyOperatorAuditEvents, Ordered
    <3>4. \A i \in DOMAIN events : events[i].at <= HeadAt(events)
      <4> HIDE DEF EventRows
      <4>1. QED
        BY <3>1, <3>2, <3>3, HeadIsLatest
    <3>5. HeadAt(events) \in Nat /\ at \in Nat
      BY <3>1, <3>2, ReadsAreTimes DEF HeadAt
    <3>6. \A i \in DOMAIN events : events[i].at < at /\ i <= Len(events)
      BY <2>5, <3>1, <3>2, <3>4, <3>5
    <3>7. QED
      BY <2>5, <2>6, <2>7, <3>5, <3>6 DEF BoundaryAtHead
  <2>13. \A m \in DOMAIN memberships' : Boundary(m)' /\ BoundaryAtHead(m)'
    BY <1>4, <2>7, <2>9, <2>11, <2>12
  <2>14. \A y \in DOMAIN transfers' :
            TransferStatus(y)' = "completed" <=>
                \E m \in DOMAIN memberships' : memberships'[m].transfer = y
    <3>1. ASSUME NEW y \in DOMAIN transfers, y # x
          PROVE  (\E m \in DOMAIN memberships' : memberships'[m].transfer = y)
                    <=> \E m \in DOMAIN memberships : memberships[m].transfer = y
      <4>1. \A m \in DOMAIN memberships : m \in DOMAIN memberships'
        BY <2>5 DEF Extended, Grown
      <4>2. QED
        BY <1>6, <2>6, <2>7, <3>1, <4>1
    <3>2. \E m \in DOMAIN memberships' : memberships'[m].transfer = x
      BY <2>6, <2>7
    <3>3. QED
      BY <1>5, <2>5, <2>9, <3>1, <3>2
  <2>15. \A l, m \in DOMAIN memberships' :
            memberships'[l].transfer = memberships'[m].transfer => l = m
    BY <1>5, <1>6, <2>6, <2>7, <2>9
  <2>16. QED
    BY <2>13, <2>14, <2>15 DEF MembershipRail
<1>12. QED
  BY <1>1, <1>7, <1>8, <1>10, <1>11, ExitCases
     DEF exitVars, Froze, ReviewedExit, Created, Verified

-----------------------------------------------------------------------------
(* Final exit allocations.                                                 *)

(* A transfer's status is one of the five.                                 *)
LEMMA StatusTyped ==
    ASSUME TypeOK, HeadsExist, NEW x \in DOMAIN transfers
    PROVE  TransferStatus(x) \in {"prepared", "approved", "rejected", "cancelled", "completed"}
<1>1. TransferHead(x) \in DOMAIN transferEvents
  BY TransferHeadIs
<1>2. transferEvents[TransferHead(x)] \in TransferEventRows
  BY <1>1, ExitTableTypes
<1>3. QED
  BY <1>2 DEF TransferStatus, TransferEventRows

(* Every step keeps the one outcome of each exit: no transfer is prepared  *)
(* once there is an allocation, and none that is over comes back.          *)
LEMMA OneOutcomeStep ==
    ASSUME TablesInv, ExitRail, OneOutcome, [Next]_vars
    PROVE  OneOutcome'
<1>1. TypeOK /\ HeadsExist /\ ExitGrowth /\ OneReview
  BY TablesStep DEF TablesInv, ExitRail
<1>2. /\ \A a \in DOMAIN allocations : allocations[a].exit \in DOMAIN exitReviews
      /\ \A v \in DOMAIN exitReviews : exitReviews'[v] = exitReviews[v]
      /\ \A x \in DOMAIN transfers : transfers'[x] = transfers[x]
      /\ \A a \in DOMAIN allocations : allocations'[a] = allocations[a]
  BY <1>1, ExitTableTypes DEF AllocationRows, ExitGrowth, Grown
<1>3. ASSUME NEW a \in DOMAIN allocations, NEW x \in DOMAIN transfers,
             transfers[x].target = exitReviews[allocations[a].exit].target,
             transfers[x].claim = exitReviews[allocations[a].exit].claim,
             x # allocations[a].transfer
      PROVE  TransferStatus(x) \in {"rejected", "cancelled"}
  BY <1>3 DEF OneOutcome
<1>4. ASSUME UNCHANGED <<transfers, transferEvents, allocations>> PROVE OneOutcome'
  <2>1. \A x : TransferStatus(x)' = TransferStatus(x)
    BY <1>4 DEF TransferStatus, TransferHead
  <2>2. QED
    BY <1>2, <1>3, <1>4, <2>1 DEF OneOutcome
<1>5. ASSUME NEW v \in DOMAIN exitReviews, NEW group, NEW at, Prepared(v, group, at)
      PROVE  OneOutcome'
  <2>1. PICK n : n = Len(transfers) + 1
    OBVIOUS
  <2>2. PICK e : e = PrepareEvent(at)
    OBVIOUS
  <2>3. PICK t : t = PreparedTransfer(v, group, at)
    OBVIOUS
  <2>4. /\ Extended(transferEvents, transferEvents', e) /\ e.transfer = n
        /\ Extended(transfers, transfers', t) /\ MayPrepare(v, group)
        /\ allocations' = allocations
        /\ t.target = exitReviews[v].target /\ t.claim = exitReviews[v].claim
    BY <1>5, <2>1, <2>2, <2>3
       DEF Prepared, PrepareOwnershipTransfer, PrepareEvent, PreparedTransfer
  <2>5. /\ transfers'[n] = t /\ n \notin DOMAIN transfers
        /\ \A x \in DOMAIN transfers' : x \in DOMAIN transfers \/ x = n
    BY <2>1, <2>4 DEF Extended
  <2>6. \A x \in DOMAIN transfers : TransferStatus(x)' = TransferStatus(x)
    BY <1>1, <2>4, <2>5, TransferStatusMoves
  <2>7. \A a \in DOMAIN allocations : allocations[a].exit # v
    BY <2>4 DEF MayPrepare
  <2>8. ASSUME NEW a \in DOMAIN allocations
        PROVE  ~(/\ t.target = exitReviews[allocations[a].exit].target
                 /\ t.claim = exitReviews[allocations[a].exit].claim)
    BY <1>1, <1>2, <2>4, <2>7 DEF OneReview
  <2>9. QED
    BY <1>2, <1>3, <2>4, <2>5, <2>6, <2>8 DEF OneOutcome
<1>6. ASSUME NEW x \in DOMAIN transfers, NEW e, Extended(transferEvents, transferEvents', e),
             e.transfer = x, TransferStatus(x) \in {"prepared", "approved"},
             UNCHANGED <<transfers, allocations>>
      PROVE  OneOutcome'
  <2>1. \A y \in DOMAIN transfers : y # x => TransferStatus(y)' = TransferStatus(y)
    BY <1>1, <1>6, TransferStatusMoves
  <2>2. \A a \in DOMAIN allocations :
            ~(/\ transfers[x].target = exitReviews[allocations[a].exit].target
              /\ transfers[x].claim = exitReviews[allocations[a].exit].claim
              /\ x # allocations[a].transfer)
    BY <1>3, <1>6
  <2>3. QED
    BY <1>2, <1>3, <1>6, <2>1, <2>2 DEF OneOutcome
<1>7. ASSUME NEW x \in DOMAIN transfers, NEW action \in DOMAIN TransferResult, NEW at,
             Decided(x, action, at)
      PROVE  OneOutcome'
  <2>1. PICK e : e = TransferEvent(x, action, at)
    OBVIOUS
  <2>2. /\ Extended(transferEvents, transferEvents', e) /\ e.transfer = x
        /\ TransferTransition(TransferStatus(x), action) /\ UNCHANGED <<transfers, allocations>>
    BY <1>7, <2>1 DEF Decided, DecideOwnershipTransfer, TransferEvent
  <2>3. QED
    BY <1>6, <2>2 DEF TransferTransition, TransferResult
<1>8. ASSUME NEW x \in DOMAIN transfers, NEW at, Completed(x, at) PROVE OneOutcome'
  <2>1. PICK e : e = TransferEvent(x, "complete", at)
    OBVIOUS
  <2>2. /\ Extended(transferEvents, transferEvents', e) /\ e.transfer = x
        /\ TransferTransition(TransferStatus(x), "complete")
        /\ UNCHANGED <<transfers, allocations>>
    BY <1>8, <2>1 DEF Completed, CompleteOwnershipTransfer, TransferEvent
  <2>3. QED
    BY <1>6, <2>2 DEF TransferTransition
<1>9. ASSUME NEW v, NEW x, NEW b, NEW at, Created(v, x, b, at) PROVE OneOutcome'
  <2>1. PICK n : n = Len(allocations) + 1
    OBVIOUS
  <2>2. PICK r : r = Allocation(v, x, b, at)
    OBVIOUS
  <2>3. /\ Extended(allocations, allocations', r) /\ r.exit = v /\ r.transfer = x
        /\ ~ConflictingTransfer(v, x)
        /\ UNCHANGED <<exitReviews, transfers, transferEvents>>
    BY <1>9, <2>2 DEF Created, CreateExitAllocation, ResolvesTo, Allocation
  <2>4. /\ allocations'[n] = r
        /\ \A a \in DOMAIN allocations' : a \in DOMAIN allocations \/ a = n
    BY <2>1, <2>3 DEF Extended
  <2>5. \A y : TransferStatus(y)' = TransferStatus(y)
    BY <2>3 DEF TransferStatus, TransferHead
  <2>6. ASSUME NEW y \in DOMAIN transfers, y # x,
               transfers[y].target = exitReviews[v].target,
               transfers[y].claim = exitReviews[v].claim
        PROVE  TransferStatus(y) \in {"rejected", "cancelled"}
    BY <1>1, <2>3, <2>6, StatusTyped DEF ConflictingTransfer
  <2>7. QED
    BY <1>2, <1>3, <2>3, <2>4, <2>5, <2>6 DEF OneOutcome
<1>10. QED
  BY <1>1, <1>4, <1>5, <1>7, <1>8, <1>9, ExitCases
     DEF exitVars, Froze, ReviewedExit, Verified

(* The status of transfer x at event index i, as the audit replays it.     *)
EventsThrough(x, i) == {k \in 1..i : transferEvents[k].transfer = x}

(* Events that an allocation's boundary sees are not disturbed.            *)
LEMMA EventsThroughKept ==
    ASSUME TypeOK, ExitGrowth, NEW i \in 0..Len(transferEvents), NEW x
    PROVE  /\ EventsThrough(x, i)' = EventsThrough(x, i)
           /\ EventsThrough(x, i) # {} =>
                transferEvents'[Newest(EventsThrough(x, i))]
                    = transferEvents[Newest(EventsThrough(x, i))]
           /\ x \notin DOMAIN transfers => EventsThrough(x, i) = {}
<1>1. /\ Len(transferEvents) \in Nat /\ DOMAIN transferEvents = 1..Len(transferEvents)
      /\ \A k \in DOMAIN transferEvents : transferEvents'[k] = transferEvents[k]
  BY DEF ExitGrowth, Grown
<1>2. i \in Nat /\ \A k \in 1..i : k \in DOMAIN transferEvents
  BY <1>1
<1>3. EventsThrough(x, i)' = EventsThrough(x, i) /\ EventsThrough(x, i) \in SUBSET (1..i)
  BY <1>1, <1>2 DEF EventsThrough
<1>4. ASSUME EventsThrough(x, i) # {} PROVE Newest(EventsThrough(x, i)) \in 1..i
  BY <1>2, <1>3, <1>4, NewestOf
<1>5. \A k \in DOMAIN transferEvents : transferEvents[k].transfer \in DOMAIN transfers
  BY ExitTableTypes DEF TransferEventRows
<1>6. QED
  BY <1>1, <1>2, <1>3, <1>4, <1>5 DEF EventsThrough

(* DecisionBoundaryHolds in these words, with the completion in the table. *)
DecidedAtBoundary(r) ==
    /\ r.through > 0 => transferEvents[r.through].at <= r.at
    /\ \A x \in DOMAIN transfers :
            /\ x # r.transfer
            /\ transfers[x].target = exitReviews[r.exit].target
            /\ transfers[x].claim = exitReviews[r.exit].claim
            /\ EventsThrough(x, r.through) # {}
            => transferEvents[Newest(EventsThrough(x, r.through))].status
                    \notin {"prepared", "approved", "completed"}
    /\ \A k \in DOMAIN transferEvents :
            /\ transferEvents[k].action = "prepare"
            /\ transfers[transferEvents[k].transfer].exit = r.exit
            => k <= r.through
    /\ r.transfer # 0 =>
            /\ r.completion \in DOMAIN transferEvents
            /\ transferEvents[r.completion].transfer = r.transfer
            /\ transferEvents[r.completion].action = "complete"
            /\ r.completion <= r.through
            /\ transfers[r.transfer].exit = r.exit
            /\ transfers[r.transfer].to = r.beneficiary

(* So the audit finds the boundary as it was.                              *)
LEMMA BoundaryAudited ==
    ASSUME NEW a \in DOMAIN allocations, DecidedAtBoundary(allocations[a])
    PROVE  DecisionBoundaryHolds(a)
BY DEF DecidedAtBoundary, DecisionBoundaryHolds, EventsThrough

(* An allocation's boundary holds when nothing is prepared for its exit.   *)
LEMMA BoundaryHeld ==
    ASSUME TypeOK, ExitGrowth, NEW r \in AllocationRows, DecidedAtBoundary(r),
           \A k \in DOMAIN transferEvents' : k \notin DOMAIN transferEvents =>
                ~(/\ transferEvents'[k].action = "prepare"
                  /\ transfers'[transferEvents'[k].transfer].exit = r.exit)
    PROVE  DecidedAtBoundary(r)'
<1>1. /\ Len(transferEvents) \in Nat /\ DOMAIN transferEvents = 1..Len(transferEvents)
      /\ \A k \in DOMAIN transferEvents :
            k \in DOMAIN transferEvents' /\ transferEvents'[k] = transferEvents[k]
      /\ \A x \in DOMAIN transfers : x \in DOMAIN transfers' /\ transfers'[x] = transfers[x]
      /\ \A v \in DOMAIN exitReviews : exitReviews'[v] = exitReviews[v]
  BY DEF ExitGrowth, Grown
<1>2. /\ r.through \in 0..Len(transferEvents) /\ r.exit \in DOMAIN exitReviews
      /\ r.transfer \in {0} \cup DOMAIN transfers
  BY DEF AllocationRows
<1>3. \A k \in DOMAIN transferEvents : transferEvents[k].transfer \in DOMAIN transfers
  BY ExitTableTypes DEF TransferEventRows
<1>4. r.through > 0 => transferEvents'[r.through].at <= r.at
  BY <1>1, <1>2 DEF DecidedAtBoundary
<1>5. ASSUME NEW x \in DOMAIN transfers', x # r.transfer,
             transfers'[x].target = exitReviews'[r.exit].target,
             transfers'[x].claim = exitReviews'[r.exit].claim,
             EventsThrough(x, r.through)' # {}
      PROVE  transferEvents'[Newest(EventsThrough(x, r.through)')].status
                    \notin {"prepared", "approved", "completed"}
  <2>1. PICK E : E = EventsThrough(x, r.through)
    OBVIOUS
  <2>2. /\ EventsThrough(x, r.through)' = E
        /\ transferEvents'[Newest(E)] = transferEvents[Newest(E)]
        /\ x \in DOMAIN transfers
    BY <1>2, <1>5, <2>1, EventsThroughKept
  <2>3. QED
    BY <1>1, <1>2, <1>5, <2>1, <2>2 DEF DecidedAtBoundary
<1>6. ASSUME NEW k \in DOMAIN transferEvents', transferEvents'[k].action = "prepare",
             transfers'[transferEvents'[k].transfer].exit = r.exit
      PROVE  k <= r.through
  BY <1>1, <1>3, <1>6 DEF DecidedAtBoundary
<1>7. ASSUME r.transfer # 0
      PROVE  /\ r.completion \in DOMAIN transferEvents'
             /\ transferEvents'[r.completion].transfer = r.transfer
             /\ transferEvents'[r.completion].action = "complete"
             /\ r.completion <= r.through
             /\ transfers'[r.transfer].exit = r.exit
             /\ transfers'[r.transfer].to = r.beneficiary
  BY <1>1, <1>2, <1>7 DEF DecidedAtBoundary
<1>8. \A x : Newest(EventsThrough(x, r.through))' = Newest(EventsThrough(x, r.through)')
  BY DEF Newest
<1>9. QED
  BY <1>4, <1>5, <1>6, <1>7, <1>8 DEF DecidedAtBoundary

(* An allocation is pinned to its verification.                            *)
PinnedAllocation(r) ==
    /\ exitEvents[r.verification].exit = r.exit
    /\ exitEvents[r.verification].action = "verify"
    /\ exitEvents[r.verification].at <= r.at

AllocationRail ==
    /\ \A a \in DOMAIN allocations :
            PinnedAllocation(allocations[a]) /\ DecidedAtBoundary(allocations[a])
    /\ Ordered(allocationEvents)
    /\ \A k \in DOMAIN allocationEvents : AllocationEventFollows(k)

(* What the audit checks.                                                  *)
LEMMA AllocationsAudited == AllocationRail => VerifyExitAllocations
<1> SUFFICES ASSUME AllocationRail PROVE VerifyExitAllocations
  OBVIOUS
<1>1. \A a \in DOMAIN allocations : AllocationPinned(a) /\ DecisionBoundaryHolds(a)
  BY BoundaryAudited DEF AllocationRail, PinnedAllocation, AllocationPinned
<1>2. QED
  BY <1>1 DEF AllocationRail, VerifyExitAllocations

(* A new allocation is decided on the transfers as they stand.             *)
LEMMA CreatedAtBoundary ==
    ASSUME TablesInv, TransferRail, NEW v \in DOMAIN exitReviews,
           NEW x \in {0} \cup DOMAIN transfers, NEW b, NEW at \in ClockReads,
           CreateExitAllocation(v, x, b, at)
    PROVE  DecidedAtBoundary(Allocation(v, x, b, at))
<1>1. TypeOK /\ HeadsExist /\ \A k \in DOMAIN transferEvents : TransferEventFollows(k)
  BY DEF TablesInv, TransferRail
<1>2. PICK n : n = Len(transferEvents)
  OBVIOUS
<1>3. n \in Nat /\ DOMAIN transferEvents = 1..n /\ transferEvents \in Seq(TransferEventRows)
      /\ DOMAIN transfers = 1..Len(transfers)
  BY <1>1, <1>2, ExitTableTypes
<1>4. /\ HeadAt(transferEvents) <= at /\ ~ConflictingTransfer(v, x)
      /\ x # 0 => /\ TransferStatus(x) = "completed"
                  /\ transfers[x].exit = v
                  /\ b = transfers[x].to
  BY DEF CreateExitAllocation, ResolvesTo
<1>5. PICK r : r = Allocation(v, x, b, at)
  OBVIOUS
<1>6. /\ r.exit = v /\ r.transfer = x /\ r.through = n /\ r.beneficiary = b /\ r.at = at
      /\ r.completion = IF x = 0 THEN 0 ELSE TransferHead(x)
  BY <1>2, <1>5 DEF Allocation
<1>7. \A y : EventsThrough(y, n) = TransferEventsOf(y)
  BY <1>3 DEF EventsThrough, TransferEventsOf
<1>8. \A y : TransferStatus(y) = transferEvents[Newest(EventsThrough(y, n))].status
  BY <1>7 DEF TransferStatus, TransferHead, TransferEventsOf
<1>9. n > 0 => transferEvents[n].at <= at
  <2> HIDE DEF TransferEventRows
  <2>1. n > 0 => transferEvents # <<>>
    BY <1>2, <1>3
  <2>2. QED
    BY <1>2, <1>4, <2>1 DEF HeadAt
<1>10. ASSUME NEW y \in DOMAIN transfers, y # x,
              transfers[y].target = exitReviews[v].target,
              transfers[y].claim = exitReviews[v].claim
       PROVE  transferEvents[Newest(EventsThrough(y, n))].status
                    \notin {"prepared", "approved", "completed"}
  BY <1>4, <1>8, <1>10 DEF ConflictingTransfer
<1>11. \A k \in DOMAIN transferEvents : k <= n
  BY <1>3
<1>12. ASSUME x # 0
       PROVE  /\ TransferHead(x) \in DOMAIN transferEvents
              /\ transferEvents[TransferHead(x)].transfer = x
              /\ transferEvents[TransferHead(x)].action = "complete"
  <2>1. TransferHead(x) \in DOMAIN transferEvents
        /\ transferEvents[TransferHead(x)].transfer = x
    BY <1>1, <1>12, TransferHeadIs
  <2>2. PICK e : e = transferEvents[TransferHead(x)]
    OBVIOUS
  <2>3. e.status = "completed" /\ e \in TransferEventRows
    BY <1>1, <1>4, <1>12, <2>1, <2>2, ExitTableTypes DEF TransferStatus
  <2>4. IF e.action = "prepare" THEN e.status = "prepared"
        ELSE e.status = TransferResult[e.action]
    BY <1>1, <2>1, <2>2 DEF TransferEventFollows
  <2>5. e.action \in {"prepare", "approve", "reject", "cancel", "complete"}
    BY <2>3 DEF TransferEventRows, TransferResult
  <2>6. QED
    BY <2>1, <2>2, <2>3, <2>4, <2>5 DEF TransferResult
<1>13. DecidedAtBoundary(r)
  BY <1>4, <1>6, <1>9, <1>10, <1>11, <1>12 DEF DecidedAtBoundary
<1>14. QED
  BY <1>5, <1>13

(* An allocation stays pinned to its verification.                         *)
LEMMA PinnedAllocationKept ==
    ASSUME ExitGrowth, NEW r \in AllocationRows, PinnedAllocation(r)
    PROVE  PinnedAllocation(r)'
<1>1. r.verification \in DOMAIN exitEvents
  BY DEF AllocationRows
<1>2. exitEvents'[r.verification] = exitEvents[r.verification]
  BY <1>1 DEF ExitGrowth, Grown
<1>3. QED
  BY <1>2 DEF PinnedAllocation

(* Every step keeps what the allocations there are rest on: a transfer is  *)
(* prepared only for an exit that has none.                                *)
LEMMA AllocationsKept ==
    ASSUME TablesInv, AllocationRail, [Next]_vars, NEW a \in DOMAIN allocations,
           NEW r, r = allocations[a]
    PROVE  allocations'[a] = r /\ PinnedAllocation(r)' /\ DecidedAtBoundary(r)'
<1>1. TypeOK /\ HeadsExist /\ ExitGrowth /\ TypeOK'
  BY TablesStep DEF TablesInv
<1>3. allocations'[a] = r /\ r \in AllocationRows
  BY <1>1, ExitTableTypes DEF ExitGrowth, Grown
<1>4. PinnedAllocation(r) /\ DecidedAtBoundary(r)
  BY DEF AllocationRail
<1>5. PinnedAllocation(r)'
  BY <1>1, <1>3, <1>4, PinnedAllocationKept
<1>6. ASSUME \A k \in DOMAIN transferEvents' : k \notin DOMAIN transferEvents =>
                ~(/\ transferEvents'[k].action = "prepare"
                  /\ transfers'[transferEvents'[k].transfer].exit = r.exit)
      PROVE  DecidedAtBoundary(r)'
  BY <1>1, <1>3, <1>4, <1>6, BoundaryHeld
<1>7. ASSUME UNCHANGED transferEvents PROVE DecidedAtBoundary(r)'
  BY <1>6, <1>7
<1>8. ASSUME NEW v, NEW group, NEW at, Prepared(v, group, at) PROVE DecidedAtBoundary(r)'
  <2>1. PICK e : e = PrepareEvent(at)
    OBVIOUS
  <2>2. PICK t : t = PreparedTransfer(v, group, at)
    OBVIOUS
  <2>3. /\ Extended(transferEvents, transferEvents', e) /\ e.transfer = Len(transfers) + 1
        /\ Extended(transfers, transfers', t) /\ t.exit = v /\ MayPrepare(v, group)
    BY <1>8, <2>1, <2>2
       DEF Prepared, PrepareOwnershipTransfer, PrepareEvent, PreparedTransfer
  <2>4. r.exit # v
    BY <2>3 DEF MayPrepare
  <2>5. \A k \in DOMAIN transferEvents' : k \notin DOMAIN transferEvents =>
            transfers'[transferEvents'[k].transfer].exit = v
    BY <2>3 DEF Extended
  <2>6. QED
    BY <1>6, <2>4, <2>5
<1>9. ASSUME NEW x, NEW action \in DOMAIN TransferResult, NEW at,
             Extended(transferEvents, transferEvents', TransferEvent(x, action, at))
      PROVE  DecidedAtBoundary(r)'
  <2>1. action # "prepare" /\ TransferEvent(x, action, at).action = action
    BY DEF TransferResult, TransferEvent
  <2>2. \A k \in DOMAIN transferEvents' : k \notin DOMAIN transferEvents =>
            transferEvents'[k].action # "prepare"
    BY <1>9, <2>1 DEF Extended
  <2>3. QED
    BY <1>6, <2>2
<1>10. "complete" \in DOMAIN TransferResult
  BY DEF TransferResult
<1>11. DecidedAtBoundary(r)'
  BY <1>1, <1>7, <1>8, <1>9, <1>10, ExitCases
     DEF exitVars, Froze, ReviewedExit, Decided, Completed, Created, Verified
<1>12. QED
  BY <1>3, <1>5, <1>11

(* An event of an allocation follows the ones before it.                   *)
LEMMA PastAllocationEvents ==
    ASSUME NEW e, Extended(allocationEvents, allocationEvents', e),
           NEW k \in DOMAIN allocationEvents, AllocationEventFollows(k)
    PROVE  AllocationEventFollows(k)'
<1>1. /\ Len(allocationEvents) \in Nat /\ DOMAIN allocationEvents = 1..Len(allocationEvents)
      /\ \A i \in DOMAIN allocationEvents : allocationEvents'[i] = allocationEvents[i]
  BY DEF Extended, Grown
<1>2. k \in Nat /\ \A j \in 1..(k - 1) : j \in DOMAIN allocationEvents
  BY <1>1
<1>3. QED
  BY <1>1, <1>2 DEF AllocationEventFollows

(* The first event of an allocation is its creation, the second and last   *)
(* one its verification.                                                   *)
LEMMA NewAllocationEvent ==
    ASSUME TablesInv, AllocationRail, NEW e, Extended(allocationEvents, allocationEvents', e),
           IF e.action = "create" THEN AllocationEventsOf(e.allocation) = {}
           ELSE /\ e.allocation \in DOMAIN allocations
                /\ allocationEvents[AllocationHead(e.allocation)].action = "create",
           NEW n, n = Len(allocationEvents) + 1
    PROVE  AllocationEventFollows(n)'
<1>1. /\ Len(allocationEvents) \in Nat /\ DOMAIN allocationEvents = 1..Len(allocationEvents)
      /\ \A i \in DOMAIN allocationEvents : allocationEvents'[i] = allocationEvents[i]
      /\ allocationEvents'[n] = e /\ n - 1 = Len(allocationEvents)
  BY DEF Extended, Grown
<1>2. {j \in 1..(n - 1) : allocationEvents'[j].allocation = allocationEvents'[n].allocation}
        = AllocationEventsOf(e.allocation)
  BY <1>1 DEF AllocationEventsOf
<1>3. ASSUME e.action # "create"
      PROVE  /\ AllocationEventsOf(e.allocation) # {}
             /\ \A j \in AllocationEventsOf(e.allocation) :
                    allocationEvents'[j].action = "create"
  <2>1. PICK a : a = e.allocation
    OBVIOUS
  <2>2. a \in DOMAIN allocations /\ allocationEvents[AllocationHead(a)].action = "create"
    BY <1>3, <2>1
  <2>3. PICK h : h = AllocationHead(a)
    OBVIOUS
  <2>4. /\ h \in DOMAIN allocationEvents /\ allocationEvents[h].allocation = a
        /\ \A k \in DOMAIN allocationEvents : allocationEvents[k].allocation = a => k <= h
    BY <2>2, <2>3, AllocationHeadIs DEF TablesInv
  <2>5. AllocationEventFollows(h)
    BY <2>4 DEF AllocationRail
  <2>6. {j \in 1..(h - 1) : allocationEvents[j].allocation = allocationEvents[h].allocation} = {}
    BY <2>2, <2>3, <2>5 DEF AllocationEventFollows
  <2>7. ASSUME NEW j \in AllocationEventsOf(a) PROVE j = h
    <3>1. j \in DOMAIN allocationEvents /\ allocationEvents[j].allocation = a
      BY DEF AllocationEventsOf
    <3>2. j \in 1..h /\ h \in Nat
      BY <1>1, <2>4, <3>1
    <3>3. j \notin 1..(h - 1)
      BY <2>4, <2>6, <3>1
    <3>4. QED
      BY <3>2, <3>3
  <2>8. h \in AllocationEventsOf(a)
    BY <2>4 DEF AllocationEventsOf
  <2>9. QED
    BY <1>1, <2>1, <2>2, <2>3, <2>4, <2>7, <2>8
<1>4. QED
  BY <1>1, <1>2, <1>3 DEF AllocationEventFollows

(* Every step keeps the allocations' rail.                                 *)
LEMMA AllocationRailStep ==
    ASSUME TablesInv, ExitRail, TransferRail, AllocationRail, [Next]_vars
    PROVE  AllocationRail'
<1> HIDE DEF AllocationRows, AllocationEventRows
<1>1. TypeOK /\ HeadsExist /\ ExitGrowth /\ Ordered(allocationEvents)
      /\ \A k \in DOMAIN allocationEvents : AllocationEventFollows(k)
  BY TablesStep DEF TablesInv, AllocationRail
<1>2. /\ allocationEvents \in Seq(AllocationEventRows) /\ Len(allocationEvents) \in Nat
      /\ Len(allocations) \in Nat /\ DOMAIN allocations = 1..Len(allocations)
      /\ \A k \in DOMAIN allocationEvents : allocationEvents[k] \in AllocationEventRows
  BY <1>1, ExitTableTypes
<1>3. \A a \in DOMAIN allocations :
            PinnedAllocation(allocations[a])' /\ DecidedAtBoundary(allocations[a])'
  <2>1. SUFFICES ASSUME NEW a \in DOMAIN allocations
                 PROVE  PinnedAllocation(allocations[a])' /\ DecidedAtBoundary(allocations[a])'
    OBVIOUS
  <2>2. PICK r : r = allocations[a]
    OBVIOUS
  <2>3. allocations'[a] = r /\ PinnedAllocation(r)' /\ DecidedAtBoundary(r)'
    BY <2>2, AllocationsKept
  <2>4. QED
    BY <2>3
<1>4. ASSUME UNCHANGED <<allocations, allocationEvents>> PROVE AllocationRail'
  <2>1. Ordered(allocationEvents)' /\ \A k \in DOMAIN allocationEvents' : AllocationEventFollows(k)'
    BY <1>1, <1>4 DEF Ordered, AllocationEventFollows
  <2>2. QED
    BY <1>3, <1>4, <2>1 DEF AllocationRail
<1>5. ASSUME NEW e, Extended(allocationEvents, allocationEvents', e),
             HeadAt(allocationEvents) <= e.at,
             IF e.action = "create" THEN AllocationEventsOf(e.allocation) = {}
             ELSE /\ e.allocation \in DOMAIN allocations
                  /\ allocationEvents[AllocationHead(e.allocation)].action = "create"
      PROVE  /\ Ordered(allocationEvents)'
             /\ \A k \in DOMAIN allocationEvents' : AllocationEventFollows(k)'
  <2>1. Ordered(allocationEvents)'
    <3>1. \A t : Extended(allocationEvents, t, e) => Ordered(t)
      BY <1>1, <1>2, <1>5, OrderedExtends
    <3>2. PICK t : t = allocationEvents'
      OBVIOUS
    <3>3. Ordered(t)
      BY <1>5, <3>1, <3>2
    <3>4. QED
      BY <3>2, <3>3 DEF Ordered
  <2>2. PICK n : n = Len(allocationEvents) + 1
    OBVIOUS
  <2>3. AllocationEventFollows(n)'
    BY <1>5, <2>2, NewAllocationEvent
  <2>4. \A k \in DOMAIN allocationEvents : AllocationEventFollows(k)'
    BY <1>1, <1>5, PastAllocationEvents
  <2>5. \A k \in DOMAIN allocationEvents' : k \in DOMAIN allocationEvents \/ k = n
    BY <1>5, <2>2 DEF Extended
  <2>6. QED
    BY <2>1, <2>3, <2>4, <2>5
<1>6. ASSUME NEW v \in DOMAIN exitReviews, NEW x \in {0} \cup DOMAIN transfers, NEW b,
             NEW at \in ClockReads, Created(v, x, b, at)
      PROVE  AllocationRail'
  <2>1. PICK e : e = CreateEvent(at)
    OBVIOUS
  <2>2. PICK r : r = Allocation(v, x, b, at)
    OBVIOUS
  <2>3. PICK n : n = Len(allocations) + 1
    OBVIOUS
  <2>4. /\ Extended(allocationEvents, allocationEvents', e) /\ e.at = at
        /\ e.allocation = n /\ e.action = "create" /\ HeadAt(allocationEvents) <= at
        /\ Extended(allocations, allocations', r)
        /\ CreateExitAllocation(v, x, b, at)
        /\ UNCHANGED <<exitReviews, exitEvents, transfers, transferEvents>>
    BY <1>6, <2>1, <2>2, <2>3 DEF Created, CreateExitAllocation, CreateEvent
  <2>5. AllocationEventsOf(n) = {}
    <3>1. \A k \in DOMAIN allocationEvents : allocationEvents[k].allocation \in DOMAIN allocations
      BY <1>2 DEF AllocationEventRows
    <3>2. n \notin DOMAIN allocations
      BY <1>2, <2>3
    <3>3. QED
      BY <3>1, <3>2 DEF AllocationEventsOf
  <2>6. /\ Ordered(allocationEvents)'
        /\ \A k \in DOMAIN allocationEvents' : AllocationEventFollows(k)'
    BY <1>5, <2>4, <2>5
  <2>7. DecidedAtBoundary(r)
    BY <1>6, <2>2, <2>4, CreatedAtBoundary
  <2>8. PinnedAllocation(r)
    <3>1. /\ r.exit = v /\ r.verification = ExitHead(v) /\ r.at = at
      BY <2>2 DEF Allocation
    <3>2. ExactVerifiedExit(v, ExitHead(v)) /\ exitEvents[ExitHead(v)].at <= at
      BY <2>4 DEF CreateExitAllocation
    <3>3. exitEvents[ExitHead(v)].exit = v
      BY <1>1, <1>6, <3>2, VerifiedStatus
    <3>4. QED
      BY <3>1, <3>2, <3>3 DEF PinnedAllocation, ExactVerifiedExit
  <2>9. PinnedAllocation(r)' /\ DecidedAtBoundary(r)'
    BY <2>4, <2>7, <2>8 DEF PinnedAllocation, DecidedAtBoundary, EventsThrough
  <2>10. \A a \in DOMAIN allocations' : a \in DOMAIN allocations \/ (a = n /\ allocations'[a] = r)
    BY <2>3, <2>4 DEF Extended
  <2>11. \A a \in DOMAIN allocations' :
            PinnedAllocation(allocations[a])' /\ DecidedAtBoundary(allocations[a])'
    BY <1>3, <2>9, <2>10
  <2>12. QED
    BY <2>6, <2>11 DEF AllocationRail
<1>7. ASSUME NEW a \in DOMAIN allocations, NEW at, Verified(a, at) PROVE AllocationRail'
  <2>1. PICK e : e = VerifyEvent(a, at)
    OBVIOUS
  <2>2. /\ Extended(allocationEvents, allocationEvents', e) /\ e.at = at
        /\ e.allocation = a /\ e.action = "verify" /\ HeadAt(allocationEvents) <= at
        /\ allocationEvents[AllocationHead(a)].action = "create"
        /\ allocations' = allocations
    BY <1>7, <2>1 DEF Verified, VerifyExitAllocation, VerifyEvent
  <2>3. /\ Ordered(allocationEvents)'
        /\ \A k \in DOMAIN allocationEvents' : AllocationEventFollows(k)'
    BY <1>5, <1>7, <2>2
  <2>4. QED
    BY <1>3, <2>2, <2>3 DEF AllocationRail
<1>8. QED
  BY <1>1, <1>4, <1>6, <1>7, ExitCases
     DEF exitVars, Froze, ReviewedExit, Prepared, Decided, Completed

-----------------------------------------------------------------------------
(* The rails together.                                                     *)

RailsInv ==
    /\ TablesInv
    /\ ExitRail
    /\ TransferRail
    /\ MembershipRail
    /\ AllocationRail
    /\ OneOutcome

(* They hold of the empty tables.                                          *)
LEMMA RailsInit == Init => RailsInv
<1> SUFFICES ASSUME Init PROVE RailsInv
  OBVIOUS
<1>1. TablesInv
  BY TablesInit
<1>2. /\ exitReviews = <<>> /\ exitEvents = <<>> /\ transfers = <<>> /\ transferEvents = <<>>
      /\ memberships = <<>> /\ allocations = <<>> /\ allocationEvents = <<>>
  BY DEF Init, ExitInit
<1>3. DOMAIN <<>> = {} /\ 2..Len(<<>>) = {}
  OBVIOUS
<1>4. Ordered(<<>>)
  BY <1>3 DEF Ordered
<1>5. ExitRail
  BY <1>2, <1>3, <1>4 DEF ExitRail, VerifyExitReviewEvents, OneReview
<1>6. TransferRail
  BY <1>2, <1>3, <1>4 DEF TransferRail, NoConflictingActiveTransfers
<1>7. MembershipRail
  BY <1>2, <1>3 DEF MembershipRail
<1>8. AllocationRail /\ OneOutcome
  BY <1>2, <1>3, <1>4 DEF AllocationRail, OneOutcome
<1>9. QED
  BY <1>1, <1>5, <1>6, <1>7, <1>8 DEF RailsInv

(* And every step keeps them.                                              *)
LEMMA RailsStep == RailsInv /\ [Next]_vars => RailsInv'
<1> SUFFICES ASSUME RailsInv, [Next]_vars PROVE RailsInv'
  OBVIOUS
<1>1. TablesInv /\ ExitRail /\ TransferRail /\ MembershipRail /\ AllocationRail /\ OneOutcome
  BY DEF RailsInv
<1>2. TablesInv'
  BY <1>1, TablesStep
<1>3. ExitRail' /\ TransferRail' /\ MembershipRail'
  BY <1>1, ExitRailStep, TransferRailStep, MembershipRailStep
<1>4. AllocationRail' /\ OneOutcome'
  BY <1>1, AllocationRailStep, OneOutcomeStep
<1>5. QED
  BY <1>2, <1>3, <1>4 DEF RailsInv

(* They give what the audit asks of the rails.                             *)
LEMMA RailsSuffice == RailsInv => RailsAudited
<1> SUFFICES ASSUME RailsInv PROVE RailsAudited
  OBVIOUS
<1>1. VerifyExitReviewEvents
  BY DEF RailsInv, ExitRail
<1>2. VerifyTransferMemberships
  BY MembershipsAudited DEF RailsInv, TablesInv
<1>3. VerifyOwnershipTransfers
  BY <1>2 DEF RailsInv, TransferRail, VerifyOwnershipTransfers
<1>4. VerifyExitAllocations
  BY AllocationsAudited DEF RailsInv
<1>5. QED
  BY <1>1, <1>3, <1>4 DEF RailsAudited

(* The audit passes the exit rails in every reachable database, however    *)
(* late an action commits (any MaxLag): events follow their state machines *)
(* in the order of time, every transfer is pinned to the verification it   *)
(* was prepared on, every completion to the operator-audit head of its     *)
(* time, no claim is in two open transfers, and every allocation stands on *)
(* an ownership decision that nothing has contradicted since.              *)
THEOREM ExitRailsAudited == Spec => []RailsAudited
<1>1. RailsInv => RailsAudited
  BY RailsSuffice
<1>2. QED
  BY <1>1, RailsInit, RailsStep, PTL DEF Spec

(* An exit has one outcome: once there is an allocation, no transfer of    *)
(* its claim other than the one it names is open or completed, and none    *)
(* can be prepared any more.                                               *)
THEOREM OneOutcomeHolds == Spec => []OneOutcome
<1>1. RailsInv => OneOutcome
  BY DEF RailsInv
<1>2. QED
  BY <1>1, RailsInit, RailsStep, PTL DEF Spec

(* A completion's membership row is the only one that appears, and the     *)
(* completion checked again what the preparation relied on: the exit is    *)
(* verified and not disputed since, the claim approved, unsuspended and in *)
(* the source group, and a member of the target group vouches for it.      *)
LEMMA CompletedOnGrounds ==
    ASSUME RailsInv, [Next]_vars, NEW m \in DOMAIN memberships' \ DOMAIN memberships
    PROVE  LET row == memberships'[m]
               exit == transfers[row.transfer].exit
           IN  /\ ExitStatus(exit) = "verified-eligible"
               /\ status[row.target].claim = row.claim
               /\ status[row.target].state = "approved"
               /\ eligibility[row.target].state = "active"
               /\ EffectiveGroup(row.target, row.claim) = row.source
               /\ \E d \in Deployments \ {row.target} :
                    status[d].group = row.to /\ eligibility[d].state = "active"
<1>1. TypeOK /\ HeadsExist /\ ExitRail /\ TransferRail
  BY DEF RailsInv, TablesInv
<1>2. PICK x \in DOMAIN transfers, at \in ClockReads : Completed(x, at)
  BY <1>1, ExitCases DEF exitVars, Froze, ReviewedExit, Prepared, Decided, Created, Verified
<1>3. PICK row : row = Membership(x, at)
  OBVIOUS
<1>4. memberships'[m] = row
  BY <1>2, <1>3 DEF Completed, Extended
<1>5. PICK t : t = transfers[x]
  OBVIOUS
<1>6. /\ row.transfer = x /\ row.target = t.target /\ row.claim = t.claim
      /\ row.source = t.source /\ row.to = t.to
  BY <1>3, <1>5 DEF Membership
<1>7. /\ CurrentTransferClaim(t.target, t.claim, t.source)
      /\ ExactVerifiedExit(t.exit, t.verification)
      /\ TargetGroupHasEligibleClaim(t.to)
  BY <1>2, <1>5 DEF Completed, CompleteOwnershipTransfer, StillTransferable
<1>8. t.exit \in DOMAIN exitReviews
  BY <1>1, <1>2, <1>5, ExitTableTypes DEF TransferRows
<1>9. ExitStatus(t.exit) = "verified-eligible"
  BY <1>1, <1>7, <1>8, VerifiedStatus
<1>10. t.source # t.to
  BY <1>1, <1>2, <1>5 DEF TransferRail, TransferPinned
<1>11. PICK d \in Deployments : status[d].group = t.to /\ eligibility[d].state = "active"
  BY <1>7 DEF TargetGroupHasEligibleClaim
<1>12. d # t.target
  BY <1>7, <1>10, <1>11 DEF CurrentTransferClaim
<1>13. QED
  BY <1>4, <1>5, <1>6, <1>7, <1>9, <1>11, <1>12 DEF CurrentTransferClaim

(* A deployment changes its group by a transfer only on grounds that hold  *)
(* at that moment: a dispute, a withdrawal, a suspension or a move that    *)
(* commits between the preparation and the completion stops it.            *)
THEOREM CompletedOnCurrentGroundsHolds == Spec => CompletedOnCurrentGrounds
<1>1. RailsInv /\ [Next]_vars =>
        [\A m \in DOMAIN memberships' \ DOMAIN memberships :
            LET row == memberships'[m]
                exit == transfers[row.transfer].exit
            IN  /\ ExitStatus(exit) = "verified-eligible"
                /\ status[row.target].claim = row.claim
                /\ status[row.target].state = "approved"
                /\ eligibility[row.target].state = "active"
                /\ EffectiveGroup(row.target, row.claim) = row.source
                /\ \E d \in Deployments \ {row.target} :
                        status[d].group = row.to /\ eligibility[d].state = "active"]_vars
  BY CompletedOnGrounds
<1>2. QED
  BY <1>1, RailsInit, RailsStep, PTL DEF Spec, CompletedOnCurrentGrounds

-----------------------------------------------------------------------------
(* What a boundary sees does not change.                                   *)

(* The recursion of NetworkAt in the next state.                           *)
LEMMA NextRowsUnfold ==
    (\A i \in Nat : NetworkAt[i] = IF i = 0 THEN NoRows ELSE StepRows(i, NetworkAt[i - 1]))'
BY RowsUnfolds, PTL

(* The rows as of an audit index stay what they were.                      *)
LEMMA NetworkKept ==
    ASSUME Grown(events, events'), NEW i \in 0..Len(events)
    PROVE  NetworkAt[i]' = NetworkAt[i]
<1>1. PICK f : f = NetworkAt
  OBVIOUS
<1>2. PICK g : g = NetworkAt'
  OBVIOUS
<1> DEFINE T == {j \in Nat : j <= Len(events) /\ g[j] # f[j]}
<1>3. /\ Len(events) \in Nat /\ DOMAIN events = 1..Len(events)
      /\ \A j \in DOMAIN events : events'[j] = events[j]
  BY DEF Grown
<1>4. \A j \in Nat : f[j] = IF j = 0 THEN NoRows ELSE StepRows(j, f[j - 1])
  BY <1>1, RowsUnfolds
<1>5. \A j \in Nat : g[j] = IF j = 0 THEN NoRows ELSE StepRows(j, g[j - 1])'
  BY <1>2, NextRowsUnfold DEF NoRows
<1>6. T = {}
  <2>1. SUFFICES ASSUME T # {} PROVE FALSE
    OBVIOUS
  <2>2. PICK m \in T : \A y \in T : m <= y
    BY <2>1, SmallestElement
  <2>3. m \in Nat /\ m <= Len(events) /\ g[m] # f[m]
    BY <2>2
  <2>4. m # 0
    BY <1>4, <1>5, <2>3
  <2>5. m - 1 \in Nat /\ m - 1 <= Len(events) /\ ~(m <= m - 1) /\ m \in DOMAIN events
    BY <1>3, <2>3, <2>4
  <2>6. g[m - 1] = f[m - 1]
    BY <2>2, <2>5
  <2>7. PICK rows : rows = f[m - 1]
    OBVIOUS
  <2>8. f[m] = StepRows(m, rows) /\ g[m] = StepRows(m, rows)'
    BY <1>4, <1>5, <2>3, <2>4, <2>6, <2>7
  <2>9. StepRows(m, rows)' = StepRows(m, rows)
    BY <1>3, <2>5 DEF StepRows
  <2>10. QED
    BY <2>3, <2>8, <2>9
<1>7. g[i] = f[i]
  BY <1>3, <1>6
<1>8. QED
  BY <1>1, <1>2, <1>7

(* The newest of the rows of a table up to some index, which stay.         *)
LEMMA NewestKept ==
    ASSUME NEW old, NEW new, Grown(old, new), NEW n \in 0..Len(old),
           NEW S \in SUBSET (1..n), S # {}
    PROVE  Newest(S) \in DOMAIN old /\ new[Newest(S)] = old[Newest(S)]
<1>1. n \in Nat /\ DOMAIN old = 1..Len(old) /\ \A i \in 1..n : i \in DOMAIN old
  BY DEF Grown
<1>2. Newest(S) \in 1..n
  BY <1>1, NewestOf
<1>3. QED
  BY <1>1, <1>2 DEF Grown

(* Two boundaries, before and after a step, that see the same rows.        *)
SameBoundary(b, c) ==
    /\ Within(b)
    /\ c.audit = b.audit /\ c.review = b.review /\ c.eligibility = b.eligibility
    /\ c.date = b.date
    /\ \A m \in DOMAIN memberships' :
            memberships'[m].event <= c.transfer
                <=> m \in DOMAIN memberships /\ memberships[m].event <= b.transfer

(* The reviews and the decisions of a claim, and the state rows of a       *)
(* deployment, up to some index.                                           *)
ReviewsThrough(claim, i) == {k \in 1..i : reviews[k].claim = claim}
DecisionsThrough(claim, i) == {k \in 1..i : decisions[k].claim = claim}
StateRowsThrough(d, i) == {j \in 1..i : events[j].subject = d}

(* What a boundary sees in those terms, before and after a step.           *)
LEMMA BoundaryReads ==
    ASSUME NEW b, NEW row, NEW d
    PROVE  /\ ClaimStateAt(row, b) =
                LET R == ReviewsThrough(row.profile, b.review)
                IN  IF row.state = "pending-review" /\ R # {} THEN reviews[Newest(R)].decision
                    ELSE row.state
           /\ ClaimStateAt(row, b)' =
                LET R == ReviewsThrough(row.profile, b.review)'
                IN  IF row.state = "pending-review" /\ R # {} THEN reviews'[Newest(R)].decision
                    ELSE row.state
           /\ EligibilityAt(row, b) =
                LET D == DecisionsThrough(row.profile, b.eligibility)
                IN  IF ClaimStateAt(row, b) # "approved" THEN "inactive"
                    ELSE IF D # {} /\ decisions[Newest(D)].decision = "suspend" THEN "suspended"
                    ELSE "active"
           /\ EligibilityAt(row, b)' =
                LET D == DecisionsThrough(row.profile, b.eligibility)'
                IN  IF ClaimStateAt(row, b)' # "approved" THEN "inactive"
                    ELSE IF D # {} /\ decisions'[Newest(D)].decision = "suspend" THEN "suspended"
                    ELSE "active"
           /\ StateIndex(d, b.audit) =
                LET S == StateRowsThrough(d, b.audit) IN IF S = {} THEN 0 ELSE Newest(S)
           /\ StateIndex(d, b.audit)' =
                LET S == StateRowsThrough(d, b.audit)' IN IF S = {} THEN 0 ELSE Newest(S)
<1>1. /\ ClaimStateAt(row, b) =
            LET R == ReviewsThrough(row.profile, b.review)
            IN  IF row.state = "pending-review" /\ R # {} THEN reviews[Newest(R)].decision
                ELSE row.state
      /\ ClaimStateAt(row, b)' =
            LET R == ReviewsThrough(row.profile, b.review)'
            IN  IF row.state = "pending-review" /\ R # {} THEN reviews'[Newest(R)].decision
                ELSE row.state
  BY DEF ClaimStateAt, ReviewsThrough, Newest
<1>2. /\ EligibilityAt(row, b) =
            LET D == DecisionsThrough(row.profile, b.eligibility)
            IN  IF ClaimStateAt(row, b) # "approved" THEN "inactive"
                ELSE IF D # {} /\ decisions[Newest(D)].decision = "suspend" THEN "suspended"
                ELSE "active"
      /\ EligibilityAt(row, b)' =
            LET D == DecisionsThrough(row.profile, b.eligibility)'
            IN  IF ClaimStateAt(row, b)' # "approved" THEN "inactive"
                ELSE IF D # {} /\ decisions'[Newest(D)].decision = "suspend" THEN "suspended"
                ELSE "active"
  BY DEF EligibilityAt, DecisionsThrough, Newest
<1>3. /\ StateIndex(d, b.audit) =
            LET S == StateRowsThrough(d, b.audit) IN IF S = {} THEN 0 ELSE Newest(S)
      /\ StateIndex(d, b.audit)' =
            LET S == StateRowsThrough(d, b.audit)' IN IF S = {} THEN 0 ELSE Newest(S)
  BY DEF StateIndex, StateRowsThrough, Newest
<1>4. QED
  BY <1>1, <1>2, <1>3

(* They see the same review and the same eligibility of a claim.           *)
LEMMA ClaimStateKept ==
    ASSUME OperatorGrowth, NEW b, NEW c, SameBoundary(b, c), NEW row
    PROVE  /\ ClaimStateAt(row, c)' = ClaimStateAt(row, b)
           /\ EligibilityAt(row, c)' = EligibilityAt(row, b)
<1>1. /\ Grown(reviews, reviews') /\ Grown(decisions, decisions')
      /\ b.review \in 0..Len(reviews) /\ b.eligibility \in 0..Len(decisions)
      /\ c.review = b.review /\ c.eligibility = b.eligibility
  BY DEF OperatorGrowth, SameBoundary, Within
<1>2. /\ \A k \in 1..b.review : k \in DOMAIN reviews /\ reviews'[k] = reviews[k]
      /\ \A k \in 1..b.eligibility : k \in DOMAIN decisions /\ decisions'[k] = decisions[k]
  BY <1>1, SMTT(30) DEF Grown
<1>3. PICK R : R = ReviewsThrough(row.profile, b.review)
  OBVIOUS
<1>4. PICK D : D = DecisionsThrough(row.profile, b.eligibility)
  OBVIOUS
<1>5. ReviewsThrough(row.profile, c.review)' = R /\ R \in SUBSET (1..b.review)
  BY <1>1, <1>2, <1>3 DEF ReviewsThrough
<1>6. DecisionsThrough(row.profile, c.eligibility)' = D /\ D \in SUBSET (1..b.eligibility)
  BY <1>1, <1>2, <1>4 DEF DecisionsThrough
<1>7. ASSUME R # {} PROVE reviews'[Newest(R)] = reviews[Newest(R)]
  <2>1. PICK n \in 0..Len(reviews) : n = b.review
    BY <1>1
  <2>2. Grown(reviews, reviews') /\ R \in SUBSET (1..n)
    BY <1>1, <1>5, <2>1
  <2>3. QED
    BY <1>7, <2>2, NewestKept
<1>8. ASSUME D # {} PROVE decisions'[Newest(D)] = decisions[Newest(D)]
  <2>1. PICK n \in 0..Len(decisions) : n = b.eligibility
    BY <1>1
  <2>2. Grown(decisions, decisions') /\ D \in SUBSET (1..n)
    BY <1>1, <1>6, <2>1
  <2>3. QED
    BY <1>8, <2>2, NewestKept
<1>9. ClaimStateAt(row, c)' = ClaimStateAt(row, b)
  <2>1. ClaimStateAt(row, b) =
            IF row.state = "pending-review" /\ R # {} THEN reviews[Newest(R)].decision
            ELSE row.state
    BY <1>3 DEF ClaimStateAt, ReviewsThrough
  <2>2. PICK Q : Q = ReviewsThrough(row.profile, c.review)'
    OBVIOUS
  <2>3. ClaimStateAt(row, c)' =
            IF row.state = "pending-review" /\ Q # {} THEN reviews'[Newest(Q)].decision
            ELSE row.state
    BY <2>2, BoundaryReads
  <2>4. QED
    BY <1>5, <1>7, <2>1, <2>2, <2>3
<1>10. EligibilityAt(row, c)' = EligibilityAt(row, b)
  <2>1. EligibilityAt(row, b) =
            IF ClaimStateAt(row, b) # "approved" THEN "inactive"
            ELSE IF D # {} /\ decisions[Newest(D)].decision = "suspend" THEN "suspended"
            ELSE "active"
    BY <1>4 DEF EligibilityAt, DecisionsThrough
  <2>2. PICK Q : Q = DecisionsThrough(row.profile, c.eligibility)'
    OBVIOUS
  <2>3. EligibilityAt(row, c)' =
            IF ClaimStateAt(row, c)' # "approved" THEN "inactive"
            ELSE IF Q # {} /\ decisions'[Newest(Q)].decision = "suspend" THEN "suspended"
            ELSE "active"
    BY <2>2, BoundaryReads
  <2>4. QED
    BY <1>6, <1>8, <1>9, <2>1, <2>2, <2>3
<1>11. QED
  BY <1>9, <1>10

(* And the same group of a deployment.                                     *)
LEMMA GroupKept ==
    ASSUME OperatorGrowth, ExitGrowth, NEW b, NEW c, SameBoundary(b, c), NEW d, NEW row
    PROVE  GroupAt(d, row, c)' = GroupAt(d, row, b)
<1>1. /\ Grown(memberships, memberships') /\ Grown(events, events')
      /\ b.audit \in 0..Len(events) /\ c.audit = b.audit /\ c.date = b.date
      /\ \A m \in DOMAIN memberships' :
            memberships'[m].event <= c.transfer
                <=> m \in DOMAIN memberships /\ memberships[m].event <= b.transfer
  BY DEF OperatorGrowth, ExitGrowth, SameBoundary, Within
<1>2. /\ \A j \in 1..b.audit : events'[j] = events[j]
      /\ \A m \in DOMAIN memberships : m \in DOMAIN memberships' /\ memberships'[m] = memberships[m]
      /\ Len(memberships) \in Nat /\ DOMAIN memberships = 1..Len(memberships)
  BY <1>1 DEF Grown
<1>3. StateIndex(d, c.audit)' = StateIndex(d, b.audit)
  <2>1. StateRowsThrough(d, c.audit)' = StateRowsThrough(d, b.audit)
    BY <1>1, <1>2 DEF StateRowsThrough
  <2>2. QED
    BY <2>1, BoundaryReads
<1>4. PICK M : M = TransfersAt(d, b)
  OBVIOUS
<1>5. TransfersAt(d, c)' = M
  BY <1>1, <1>2, <1>4 DEF TransfersAt
<1>6. M # {} => memberships'[Newest(M)] = memberships[Newest(M)]
  <2>1. M \in SUBSET (1..Len(memberships)) /\ Len(memberships) \in 0..Len(memberships)
    BY <1>2, <1>4 DEF TransfersAt
  <2>2. QED
    BY <1>1, <2>1, NewestKept
<1>7. GroupAt(d, row, b) =
        IF /\ M # {} /\ memberships[Newest(M)].claim = row.profile
           /\ memberships[Newest(M)].through >= StateIndex(d, b.audit)
        THEN memberships[Newest(M)].to ELSE row.effective
  BY <1>4 DEF GroupAt
<1>8. \A T : T = TransfersAt(d, c)' => Newest(TransfersAt(d, c))' = Newest(T)
  BY DEF Newest
<1>9. GroupAt(d, row, c)' =
        IF /\ M # {} /\ memberships'[Newest(M)].claim = row.profile
           /\ memberships'[Newest(M)].through >= StateIndex(d, c.audit)'
        THEN memberships'[Newest(M)].to ELSE row.effective
  BY <1>5, <1>8 DEF GroupAt
<1>10. QED
  BY <1>3, <1>6, <1>7, <1>9

(* And so the same members of a group.                                     *)
LEMMA MembersKept ==
    ASSUME OperatorGrowth, ExitGrowth, NEW group, NEW b, NEW c, SameBoundary(b, c)
    PROVE  MembersAt(group, c)' = MembersAt(group, b)
<1>1. PICK rows : rows = NetworkAt[b.audit]
  OBVIOUS
<1>2. NetworkAt[c.audit]' = rows
  <2>1. PICK i : i = b.audit
    OBVIOUS
  <2>2. i \in 0..Len(events) /\ c.audit = i /\ Grown(events, events')
    BY <2>1 DEF SameBoundary, Within, OperatorGrowth
  <2>3. NetworkAt[i]' = NetworkAt[i]
    BY <2>2, NetworkKept
  <2>4. QED
    BY <1>1, <2>1, <2>2, <2>3
<1>3. \A d \in Deployments :
        /\ GroupAt(d, rows[d], c)' = GroupAt(d, rows[d], b)
        /\ ClaimStateAt(rows[d], c)' = ClaimStateAt(rows[d], b)
        /\ EligibilityAt(rows[d], c)' = EligibilityAt(rows[d], b)
  BY ClaimStateKept, GroupKept
<1>4. QED
  BY <1>1, <1>2, <1>3 DEF MembersAt

-----------------------------------------------------------------------------
(* What is read at a past time.                                            *)

(* A membership a step appends belongs to the new transfer event.          *)
NewExitRows ==
    \A m \in DOMAIN memberships' : m \notin DOMAIN memberships =>
        memberships'[m].event = Len(transferEvents) + 1

(* Every step appends such rows.                                           *)
LEMMA NewRowsAre ==
    ASSUME TypeOK, [Next]_vars
    PROVE  NewExitRows
<1>1. CASE UNCHANGED memberships
  BY <1>1 DEF NewExitRows
<1>2. ASSUME NEW x, NEW at \in ClockReads, Completed(x, at) PROVE NewExitRows
  <2>1. Membership(x, at).event = Len(transferEvents) + 1
    BY DEF Membership
  <2>2. QED
    BY <1>2, <2>1 DEF Completed, Extended, NewExitRows
<1>3. QED
  BY <1>1, <1>2, ExitCases
     DEF exitVars, Froze, ReviewedExit, Prepared, Decided, Created, Verified

(* Rows later than a time do not count at it.                              *)
LEMMA ThroughIndexKept ==
    ASSUME NEW old, NEW new, Grown(old, new), NEW t,
           \A i \in DOMAIN new : i \notin DOMAIN old => ~(new[i].at <= t)
    PROVE  ThroughIndex(new, t) = ThroughIndex(old, t)
<1>1. {i \in DOMAIN new : new[i].at <= t} = {i \in DOMAIN old : old[i].at <= t}
  BY DEF Grown
<1>2. QED
  BY <1>1 DEF ThroughIndex

(* The times of the rows, before and after a step.                         *)
RowTimes ==
    /\ \A i \in DOMAIN events : events[i].at \in Nat
    /\ \A i \in DOMAIN reviews : reviews[i].at \in Nat
    /\ \A i \in DOMAIN decisions : decisions[i].at \in Nat
    /\ \A i \in DOMAIN transferEvents : transferEvents[i].at \in Nat

LEMMA RowTimesAre == TypeOK => RowTimes
<1> SUFFICES ASSUME TypeOK PROVE RowTimes
  OBVIOUS
<1>1. /\ \A i \in DOMAIN events : events[i].at \in Nat
      /\ \A i \in DOMAIN reviews : reviews[i].at \in Nat
      /\ \A i \in DOMAIN decisions : decisions[i].at \in Nat
  BY TableTypes, ReadsAreTimes DEF TypeOK, EventRows, ReviewRows, DecisionRows
<1>2. \A i \in DOMAIN transferEvents : transferEvents[i].at \in Nat
  BY ExitTableTypes, ReadsAreTimes DEF TransferEventRows
<1>3. QED
  BY <1>1, <1>2 DEF RowTimes

LEMMA NextRowTimes == TypeOK' => RowTimes'
BY RowTimesAre, PTL

(* The boundary of a time that no new row is late for is final.            *)
LEMMA BoundaryFinal ==
    ASSUME TablesInv, [Next]_vars, NEW t \in Nat, NothingLate(t), NEW b, b = BoundaryAt(t)
    PROVE  BoundaryAt(t)' = b /\ SameBoundary(b, b)
<1>1. /\ TypeOK /\ TypeOK' /\ OperatorGrowth /\ ExitGrowth /\ NewExitRows
  BY TablesStep, NewRowsAre DEF TablesInv
<1>2. /\ \A i \in DOMAIN events' : events'[i].at \in Nat
      /\ \A i \in DOMAIN reviews' : reviews'[i].at \in Nat
      /\ \A i \in DOMAIN decisions' : decisions'[i].at \in Nat
      /\ \A i \in DOMAIN transferEvents' : transferEvents'[i].at \in Nat
  BY <1>1, NextRowTimes DEF RowTimes
<1>3. /\ \A i \in DOMAIN events' : i \notin DOMAIN events => ~(events'[i].at <= t)
      /\ \A i \in DOMAIN reviews' : i \notin DOMAIN reviews => ~(reviews'[i].at <= t)
      /\ \A i \in DOMAIN decisions' : i \notin DOMAIN decisions => ~(decisions'[i].at <= t)
      /\ \A i \in DOMAIN transferEvents' : i \notin DOMAIN transferEvents =>
            ~(transferEvents'[i].at <= t)
  BY <1>2 DEF NothingLate
<1>4. /\ ThroughIndex(events', t) = ThroughIndex(events, t)
      /\ ThroughIndex(reviews', t) = ThroughIndex(reviews, t)
      /\ ThroughIndex(decisions', t) = ThroughIndex(decisions, t)
  BY <1>1, <1>3, ThroughIndexKept DEF OperatorGrowth
<1>5. ThroughIndex(transferEvents', t) = ThroughIndex(transferEvents, t)
  BY <1>1, <1>3, ThroughIndexKept DEF ExitGrowth
<1>6. BoundaryAt(t)' = b
  BY <1>4, <1>5 DEF BoundaryAt, ThroughIndex
<1>7. Within(b)
  BY <1>1, BoundaryWithin
<1>8. ASSUME NEW m \in DOMAIN memberships'
      PROVE  memberships'[m].event <= b.transfer
                <=> m \in DOMAIN memberships /\ memberships[m].event <= b.transfer
  <2>1. CASE m \in DOMAIN memberships
    BY <1>1, <2>1 DEF ExitGrowth, Grown
  <2>2. CASE m \notin DOMAIN memberships
    <3>1. memberships'[m].event = Len(transferEvents) + 1
      BY <1>1, <1>8, <2>2 DEF NewExitRows
    <3>2. b.transfer \in 0..Len(transferEvents) /\ Len(transferEvents) \in Nat
      BY <1>1, <1>7, ExitTableTypes DEF Within
    <3>3. QED
      BY <2>2, <3>1, <3>2
  <2>3. QED
    BY <2>1, <2>2
<1>9. QED
  BY <1>6, <1>7, <1>8 DEF SameBoundary

(* Freezing a review again gives the record it gave then.                  *)
LEMMA RecordFinal ==
    ASSUME TablesInv, [Next]_vars, NEW s, NEW at, NEW date \in Nat,
           NothingLate(LastSecond(date))
    PROVE  FrozenRecord(s, date, at)' = FrozenRecord(s, date, at)
<1>1. PICK t \in Nat : t = LastSecond(date)
  BY DayFacts
<1>2. PICK b : b = BoundaryAt(t)
  OBVIOUS
<1>3. BoundaryAt(t)' = b /\ SameBoundary(b, b)
  BY <1>1, <1>2, BoundaryFinal
<1>4. OperatorGrowth /\ ExitGrowth
  BY TablesStep
<1>5. MembersAt(s.group, b)' = MembersAt(s.group, b)
  BY <1>3, <1>4, MembersKept
<1>6. /\ FrozenRecord(s, date, at) =
            [target |-> s.deployment, claim |-> s.claim, group |-> s.group, date |-> date,
             audit |-> b.audit, review |-> b.review, eligibility |-> b.eligibility,
             members |-> MembersAt(s.group, b), at |-> at]
  BY <1>1, <1>2 DEF FrozenRecord
<1>7. FrozenRecord(s, date, at)' =
            [target |-> s.deployment, claim |-> s.claim, group |-> s.group, date |-> date,
             audit |-> b.audit, review |-> b.review, eligibility |-> b.eligibility,
             members |-> MembersAt(s.group, b)', at |-> at]
  BY <1>1, <1>3 DEF FrozenRecord
<1>8. QED
  BY <1>5, <1>6, <1>7

(* Reproduces for a record.                                                *)
Reproduced(r) ==
    \E s \in submissions :
        /\ s.deployment = r.target
        /\ s.claim = r.claim
        /\ s.group = r.group
        /\ r = FrozenRecord(s, r.date, r.at)
        /\ TargetEligible(r)

(* What ReviewsStayReproduced says of a step.                              *)
StaysReproduced ==
    \A v \in DOMAIN exitReviews' :
        /\ v \in DOMAIN exitReviews => Reproduces(v)
        /\ NothingLate(LastSecond(exitReviews'[v].date))
        => Reproduces(v)'

(* Every step leaves a frozen review one that freezing it again gives,     *)
(* unless it adds a row that is late for the record date.                  *)
LEMMA ReproducedStep ==
    ASSUME TablesInv, [Next]_vars
    PROVE  StaysReproduced
<1>1. TypeOK /\ OperatorGrowth /\ ExitGrowth
  BY TablesStep DEF TablesInv
<1>2. submissions \subseteq submissions' /\ Grown(exitReviews, exitReviews')
  BY <1>1 DEF OperatorGrowth, ExitGrowth
<1>3. \A r : TargetEligible(r)' <=> TargetEligible(r)
  BY DEF TargetEligible
<1>4. Day(MaxTime) \in Nat /\ Day(clock) \in Nat
  <2>1. MaxTime \in Times /\ clock \in Times
    BY <1>1, TimeAssumption DEF TypeOK, OperatorTypeOK, Times
  <2>2. QED
    BY <2>1, DayFacts
<1>5. ASSUME NEW v \in DOMAIN exitReviews, Reproduces(v),
             NothingLate(LastSecond(exitReviews'[v].date))
      PROVE  Reproduces(v)'
  <2>1. PICK r : r = exitReviews[v]
    OBVIOUS
  <2>2. exitReviews'[v] = r
    BY <1>2, <2>1 DEF Grown
  <2>3. Reproduced(r)
    BY <1>5, <2>1 DEF Reproduces, Reproduced
  <2>4. r.date \in Nat /\ NothingLate(LastSecond(r.date))
    BY <1>1, <1>4, <1>5, <2>1, <2>2, ExitTableTypes DEF ExitReviewRows
  <2>5. PICK s \in submissions :
            /\ s.deployment = r.target /\ s.claim = r.claim /\ s.group = r.group
            /\ r = FrozenRecord(s, r.date, r.at) /\ TargetEligible(r)
    BY <2>3 DEF Reproduced
  <2>6. FrozenRecord(s, r.date, r.at)' = FrozenRecord(s, r.date, r.at)
    BY <2>4, RecordFinal
  <2>7. s \in submissions' /\ TargetEligible(r)'
    BY <1>2, <1>3, <2>5
  <2>8. Reproduced(r)'
    BY <2>5, <2>6, <2>7 DEF Reproduced
  <2>9. QED
    BY <2>2, <2>8 DEF Reproduced, Reproduces
<1>6. CASE UNCHANGED exitReviews
  BY <1>5, <1>6 DEF StaysReproduced
<1>7. ASSUME NEW s \in submissions, NEW date \in 1..Day(clock), NEW at \in ClockReads,
             Froze(s, date, at)
      PROVE  StaysReproduced
  <2>1. PICK r : r = FrozenRecord(s, date, at)
    OBVIOUS
  <2>2. PICK n : n = Len(exitReviews) + 1
    OBVIOUS
  <2>3. /\ TargetEligible(r) /\ exitReviews'[n] = r
        /\ \A v \in DOMAIN exitReviews' : v \in DOMAIN exitReviews \/ v = n
    BY <1>7, <2>1, <2>2 DEF Froze, FreezeExitReview, Extended
  <2>4. /\ r.target = s.deployment /\ r.claim = s.claim /\ r.group = s.group
        /\ r.date = date /\ r.at = at
    BY <2>1 DEF FrozenRecord
  <2>5. ASSUME NothingLate(LastSecond(r.date)) PROVE Reproduces(n)'
    <3>1. date \in Nat
      BY <1>4
    <3>2. FrozenRecord(s, date, at)' = r
      BY <2>1, <2>4, <2>5, <3>1, RecordFinal
    <3>3. Reproduced(r)'
      BY <1>2, <1>3, <2>3, <2>4, <3>2 DEF Reproduced
    <3>4. QED
      BY <2>3, <3>3 DEF Reproduced, Reproduces
  <2>6. QED
    BY <1>5, <2>3, <2>5 DEF StaysReproduced
<1>8. QED
  BY <1>1, <1>6, <1>7, ExitCases
     DEF exitVars, ReviewedExit, Prepared, Decided, Completed, Created, Verified

(* A frozen review is reproduced from the tables as they are, from its     *)
(* freeze on, as long as nothing accepted by its record date commits       *)
(* late: operators may claim again, be reviewed, suspended, transferred or *)
(* withdraw afterwards, and other commands may lag as they like.           *)
THEOREM ReviewsStayReproducedHolds == Spec => ReviewsStayReproduced
<1>1. RailsInv /\ [Next]_vars => StaysReproduced
  BY ReproducedStep DEF RailsInv
<1>2. QED
  BY <1>1, RailsInit, RailsStep, PTL DEF Spec, ReviewsStayReproduced, StaysReproduced
=============================================================================
