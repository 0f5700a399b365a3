---------------------------- MODULE MCSettlement ----------------------------
(* Instances of the settlements for TLC.                                   *)
EXTENDS SettlementAudit, MCExitLifecycle

CONSTANTS
    MaxTransferSteps, \* bound on transfer events, where there are settlements
    MaxExits          \* bound on exit events, where there are settlements

Row(type, d, cur, value) ==
    [type |-> type, deployment |-> d, month |-> FirstMonth, currency |-> cur,
     value |-> value, at |-> 2]

(* On the second day, the first of a month, both operators have reported   *)
(* the same weight for the month before and one its revenue.               *)
InitReported ==
    /\ clock = 2
    /\ TwoOperators
    /\ \E cur \in Currencies, amount \in Amounts :
        LET weight == CHOOSE w \in Weights : \A x \in Weights : w <= x
        IN  ledger = <<Row("weight", events[1].deployment, "", weight),
                       Row("weight", events[2].deployment, "", weight),
                       Row("revenue", events[1].deployment, cur, amount)>>
    /\ seals = <<>>
    /\ settlements = <<>>
    /\ frozen = <<>>
    /\ payouts = <<>>

SameReport(e, f) ==
    e.type = f.type /\ e.type # "settlement" /\ e.deployment = f.deployment /\ e.month = f.month

(* Nobody claims, withdraws or joins another group any more, and no        *)
(* contractor is paid.  A member is suspended or transferred, not both.  A *)
(* correction changes what it corrects.                                    *)
NextReported ==
    /\ ledger # <<>>
    /\ SettlementNext
    /\ UNCHANGED <<events, nonces>>
    /\ Len(exitEvents') <= MaxExits
    /\ Len(transferEvents') <= MaxTransferSteps
    /\ decisions' = <<>> \/ transferEvents' = <<>>
    /\ \A k \in DOMAIN exitEvents' : exitEvents'[k].action \in {"freeze", "verify"}
    /\ \A k \in DOMAIN transferEvents' :
            transferEvents'[k].action \in {"prepare", "approve", "complete"}
    /\ \A a \in DOMAIN allocations' : allocations'[a].beneficiary \notin Contractors
    /\ \A i \in DOMAIN ledger' \ DOMAIN ledger : \A j \in DOMAIN ledger :
            SameReport(ledger'[i], ledger[j]) => ledger'[i].value # ledger[j].value

SpecReported == InitReported /\ [][NextReported]_<<vars, settlementVars>>

(* The exit rails alone, with nothing in the ledger, and with it.          *)
InitEither == (InitTwoOperators /\ SettlementInit) \/ InitReported

NextEither ==
    \/ ledger = <<>> /\ NextFewTurns /\ UNCHANGED settlementVars
    \/ NextReported

SpecEither == InitEither /\ [][NextEither]_<<vars, settlementVars>>
=============================================================================
