SPECIFICATION Spec
CONSTANTS
    MaxSize = 11
    MaxDamage = 3
CHECK_DEADLOCK FALSE
INVARIANTS
    ServedIndexSound
    BackfillSuffices
    ProofsVerify
    ForksRefused
