SPECIFICATION Spec
CONSTANTS
    Handlers = {h1}
    Auditors = {worker}
    Probes = {}
    MaxForeign = 0
INVARIANT
    AlarmsAreReal
