SPECIFICATION Spec
CONSTANTS
    Tasks = {t1}
    Clicks = {k1, k2}
    Life = 2
    Margin = 1
    MaxGrants = 3
    Mishaps <- AllSlips
    MaxSlips = 1
SYMMETRY Symmetric
INVARIANTS
    TypeOK
    TokenFresh
    LinkKept
    UnlinkHeld
