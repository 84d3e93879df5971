SPECIFICATION Spec
CONSTANTS
    Workers = {w1}
    Resources = {r1, r2}
    Alone = {}
    MaxVersion = 0
    Nobody = Nobody
INVARIANTS TablesOwned
CHECK_DEADLOCK FALSE
