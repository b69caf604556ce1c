CONSTANTS
    Words = {w1, w2}
    Targets = {"aarch64"}
    MaxPublishes = 3
SPECIFICATION Spec
INVARIANTS TornNeverReturned
