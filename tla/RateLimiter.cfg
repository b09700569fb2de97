SPECIFICATION Spec
CONSTANTS
    login = login  setup = setup
    Bucket = {login, setup}
    Second = 3
    Burst = 2
    PerSecond = 2
    None = None
    MaxTime = 6
SYMMETRY Symmetry
INVARIANTS TypeOK WithinRate
PROPERTY RefusesOnlyOverRate
