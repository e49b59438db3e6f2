SPECIFICATION Spec
CONSTANTS
    Sessions = {s1}
    s1 = s1
    Nobody = Nobody
INVARIANT ClosedOnce
