SPECIFICATION Spec
CONSTANTS
    MaxVersion = 4
    Nobody = Nobody
INVARIANT NeverWedged
