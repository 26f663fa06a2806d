SPECIFICATION Spec
CONSTANTS
    Names = {a, b, c}
    Root = root
    Nested = {nested}
    Long = {long}
    Readers = {r1, r2}
    Writers = {w1}
    Seekers = {s1}
SYMMETRY Symmetry
INVARIANT ReadStopsAtTheEnd
