\* Three requests and a cap that shrinks from two to one are enough.
CONSTANTS
    Reqs = {r1, r2, r3}
    Caps = {1, 2}
SPECIFICATION Spec
PROPERTY AdmitsWithinCap
