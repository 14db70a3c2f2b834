\* Four requests and the caps 0 (unlimited), 1, 2, 3: a cap below, at and above
\* the number of requests in flight, shrinks and growths over held slots.
CONSTANTS
    Reqs = {r1, r2, r3, r4}
    Caps = {0, 1, 2, 3}
SPECIFICATION FairSpec
INVARIANTS TypeOK NoLostWakeup WorkConserving NoLostSlot
PROPERTIES AdmittedInOrder SlotsNotMade NoStarvation ImplementsLine
