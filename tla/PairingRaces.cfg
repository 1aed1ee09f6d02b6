\* Two learners whose devices can take each other's place, two requests, two codes
\* that can expire, a fault.
SPECIFICATION Spec
CONSTANTS
    laptop = laptop
    phone = phone
    ada = ada
    bob = bob
    Learners = {ada, bob}
    Devices = {laptop, phone}
    Home <- MCHome
    Requests = {r1, r2}
    Ttl = 1
    LastSecond = 2
    MaxCodes = 2
    MaxFaults = 1
    None = None
SYMMETRY Symmetry
INVARIANTS TypeOK SingleUse OneDevice SignedInSomewhere
