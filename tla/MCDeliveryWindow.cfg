\* A buyer, an engineer and the owner download while versions come and go.
CONSTANTS
    Buyers = {alice}
    Engineers = {layla}
    Owner = owner
    Requests = {r1}
    MaxVersion = 2
    MaxEvents = 2
SPECIFICATION Spec
INVARIANTS
    TypeOK
    TrailIsWhole
    OneGrantIsCounted
    NothingUnbought
PROPERTIES
    CountedIsThere
