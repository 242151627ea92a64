\* A buyer of two versions downloads one of them.
CONSTANTS
    Buyers = {alice}
    Engineers = {layla}
    Owner = owner
    Requests = {r1}
    MaxVersion = 2
    MaxEvents = 1
SPECIFICATION Spec
INVARIANTS
    ContributorsAreCredited
