\* FIRST_3 of lr-3, and build() of the LR(2) grammar at Lookahead 1 and 2.
SPECIFICATION Spec
INVARIANTS
    TypeOK
    FirstKSound
    FixpointReached
    BuiltIsCanonical
    ActionsAreCanonical
    ConflictIffNotLRk
PROPERTIES
    Terminates
\* build_kfirst returns when its queue is empty; build() returns or throws.
CHECK_DEADLOCK FALSE
