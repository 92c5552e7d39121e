\* One run of the sandbox, with every call failing or losing its answer.
CONSTANTS
    Polls = 2
    Posts = 2
SPECIFICATION FairSpec
INVARIANTS TypeOK CleanMeansGone AllowedMeansRan LeftoverExplained
PROPERTIES RunEnds
CHECK_DEADLOCK FALSE
