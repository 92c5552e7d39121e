\* Two callers, three bearers, four matrices; no call begins at the bounds.
CONSTANTS
    Callers = {c1, c2}
    Areas = {"capital"}
    Actions = {x1, x2}
    Bearers <- MCBearers
    Matrices <- MCMatrices
    Replies <- MCReplies
    None = None
    Stranger = stranger
    cfo = cfo
    cro = cro
    clerk = clerk
    MaxIssued = 2
    MaxTrail = 3
SYMMETRY Interchangeable
SPECIFICATION Spec
INVARIANTS TypeOK ApprovedByAccountable ProvisionalUntilSigned AnswersAreRecorded JudgeIsMarked
CHECK_DEADLOCK FALSE
