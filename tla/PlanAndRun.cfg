SPECIFICATION Spec
CONSTANTS
    r1 = r1
    r2 = r2
    r3 = r3
    Rows = {r1, r2, r3}
    Present <- TwoRows
    MaxCommit = 4
INVARIANTS AnswerExact CandidatesCover PostingsStay
CHECK_DEADLOCK FALSE
