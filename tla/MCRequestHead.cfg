\* All continuations by up to four units, for every entry.
SPECIFICATION Spec
CONSTANTS
    MaxHeaders = 2
    Unit = {"CR", "LF", "SP", "COLON", "TOK", "VER", "CL", "NUM", "CTL"}
    FirstRead <- Beginnings
    MaxMore = 4
INVARIANTS
    SplitIndependent
    VerdictStands
    BodyFollowsFirstLength
