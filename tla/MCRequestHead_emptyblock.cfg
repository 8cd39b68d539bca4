\* The empty line that ends a block without headers, cut in two.
SPECIFICATION Spec
CONSTANTS
    MaxHeaders = 2
    Unit = {"CR", "LF", "SP", "COLON", "TOK", "VER", "CL", "NUM", "CTL"}
    FirstRead <- EmptyBlock
    MaxMore = 2
INVARIANT
    CompleteIsReported
