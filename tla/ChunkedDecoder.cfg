\* Bodies of up to seven units in pieces of up to four; sizes of two digits.
SPECIFICATION Spec
CONSTANTS
    HexDigits = 2
    Unit = {"0", "1", "2", "x", "CR", "LF"}
    MaxPiece = 4
    MaxStream = 7
INVARIANTS
    DecodesWholeStream
    UnreadIntact
