----------------------------- MODULE MCPathToRegex -----------------------------
(***************************************************************************)
(* Templates of up to MaxTemplate pieces.  No plain character of theirs      *)
(* means anything in a regex: the dot, which is put into the regex as it is,  *)
(* would match any character.                                               *)
(***************************************************************************)
EXTENDS PathToRegex

CONSTANT MaxTemplate   \* bound: the number of pieces of a template

OfPieces(pieces) ==
    {t \in UNION {[1 .. n -> pieces] : n \in 0 .. MaxTemplate} : WellCut(t)}

\* A letter, a slash, an escaped slash, keys with every modifier, "(a)" and "*".
CommonTemplates ==
    OfPieces({Plain("a"), Plain("/"), Escaped("/"),
              Key("id", "segment", ""), Key("id", "segment", "?"),
              Key("nr", "segment", "+"), Key("nr", "segment", "*"),
              Key("", "a", ""), Key("", "any", "")})

\* Escaped parentheses, and two keys.
ParenthesisTemplates ==
    OfPieces({Plain("a"), Plain("/"), Escaped("("), Escaped(")"),
              Key("id", "segment", ""), Key("", "a", "?")})
=============================================================================
