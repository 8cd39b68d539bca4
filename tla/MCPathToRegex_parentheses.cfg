\* Templates with escaped parentheses.
SPECIFICATION Spec
CONSTANTS
    Alphabet = {"a", "/"}
    MaxPath = 3
    MaxTemplate = 4
    Templates <- ParenthesisTemplates
INVARIANT
    ValuesFollowKeys
