\* All templates of up to four pieces, against paths of up to four characters.
SPECIFICATION Spec
CONSTANTS
    Alphabet = {"a", "/"}
    MaxPath = 4
    MaxTemplate = 4
    Templates <- CommonTemplates
INVARIANTS
    RegexMeansTemplate
    ValuesFollowKeys
