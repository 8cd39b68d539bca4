\* Two threads, two routes; routes for unknown methods or none.
SPECIFICATION RouterSpec
CONSTANTS
    Alphabet = {"a", "b", "/"}
    MaxPath = 4
    Templates <- RouteTemplates
    Method = {"GET", "INVALID"}
    Asked = {"GET", "BREW"}
    Asks <- RequestPaths
    Thread = {w1, w2}
    MaxRoutes = 2
INVARIANTS
    RouterTypeOK
    FirstRegisteredAnswers
    OnlyUnknownMethodsRace
    ParametersGivePath
