\* One ask at a time: questions about the same squad exclude each other.
CONSTANTS
    spelling = spelling
    respelling = respelling
    squadQuestion = squadQuestion
    epicQuestion = epicQuestion
    Questions = {spelling, squadQuestion}
    Epics = {}
    Alias <- AliasOf
    Name <- NameOf
    Entities = {e1}
    Bundles = {b1, b2}
    Requests = {q1}
    Models = 2
    None = None
SPECIFICATION Spec
INVARIANT
    EveryQuestionResolves
