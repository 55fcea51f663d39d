\* Two asks at a time.
CONSTANTS
    spelling = spelling
    respelling = respelling
    squadQuestion = squadQuestion
    epicQuestion = epicQuestion
    Questions = {spelling, respelling, epicQuestion}
    Epics = {epicQuestion}
    Alias <- AliasOf
    Name <- NameOf
    Entities = {e1, e2}
    Bundles = {b1, b2, b3}
    Requests = {q1, q2}
    Models = 2
    None = None
SPECIFICATION Spec
SYMMETRY Interchangeable
INVARIANTS
    TypeOK
    TopicsKeepAnAlias
    SameAliasSameTopic
    AnswersAreLinked
