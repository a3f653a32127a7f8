CONSTANTS
    Requests = {r1}
    Queries <- AllQueries
    RuleOrders <- EachFirst
    Earlier <- EarlierRights
    MaxRuns = 2
SPECIFICATION Spec
INVARIANTS
    CompleteMeansDeclared
    VisitedLiteralsStayOutOfTheLog
PROPERTIES
    SecretsStayUnread
    SchemaStaysIntact
    EndsInDocumentedLayer
CHECK_DEADLOCK FALSE
