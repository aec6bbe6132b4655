SPECIFICATION FairSpec
CONSTANT MaxPublications = 2
INVARIANTS VerdictsAreTrue ReleasedInOrder
PROPERTIES PublishReturns StopsInTheEnd
CHECK_DEADLOCK FALSE
