SPECIFICATION Spec
CONSTANTS
    CommandLines <- MCCommandLines
    Requests <- MCRequests
    Mentions <- MCMentions
CHECK_DEADLOCK FALSE
INVARIANTS TypeOK FlagsFitMatcher EmptyMatcherHasAReason SetsAreFaithful
