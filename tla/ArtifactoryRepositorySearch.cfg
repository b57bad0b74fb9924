\* The search input of one row: refinement of SearchSuggestions.
\* A settled input with no user or parent left to act stops: no deadlock check.
CHECK_DEADLOCK FALSE
CONSTANTS
    Absent = Absent
    MaxEdits = 6
    Types <- MCTypes
    Queries <- MCQueries
    Trim <- MCTrim
    Results <- MCResults
SPECIFICATION Spec
INVARIANT TypeOK
PROPERTY MenuFollowsQuery

