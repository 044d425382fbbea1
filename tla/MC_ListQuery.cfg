\* Every list against every query: the pagination and windowing properties.
CONSTANTS
    DefaultLimit = 2
    MaxNum = 1
    Lists <- MCLists
    Queries <- MCQueries
SPECIFICATION Spec
INVARIANT PaginationBounds
INVARIANT PagingAgrees
INVARIANT TypeOK
