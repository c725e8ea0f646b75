SPECIFICATION Spec
CONSTANTS
    Events = {1, 2, 3}
    Calendars <- MCCalendars
    TodoLists <- MCTodoLists
    Span <- MCSpan
    Views <- MCViews
    Bounds <- MCBounds
    Filters <- MCFilters
    Shows <- MCShows
    LLONG_MIN <- MCMin
    LLONG_MAX <- MCMax
    Todos = {11, 12, 13, 14}
    Keys = {0, 1, 2}
INVARIANT NonexistentCancels
