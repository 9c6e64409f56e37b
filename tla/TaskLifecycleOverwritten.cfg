SPECIFICATION Spec
CONSTANTS
  Clients = {c1, c2}
  Project = project
  Subtasks = {sub}
  NoMatch = NoMatch
  MaxRequests = 3
  StartStatuses = {"in_progress"}
SYMMETRY MCSymmetry
PROPERTY NoEditIsOverwritten
\* The budget of requests ends.
CHECK_DEADLOCK FALSE
