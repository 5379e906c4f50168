SPECIFICATION Spec
CONSTANTS
  Once = TRUE
  Replies <- MCReplies
  Budget = 2
  MaxChanges = 2
INVARIANTS RefusalComesFirst DefaultIsRight 
 
CHECK_DEADLOCK FALSE
