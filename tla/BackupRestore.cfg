\* Three archives: a restore of one while a second is made, the third being the
\* pre-restore backup, or two restores, the second after a broken first.
SPECIFICATION Spec
CONSTANTS
  c1 = c1
  Commits = {c1}
  Makers = {"cycle", "restore"}
  MaxBackups = 3
  DailyKeep = 1
  HandlerFails = TRUE
  None = None
INVARIANTS ReplacedDataIsKept ArchivesAreWhole ServedDataIsWhole UndoneOrDone
CHECK_DEADLOCK FALSE
