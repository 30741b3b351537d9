\* Anything: two tasks, two grants, two principals, a clock.  Chains: three tasks.
CONSTANTS
  Principals = {1, 2}
  TaskIds = {1, 2, 3}
  GrantIds = {1, 2, 3}
  Statements = {s1}
  EmptyStatement = empty
  UnattendedMax = 1
  Deadlines = {1}
  MaxNow = 1
  MaxSpent = 1
  MaxJournal = 10
  MaxAnything = 5
  None = None
SPECIFICATION MCSpec
INVARIANTS
  MemoryIsReplay
  OneLiveTask
  NoAuthorityWithoutTask
  AnswersAreDurable
  HashIsOriginal
  ChainsEndAtTheirRoot
CHECK_DEADLOCK FALSE
