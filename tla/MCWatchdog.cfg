\* Two launchers and one /quit, one crash and one failed spawn.
CONSTANTS
  l1 = l1
  l2 = l2
  q1 = q1
  Launchers = {l1, l2}
  Quitters = {q1}
  NoOne = NoOne
  MaxCrashes = 1
  MaxFailures = 1
SPECIFICATION FairSpec
\* Every launcher and every /quit may have ended.
CHECK_DEADLOCK FALSE
INVARIANTS
  TypeOK
  OneWorker
  QuitOnlyWhenAsked
PROPERTIES
  QuitHeard
  PipeServedAgain
