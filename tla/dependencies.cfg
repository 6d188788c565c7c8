SPECIFICATION FairSpec
CONSTANTS
  db = db
  web = web
  app = app
  aux = aux
  NoJail = NoJail
  Jails = {db, web, app, aux}
  Conf <- Order4
  Deps <- WideDeps
  Under <- TreeInside
  BadConf = {}
  Commands <- AllCommands
  ParaLimit <- Unlimited
  Given <- AllLines
INVARIANTS CountsUnseen StatusTellsFailure FailureSpreads RolledBack NoneHalfStarted Settled
PROPERTIES InOrder CreatedInOrder  RemovedInOrder Terminates
CHECK_DEADLOCK FALSE
