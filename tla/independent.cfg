SPECIFICATION FairSpec
CONSTANTS
  db = db
  web = web
  app = app
  aux = aux
  NoJail = NoJail
  Jails = {db, web, app, aux}
  Conf <- Order4
  Deps <- NoEdges
  Under <- NoInside
  BadConf = {}
  Commands <- PlainCommands
  ParaLimit = 2
  Given <- FreeLines
INVARIANTS TypeOK SlotsBalance Settled StatusTellsFailure
PROPERTIES OnlyTunedStop FailedIsFinal
CHECK_DEADLOCK FALSE
