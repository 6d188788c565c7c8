SPECIFICATION FairSpec
CONSTANTS
  db = db
  web = web
  app = app
  aux = aux
  NoJail = NoJail
  Jails = {db, web, app}
  Conf <- Order3
  Deps <- NoEdges
  Under <- NoInside
  BadConf = {}
  Commands <- OneQuiet
  ParaLimit = 1
  Given <- PlainLines
INVARIANTS Settled
CHECK_DEADLOCK FALSE
