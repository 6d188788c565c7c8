SPECIFICATION FairSpec
CONSTANTS
  db = db
  web = web
  app = app
  aux = aux
  NoJail = NoJail
  Jails = {db, web, app}
  Conf <- Order3
  Deps <- TreeDeps
  Under <- TreeInside
  BadConf = {}
  Commands <- PlainCommands
  ParaLimit <- Unlimited
  Given <- RestartLines
INVARIANTS CountsUnseen
CHECK_DEADLOCK FALSE
