SPECIFICATION Spec

CONSTANTS
  Links = {l1, l2, l3}
  Tasks = {t1, t2}
  Main = Main
  NoLink = NoLink
  NoTask = NoTask
  NQueries = 2

PROPERTY LossIsFollowedByAttempt
