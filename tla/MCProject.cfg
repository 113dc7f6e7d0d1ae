SPECIFICATION ProjectSpec
CONSTANTS
  a = a b = b g1 = g1 g2 = g2 sa = sa sa2 = sa2 main = main inc = inc gen = gen extra = extra r1 = r1
  None = None
  Projects <- MCProjects
  Comps = {a, b}
  Groups = {g1, g2}
  Specs = {sa, sa2}
  Keys = {r1}
  GroupOrder <- MCGroupOrder
  NameOf <- MCNameOf
  MaxSelects = 2
  Commands <- MCCommands
  Refused = Refused
CHECK_DEADLOCK FALSE
INVARIANTS
  PinHasItsFile
  SelectionIsStable
  ValidMeansRunnable
  QueryIsExact
  ListAgreesWithBuild
  ReportIsExact
