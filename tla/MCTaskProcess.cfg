CONSTANTS
  main = main
  a = a
  b = b
  x = x
  anna = anna
  bert = bert
  None = None
  Main = main
  Template <- MCTemplate
  Added = {x}
  Users = {anna, bert}
  Issuer = anna
  Responsible <- MCResponsible
  HandedOver = {a}
  Category <- MCCategory
SPECIFICATION Spec
INVARIANTS TypeOK NoneLeftBehind PlannedIsRunning RevokedWhenClosed
PROPERTIES RolesAreKept OnlySkippedReopens RefinesSequence
