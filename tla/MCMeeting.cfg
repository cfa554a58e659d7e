CONSTANTS
  m1 = m1  m2 = m2  p = p  t = t  r1 = r1  r2 = r2
  Meetings = {m1, m2}
  Proposals = {p}
  Texts = {t}
  Order <- MCOrder
  Topics <- MCTopics
  Requests = {r1, r2}
  None = None
SPECIFICATION Spec
CHECK_DEADLOCK FALSE
INVARIANTS TypeOK NumbersAreUnique ScheduledOnce AgendaIsSound
PROPERTIES NumbersAreKept NumbersRunOn
SYMMETRY MCSymmetry
