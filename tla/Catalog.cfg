SPECIFICATION CarefulSpec
CONSTANTS
  None = None
  Absent = Absent
  l1 = l1
  l2 = l2
  l3 = l3
  c1 = c1
  c2 = c2
  c3 = c3
  Lesson = {l1, l2, l3}
  Seeded = {l1, l2}
  SeedOrder <- TwoOrders
  SeedCurriculum <- BothBjj
  curriculumCatalog <- TwoDisciplines
  ProgramDiscipline = "bjj"
  Call = {c1, c2, c3}
  Editor = {e1}
  Edited = {l1}
  MaxFaults = 1
SYMMETRY Requests
INVARIANTS
  TagsNeverContradict
  SavedCurriculumReadsBack
  FormAlwaysAccepted
  OrderStaysStrict
