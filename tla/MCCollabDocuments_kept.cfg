SPECIFICATION DocsSpec
CONSTANTS
  ann = ann
  ben = ben
  t1 = t1
  t2 = t2
  t3 = t3
  Tabs = {t1, t2, t3}
  UserOf <- Owners
  Edits = {e1, e2}
INVARIANT EditsKept
CHECK_DEADLOCK FALSE
