SPECIFICATION Spec
CONSTANTS
  Tabs = {t1}
  MaxEdits = 2
  MaxLoadFaults = 1
  NoRow = norow
PROPERTY NoteNotEmptied
CHECK_DEADLOCK FALSE
