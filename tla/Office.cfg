SPECIFICATION TablesSpec
CONSTANTS
  None = None
  Officers = {"o1", "o2"}
  Bodies <- MCBodies
  Shelves <- MCShelves
  MaxPage = 2
  Limits = {1, 3}
  MaxOfficeWork = 2
  MaxIds = 4
INVARIANTS
  RowsSound PagesComplete TreeShowsAll
PROPERTIES
  ShownChangesAnnounced
CHECK_DEADLOCK FALSE
