\* Every order of arrival of six operation graphs, two saves at a time.
SPECIFICATION LiveSpec
CONSTANTS
  t1 = t1
  t2 = t2
  Tasks = {t1, t2}
  Graphs <- AllGraphs
  Settings <- AllSettings
INVARIANTS CascadesExact UndoneIffStruck TerminalOpsCover 
PROPERTIES SavesEnd
CHECK_DEADLOCK FALSE
