SPECIFICATION Spec
CONSTANTS
  Http = {"web1", "web2"}
  Workers = {"worker"}
  Seeding = {"web1", "web2"}
  Codes = {1, 2}
  MaxFaults = 2
  MaxDowngrades = 1
CHECK_DEADLOCK FALSE
INVARIANT SchemaMatchesVersion
INVARIANT SeededOnce
PROPERTY EveryoneServes
