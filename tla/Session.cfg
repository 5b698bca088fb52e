SPECIFICATION Spec
CONSTANTS
  Tabs = {t1, t2}
  t1 = t1
  t2 = t2
  Users = {"ann", "bob"}
  Abroad = "bob"
  Legacies = {None, "ann"}
  MaxCalls = 3
  MaxOpens = 3
  MaxUpgrades = 1
  None = None
SYMMETRY AnyTab
INVARIANTS TypeOK StoredSessionLoads UcanOfSession SessionCanDelegate
CHECK_DEADLOCK FALSE
