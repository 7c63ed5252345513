CONSTANTS
  Askers = {a1, a2}
  Savers = {s1, s2}
SPECIFICATION SettingsSpec
INVARIANTS LookupSafe
CHECK_DEADLOCK FALSE
