SPECIFICATION Spec
CONSTANTS
  Diagrams = {"d1", "d2"}
  Contents = {"", "flow", "xychart", "typo"}
  Blank = ""
  Unsupported = {"xychart"}
  Broken = {"typo"}
  Themes = {"light", "dark"}
  FirstTheme = "light"
  MaxChanges = 4
CHECK_DEADLOCK FALSE
INVARIANT ShowsItsFence
