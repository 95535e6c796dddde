SPECIFICATION FairSpec
CONSTANTS
  Revision = {1, 2, 3, 4}
  Styles = {1, 2, 3}
  Scripts = {4, 5}
  Base = 3
  Text <- MCText
  Tools <- MCTools
  Minify <- MCMinify
  MaxEvents = 5
  None = None
INVARIANTS
  NeverMixed
PROPERTIES
  GoneOnlyIfChanged
  ReloadHeals
