SPECIFICATION FairSpec
CONSTANTS
  Saved = 1
  MaxSafe = 3
  MaxPosts = 3
INVARIANTS
  OncePerIntent
  FormShowsItself
PROPERTIES
  NeverBackwards
  ButtonReturns
