SPECIFICATION Spec
CONSTANTS
  Chats = {"c1", "c2"}
  Models = {"m1"}
  NoChat = "none"
  Listings <- TwoListings
  Queries = {"", "s", "zz"}
  Blank = ""
  Matches <- SomeMatches
  MaxRecent = 1
  MaxRuns = 2
  MaxLists = 1
PROPERTY OpensWhatItNames
CHECK_DEADLOCK FALSE
