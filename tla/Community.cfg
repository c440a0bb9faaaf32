SPECIFICATION CommunitySpec
CONSTANTS
  \* Agencies
  Gstins = {g1, g2}
  Flags = {d1, d2}
  Blank = blank
  Numbers = {d1, d2}
  Branches = {b1, b2}
  Workers = {w1, w2}
  MaxRequests = 4
  None = none
  \* Chat
  Users = {a, o}
  Owner = o
  Options = {d1, d2}
  Calls = {w1, w2}
  Threshold = 2
  MaxCalls = 3
  \* Posts
  Fans = {a, o}
  Author = a
  CommentIds = {1, 2, 3}
  Tabs = {w1, w2}
  MaxActs = 4
  \* Social
  Travelers = {a, o}
  Reader = a
  Shop = s
  Keeper = o
  Links = {w1, w2}
  PageLimit = 1
  MaxMoves = 4
INVARIANTS CommunityTypeOK RouteHolds PollKeepsVotes RemindedAtThreshold ScreensAgree PostHolds FeedShowsOnce FollowersCounted BlocksCutFollows
PROPERTIES AgencyHolds
SYMMETRY Symmetry
CHECK_DEADLOCK FALSE
