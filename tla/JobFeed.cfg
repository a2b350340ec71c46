CONSTANTS
  j1 = j1
  c1 = c1
  work = work
  home = home
  none = none
  Jobs <- OneJob
  Clients <- OneClient
  Follows <- FollowsJob
  Addresses <- TwoAddresses
  NoAddress = none
  MaxBreaks = 2
  MaxEvents = 3
SPECIFICATION FeedSpec
CHECK_DEADLOCK FALSE
INVARIANTS InOrder OneWantedMail NewsIsCommitted
PROPERTIES EveryEventDelivered
