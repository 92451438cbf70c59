CONSTANTS
  l1 = l1
  l2 = l2
  Listeners <- Clients
  Names = {"spoke", "voice"}
  NameOf <- ForSpoke
  Threads <- Both
  MaxEvents = 3
  MaxOps = 2
SPECIFICATION FairSpec
INVARIANTS TypeOK InOrder NobodySkipped RemovalsTakeEffect
PROPERTY EventsAreTaken
CHECK_DEADLOCK FALSE
