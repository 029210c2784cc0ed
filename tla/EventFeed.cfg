SPECIFICATION FairSpec
CONSTANTS
  FeedBuffer = 2
  SocketBuffer = 1
  ClientBuffer = 1
  MaxEvents = 7
PROPERTIES ImplementsFeed NewsArrives HangUpUnsubscribes
CHECK_DEADLOCK FALSE
