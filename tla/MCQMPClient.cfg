SPECIFICATION FairSpec
CONSTANTS
  EventNames = {"STOP", "OTHER"}
  MaxBufferedEvents = 2
  MaxCalls = 2
  MaxEvents = 3
INVARIANTS
  TypeOK
  EventsConserved
  ContextIsOwn
  ReplyIsOwn
PROPERTIES
  OldestFirst
  CallsReturn
CHECK_DEADLOCK FALSE
