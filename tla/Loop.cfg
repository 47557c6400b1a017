\* A user's client and the tests' one, every kind of request.
SPECIFICATION FairSpec
CONSTANTS
  java = java
  tester = tester
  Base = 16
  BufferSize = 32
  Clients = {java, tester}
  Testers = {tester}
  Choices <- MCChoices
  Facilities <- MCFacilities
  Outcomes <- MCOutcomes
  Texts <- MCTexts
  NotFoundText <- MCNotFoundText
  Junk <- MCJunk
  MaxIdle = 1
INVARIANTS
  LoopTypeOK
  ActsAsAsked
  StaysUp
  ShowsItsAnswer
  ClientLives
PROPERTIES
  Answered
\* A client makes no more requests than its bound.
CHECK_DEADLOCK FALSE
