\* One room to its vector: opened with half hours, and with slots of any width.
SPECIFICATION Spec
CONSTANTS
  Days = {0, 1}
  Openings <- MCOpenings
  BookTimes <- MCBookTimes
  Offsets <- MCOffsets
  FirstId = 1
  IdSpace = 5
  MaxId = 4
INVARIANTS
  SearchesAgree
  NoneGivenTwice
PROPERTIES
  ImplementsFacility
