CONSTANTS
  Callers = {a, b}
  Statuses <- MCStatuses
  NoCall = NoCall
  MaxCalls = 4
SPECIFICATION FairSpec
INVARIANTS
  TypeOK
  SendNeverBlocks
  ObserverCatchesUp
  AnnouncedIsStored
  LateChangeIgnored
PROPERTIES
  CallReturns
  TakenIsStored
  CloseEndsStream
  ImplementsContract
