SPECIFICATION LiveSpec
CONSTANTS
  arm = arm
  poll = poll
  Callers <- TheCalls
  Commands <- TheCommands
  Batches <- TheBatches
  MinInterval = 1
  MaxRequests = 2
  Window = 3
  MaxWait = 1
  MaxAttempts = 3
  BaseDelay = 2
  MaxDelay = 3
  Headers <- TheHeaders
  Outcomes <- TheOutcomes
INVARIANTS
  CallsSound
PROPERTIES
  CommandNotRepeated
  SendsArePaced
  SendsAreDue
  EveryCallEnds
