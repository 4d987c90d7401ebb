CONSTANTS
  Payload <- MCPayload
  Repeated = {65, 67}
  Following = {66, 192}
SPECIFICATION Spec
INVARIANTS
  Understood
  SizeReported
\* one command is sent and read
CHECK_DEADLOCK FALSE
