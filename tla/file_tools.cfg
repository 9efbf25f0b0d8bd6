\* A write and a delete of one path, both compensated, one change by another
\* program, timeouts, a crash.
SPECIFICATION Spec
CONSTANTS
  write = write
  delete = delete
  lf = lf
  crlf = crlf
  Absent = Absent
  Step <- MCStep
  Content <- MCContent
  Wanted <- MCWanted
  TextOf <- MCTextOf
  Worker <- MCWorker
  MaxForeign = 1
INVARIANTS TypeOK AnswerIsTrue TempIsOwned UnracedIsExact
PROPERTIES CallReturns KeepsContract
CHECK_DEADLOCK FALSE
