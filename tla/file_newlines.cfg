\* A file with CR LF line ends and nobody but the saga at work.
SPECIFICATION Spec
CONSTANTS
  write = write
  delete = delete
  lf = lf
  crlf = crlf
  Absent = Absent
  Step <- MCStep
  Content <- MCContent
  Wanted <- MCWanted
  TextOf <- MCTextOf
  Worker <- MCWorker
  MaxForeign = 0
INVARIANT StaleMeansChanged
CHECK_DEADLOCK FALSE
