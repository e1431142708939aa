SPECIFICATION ProgramSpec
CONSTANTS
  t1 = t1
  t2 = t2
  c1 = c1
  c2 = c2
  worker = worker
  None = None
  Teeps <- MCTeeps
  Detects <- MCDetects
INVARIANTS OneInEnclave OneEnclave
PROPERTIES RequestsAnswered
