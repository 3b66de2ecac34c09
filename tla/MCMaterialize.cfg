\* Two calls, two changes and one fault; a packet exactly at the limit.
SPECIFICATION Spec
CONSTANTS
  p1 = p1
  p2 = p2
  task = task
  file = file
  Proc = {p1, p2}
  Chunk = {"a", "b"}
  Chunks = 2
  Member = {task, file}
  Tar <- MCTar
  Declared <- MCDeclared
  Intact <- MCDeclared
  MaxMembers = 3
  Expected <- MCExpected
  None = None
  Absent = Absent
  Empty = Empty
  Taken = Taken
  MaxChanges = 2
  MaxFaults = 1
SYMMETRY Symmetry
INVARIANTS AnswerIsOneArchive HonestSucceeds
PROPERTIES ImplementsReader
