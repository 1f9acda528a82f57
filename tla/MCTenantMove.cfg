SPECIFICATION Spec
CONSTANTS
  s1 = s1
  s2 = s2
  q1 = q1
  q2 = q2
  audit_log = audit_log
  WriteEvent = WriteEvent
  Sessions = {s1, s2}
  Requests = {q1, q2}
  DataTables = {audit_log, WriteEvent}
INVARIANTS RecordSound ServingSchemaKept
PROPERTIES DeletedLeftByMigrationOnly
CHECK_DEADLOCK FALSE
