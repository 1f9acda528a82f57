SPECIFICATION FairSpec
CONSTANTS
  n1 = n1
  n2 = n2
  w1 = w1
  w2 = w2
  l1 = l1
  l2 = l2
  m1 = m1
  m2 = m2
  q1 = q1
  Replicas = {n1, n2}
  Consumers = {n1}
  Workers = {w1}
  Locations = {l1}
  Messages = {m1}
  RecordsOf <- MCRecordsOf
  Webhooks = {q1}
  Capacity = 1
INVARIANTS AlertedOnce NothingLost
PROPERTIES WebhookAnswered
