SPECIFICATION Spec
CONSTANTS
  Requests = {r1, r2, r3, r4}
  Workers = {w1, w2}
  QueueSize = 2
INVARIANT EnqueueAnswers
