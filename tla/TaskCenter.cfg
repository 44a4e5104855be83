\* Two tasks, one of them a refund, two workers with batches of two.
CONSTANTS
  NoInstant = NoInstant
  Instants = {i1, i2, i3}
  Tasks = {expiry, refund}
  RefundTasks = {refund}
  Workers = {w1, w2}
  MaxAttempts = 1
  AttemptCap = 2
  BatchLimit = 2
SPECIFICATION Spec
SYMMETRY Symmetry
INVARIANTS TypeOK ExclusiveLease RowConsistent
PROPERTY LegalTransitions
