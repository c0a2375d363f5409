\* Three workers and two clients: two workers can race for the queue while a
\* third one sleeps, and two clients can post at once. No symmetry: the run
\* checks liveness too.
CONSTANTS
  Workers = {w1, w2, w3}
  Clients = {c1, c2}
  Tasks = {t1, t2, t3, t4}
  NoThread = NoThread
  NoTask = NoTask
SPECIFICATION Spec
INVARIANTS
  TypeOK
  CountExact
  NoTaskLostOrDoubled
  NoLostWakeup
  AllDoneAtJoin
PROPERTIES
  ShutdownTerminates
  ImplementsExecutor
