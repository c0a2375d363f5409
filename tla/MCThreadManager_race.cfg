\* Two threads call init_thread for the first time at once. Nothing goes on once
\* get_thread has found no pool, so deadlock is not checked.
CONSTANTS
  Users = {u1, u2}
  Early = {u1, u2}
  Pools = {p1, p2}
  NoPool = NoPool
SPECIFICATION Spec
INVARIANTS
  AlreadyMeansReady
CHECK_DEADLOCK FALSE
