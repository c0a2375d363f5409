\* The main thread calls init_thread before the others start; afterwards all
\* of them call init_thread and get_thread as they like.
CONSTANTS
  Users = {main, u2, u3}
  Early = {main}
  Pools = {p1, p2}
  NoPool = NoPool
SPECIFICATION Spec
INVARIANTS
  NeverTerminates
  OnePool
  PoolOutlivesPost
