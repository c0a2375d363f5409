\* A pool with a single worker: init_thread(1), or one hardware thread.
CONSTANTS
  Workers = {w1}
  Clients = {c1}
  Tasks = {t1}
  NoThread = NoThread
  NoTask = NoTask
SPECIFICATION Spec
PROPERTIES
  ShutdownTerminates
