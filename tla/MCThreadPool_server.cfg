\* The pool as httpd.c uses it: one thread initialises, adds and destroys.
SPECIFICATION FairSpec
CONSTANTS
  thread_num = 3
  Callers = {main}
  Main = main
  Destroyers = {main}
  Tasks = {t1, t2, t3}
  Faults = {"pthread_create"}
  None = None
PROPERTIES
  QuietDrain
  ShutdownCompletes
