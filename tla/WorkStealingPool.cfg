SPECIFICATION FairSpec
CONSTANTS
  N = 2
  Main = Main
  t1 = t1
  t2 = t2
  t3 = t3
  t4 = t4
  NoTask = NoTask
  Tasks = {t1, t2, t3, t4}
  MainTasks <- MCMainTasks
  Child <- MCChild
  Endless = {t3}
PROPERTIES ImplementsTaskPool QueuedTasksStart ShutdownCompletes
