SPECIFICATION FairSpec
CONSTANTS
  Main = Main
  NoThread = NoThread
  t1 = t1
  t2 = t2
  t3 = t3
  t4 = t4
  NoTask = NoTask
  Workers = {w1, w2}
  Tasks = {t1, t2, t3, t4}
  MainTasks <- MCMainTasks
  Child <- MCChild
  MaxSpurious = 1
INVARIANTS TypeOK NoLostWakeup FIFO DestructorDrains
PROPERTIES Terminates ImplementsTaskPool
