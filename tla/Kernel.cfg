SPECIFICATION Spec
CONSTANTS
  core = core
  comm = comm
  usb = usb
  dev1 = dev1
  dev2 = dev2
  main = main
  idle = idle
  conf = conf
  link = link
  irq = irq
  None = None
  Task = {core, comm, usb, dev1, dev2, main, idle}
  Child = {dev1, dev2}
  Idle = idle
  Sem = {conf, link, irq}
  Mutex = {conf, link}
  IsrSem = {irq}
  BasePriority <- MCBase
  Programs <- MCPrograms
  TickModulus = 5
  MaxMissed = 1
INVARIANTS EachTaskIsOnOneList MostUrgentRuns NoLostWakeup SleepersAreInOrder InversionIsBounded
