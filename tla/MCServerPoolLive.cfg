SPECIFICATION LiveSpec
CONSTANTS
  c1 = c1  c2 = c2  c3 = c3
  d1 = d1  d2 = d2  d3 = d3  d4 = d4
  NWorkers = 2
  QueueCapacity = 2
  Conns <- TwoConns
  Fds <- ThreeFds
  NoFd = NoFd  Free = Free  Foreign = Foreign  Listening = Listening
  Main = Main  Nobody = Nobody
PROPERTIES QueuedIsServed StopTerminates
