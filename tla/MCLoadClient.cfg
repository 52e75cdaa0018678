CONSTANTS
  Threads = {t1, t2}
  Connections = 3
SPECIFICATION FairSpec
INVARIANT CountersAgree
PROPERTIES MonitorMissesFew StopEndsProgram EndsWithItsSessions
