SPECIFICATION FairSpec
CONSTANTS
  Threads = {t1, t2}
  NoThread = NoThread
  Callbacks = 2
  Depth = 3
INVARIANTS TypeOK NoRubyUnderLock
PROPERTIES MethodsReturn
