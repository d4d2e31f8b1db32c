CONSTANTS
  N = 2
  Clients = {main, other}
  Tasks = {t1, t2, t3}
  NoTask = NoTask
SPECIFICATION PoolFairSpec
INVARIANTS NoUseAfterDelete
PROPERTIES ImplementsService EveryTaskCompletes EveryCallReturns
