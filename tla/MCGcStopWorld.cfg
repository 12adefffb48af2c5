SPECIFICATION FairSpec
CONSTANTS
  Thread = {t1, t2, t3}
  Nil = Nil
  Depth = {0, 1}
  Base = Base
  Retry = {TRUE, FALSE}
  MaxStops <- MCMaxStops
  MaxLost = 1
INVARIANTS StopInv StopsReliably HandlerFindsThread
PROPERTIES ImplementsAbstractWorld StopCompletes HandlerReturns
VIEW MCView
