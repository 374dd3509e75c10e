\* master_msg_ and the queues of the workers: several threads send, two handle.
CONSTANTS
  Producers = {p1, p2, p3}
  Consumers = {c1, c2}
  Values = {v1, v2}
  NoVal = NoVal
  Capacity = 2
SPECIFICATION FairPipeSpec
INVARIANTS NoLostWakeup PipeMatchesRing
PROPERTY ImplementsFifo SentIsHandled
