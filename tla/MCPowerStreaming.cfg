\* Two requests of either kind over two GPUs.
SPECIFICATION FairSpec
CONSTANTS
  Clients = {c1, c2}
  Gpus <- TwoGpus
  Powers <- OneVaries
INVARIANTS
  StreamsAreCurrent
  NothingFromBeforePause
  AnswerIsFresh
PROPERTY
  StreamsAreServed
