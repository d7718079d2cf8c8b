\* Four ways to drive an agent of up to three model calls, with one on the side or
\* a connection that stays silent.
CONSTANT Flows <- MCFlows
SPECIFICATION FairSpec
INVARIANTS
  SettledIsQuiet
  QuiesceMissesNothing
  TurnsAttributed
  FaithfulReplays
  PassServesAll
PROPERTY
  RunEnds
