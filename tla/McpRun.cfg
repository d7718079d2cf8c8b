CONSTANT Scripts <- MCScripts
SPECIFICATION FairSpec
INVARIANTS
  AnsweredIsKept
  SameAgentPasses
  PassReproduces
PROPERTY ReplayAnswers
