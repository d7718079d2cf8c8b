CONSTANT Scripts <- MCOverlap
SPECIFICATION Spec
INVARIANT AnsweredIsKept
