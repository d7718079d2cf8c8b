CONSTANT Scripts <- MCOutFile
SPECIFICATION Spec
INVARIANT OutInEveryCase
