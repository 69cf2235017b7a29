CONSTANT MaxInterrupts = 2
SPECIFICATION Spec
INVARIANT FinallyBlocksRun
