CONSTANT MaxOptions = 2
SPECIFICATION Spec
INVARIANT ShutdownIsGraceful
