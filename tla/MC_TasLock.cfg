\* Two cores; the program ends.
CONSTANT Cores = {0, 1}
SPECIFICATION Spec
INVARIANT TestAndSetAtomic
CHECK_DEADLOCK FALSE
