\* Two calls of the hooked function; the second may come before the first has
\* set executed.
SPECIFICATION Spec
CONSTANTS
  a = a
  b = b
  k = k
  None = None
  Callers <- MCCallers
  Kernel <- MCKernel
  NumBlockDevs = 2
  Prompt = TRUE
  Visits = 1
INVARIANTS
  StartsOnce
