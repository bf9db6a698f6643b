\* Service annotations of up to 3 characters, which include "," (two empty
\* pieces) and "a,a" (one service twice).
CONSTANT Raw <- MCRaw
SPECIFICATION Spec
INVARIANT InitContainersDistinct
CHECK_DEADLOCK FALSE
