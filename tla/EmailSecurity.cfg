\* One assessment of a domain.
SPECIFICATION SecuritySpec
INVARIANT DeductionsCount
CHECK_DEADLOCK FALSE
