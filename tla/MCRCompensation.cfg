\* Reservations of 10 and 20 requests per second, windows of 1 and 2 s.
CONSTANTS
  Reservations = {10, 20}
  WinSizes = {1, 2}

SPECIFICATION Spec
INVARIANT CompensationMatchesSpec
