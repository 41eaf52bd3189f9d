\* Tables of three lines over four-bit addresses, parents before their extensions.
SPECIFICATION TreeSpec
CONSTANTS
  Width = 4
  Ports = {1, 2}
  ParentsFirst = TRUE
  MaxLines = 3
INVARIANTS LookupLongest Lookup2BitLongest
\* The table ends.
CHECK_DEADLOCK FALSE
