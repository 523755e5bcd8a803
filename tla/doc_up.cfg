\* Two containers that migrate a new database at once, without a fault.
SPECIFICATION Spec
CONSTANTS
  MaxFaults = 0
INVARIANTS
  AllServicesUp
