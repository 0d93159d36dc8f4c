SPECIFICATION Spec
CONSTANTS
  Bodies <- MCBodies
INVARIANTS SameAsWhole ReportedOnce
