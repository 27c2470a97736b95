SPECIFICATION Spec
CONSTANT Settings <- AllSettings
INVARIANTS
  AllPass
  
PROPERTY SuiteCompletes
CHECK_DEADLOCK FALSE
