SPECIFICATION Spec
CONSTANTS
  Names = {"f", "g"}
  Others = {"x", "y", "a"}
  Directives = {"#undef g", "#define g(x) f x"}
  Meaning <- MCMeaning
  InitMacros <- MCInitMacros
  Texts <- MCTexts
CHECK_DEADLOCK FALSE
INVARIANTS
  InUse
  ExpandsToItsMeaning
PROPERTY
  Terminates
