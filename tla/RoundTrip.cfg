SPECIFICATION Spec
CONSTANTS
  Radix = 4
  Forms <- MCForms
  Contexts <- MCContexts

INVARIANT InstructionsDelimitThemselves
PROPERTIES EverythingAssembledDisassembles MeaningIsKept
CHECK_DEADLOCK FALSE
