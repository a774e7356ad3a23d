CONSTANTS
  LocalNames <- Lowercase
  StaticNames <- Statics
  FieldNames <- FieldsOfAll
  MaxInterpolation = 2
  ByteRange = 256
  MaxLocals = 11
  MaxFields = 3
  MaxParameters = 3
  Programs <- ExtraArgumentsProgram
  Source <- ProgramSource
  Compiler <- Compile
  Binder <- BindMethodCode
  View <- FlowView
  Meaning <- ProgramMeaning
  Moves = {TRUE, FALSE}
SPECIFICATION Spec
INVARIANTS
  ComputesMeaning
