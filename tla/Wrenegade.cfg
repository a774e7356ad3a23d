CONSTANTS
  Programs <- AllPrograms
  LowerCase <- LowerCaseOf
  NoClass = NoClass
  StartWith <- WordsThatStartWith
  Arguments <- AllArguments
SPECIFICATION Spec
INVARIANTS
  ModulesMatchClasses
  CallsReachTheirMembers
