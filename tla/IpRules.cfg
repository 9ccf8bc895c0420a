\* Lists of at most two rules, written by the library or from outside.
SPECIFICATION Spec
CONSTANTS
  OctetBits = 2
  V4Octets = 2
  V6Groups = 3
  NoPrefix = NoPrefix
  JunkPrefix = JunkPrefix
  NoLiteral = NoLiteral
  NoRule = NoRule
  NotText = NotText
  RuleTexts <- WrittenRules
  Strays <- StrayEntries
  Deliveries <- AllDeliveries
INVARIANTS
  TypeOK
  RulesMeanWhatTheySay
  StraysOpenOnlyAlone
PROPERTIES
  RewriteChangesNoDecision
