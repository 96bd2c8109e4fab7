CONSTANTS
  NoFilter = NoFilter
  NoReason = NoReason
  RuleIds = {1, 2, 3}
  Tags <- MCTags
  RuleChoices <- MCRules
  DeviceChoices <- MCDevices
  TagChoices <- MCTagChoices
  MaxRules = 2
SPECIFICATION FairSpec
INVARIANTS
  BlamedRuleBlocks
PROPERTIES
  MoreChoiceNeverBlocks
  VerdictSettles
