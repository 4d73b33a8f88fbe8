SPECIFICATION Spec
CONSTANTS
  Modules <- MCModules
  Products <- MCProducts
  producer <- MCproducer
  Configurations <- MCConfigurations
  MaxEvents = 2
INVARIANTS
  TriggerBitsFollowModules
  NoReadAfterDelete
  AssertionsHold
  DeletedWhenLastReaderIsDone
