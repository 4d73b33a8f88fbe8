SPECIFICATION Spec
CONSTANTS
  Modules <- MCModules
  Products <- MCProducts
  producer <- MCproducer
  Configurations <- MCConfigurations
  MaxEvents = 1
INVARIANTS
  OnlySecondPutsFail
