SPECIFICATION Spec
CONSTANTS
  Engines <- MCEngines
  Universe <- MCUniverse
  MaxDeliveries <- MCMaxDeliveries
INVARIANTS EffectsAreTrue OneEffectPerEvent LossIsVisible
PROPERTIES FirstOutcomeStays
CHECK_DEADLOCK FALSE
