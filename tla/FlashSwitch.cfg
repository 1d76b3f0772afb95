SPECIFICATION FlashSpec
CONSTANTS
  NBlocks = 2
  Values = {0, 1}
  Slots = 4
PROPERTIES
  PowerFailureInSwitchErasesNothing
