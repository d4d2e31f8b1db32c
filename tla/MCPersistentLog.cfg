CONSTANTS
  Entries = {e1, e2, e3}
  NoEntry = NoEntry
SPECIFICATION Spec
PROPERTIES StaysLoadable ReplacedAsAWhole ReturnsWhenStored
CHECK_DEADLOCK FALSE
