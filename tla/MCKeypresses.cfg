SPECIFICATION SubscribersSpec
CONSTANTS
  Keys <- MCKeys
  Handlers = {h1, h2}
  Capacity = 5
  Moved = 3
INVARIANTS
  ModifiersAreHeld
  SubscriberKnowsKeys
  EachHearsEachKey
