CONSTANTS
  c1 = c1  c2 = c2  d1 = d1
  Items = {c1, c2, d1}
  Turns = {1, 2}
  TurnItems <- ItemsOfTurn
  Compound = {1}
  MaxBackgroundTasks = 2
  MaxWorkItemsPerTurn = 2
  Direct = {d1}
  NoItem = NoItem
  MaxSegments = 3
  MaxStops = 4
  Slots = 1
  MaxChars = 9
SPECIFICATION WorkSpec
CHECK_DEADLOCK FALSE
INVARIANTS WithinCapacity SerialUnlessDropped RoutedOnceInOrder
PROPERTIES KeepsDelivery LateDeliveryHappens NotPoisoned StopIsServed
