\* Slots that act on the signal that calls them.
SPECIFICATION Spec
CONSTANTS
  IntMax = 4
  MaxDepth = 2
INVARIANTS TypeOK SlotsAscend
PROPERTY ImplementsSlotSet
\* Nothing happens to a signal after its destruction.
CHECK_DEADLOCK FALSE
