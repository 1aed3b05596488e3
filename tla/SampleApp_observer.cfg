\* The worker outlives the window.
SPECIFICATION Spec
CONSTANT MaxGen = 2
INVARIANTS ObserverIsValid
