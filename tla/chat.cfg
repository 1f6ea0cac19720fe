\* A request with two proposing carriers; two texts, so that equal and different ones meet.
\* Deadlock is not checked: once the turns are used up the model stops.
CONSTANTS
  chatA = chatA  chatB = chatB
  NoOne = NoOne  Over = Over
  Conversations = {chatA, chatB}
  Texts = {"x", "y"}
  MaxRows = 2
  MaxTurns = 3
SPECIFICATION Spec
INVARIANTS EveryBubbleEndsOnce EveryMessageIsWhereItBelongs
PROPERTIES FailedBubblesStay
CHECK_DEADLOCK FALSE
