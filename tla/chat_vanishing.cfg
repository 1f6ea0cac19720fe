\* One conversation, one message: what a load that was slower than the answer leaves of it.
\* Deadlock is not checked: once the turns are used up the model stops.
CONSTANTS
  chatA = chatA  chatB = chatB
  NoOne = NoOne  Over = Over
  Conversations = {chatA, chatB}
  Texts = {"x"}
  MaxRows = 2
  MaxTurns = 2
SPECIFICATION Spec
INVARIANTS SentMessagesAreShown
CHECK_DEADLOCK FALSE
