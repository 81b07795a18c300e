\* A proxied session and a run of the bot share the mods.
SPECIFICATION Spec
CONSTANTS
  s1 = s1
  bot = bot
  None = None
  Sessions = {s1, bot}
  Bots = {bot}
  Streams <- MCStreams
INVARIANTS TypeOK NoEarlierRecipient OwnAnswer AnswersHeld NoLostToggle
           RecordedInOrder
\* All packets may have been handled.
CHECK_DEADLOCK FALSE
