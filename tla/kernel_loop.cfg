SPECIFICATION FairSpec
CONSTANTS
  Sender <- Senders
  Loops <- BothLoops
  Levels <- BothLevels
  ParIntend = FALSE
  ParExec = TRUE
  MaxSent <- FewEvents
  MaxIntentions = 2
  MetaDepth = 1
INVARIANTS TypeOK SoakReplacedForMeta StdinAfterDecision
PROPERTIES ImplementsEventService SectionWaitsForEver MessagesConsidered SoakDecided
