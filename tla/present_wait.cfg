SPECIFICATION FairSpec
CONSTANTS
  RingSize = 2
  MailboxCap = 2
  MaxPresents = 3
  MaxTokens = 3
  MaxSwapchains = 2
  WaitSupport = {TRUE, FALSE}
  WaitMayFail = TRUE
INVARIANTS
  TypeOK
  InFlightExact
  WaiterOnLiveSwapchain
PROPERTIES
  TagsRetired
CHECK_DEADLOCK FALSE
