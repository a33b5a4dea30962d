\* The pages of the web application: one page at a time, over two of everything it
\* tells apart.
SPECIFICATION WebPagesSpec
CONSTANTS
  Two = {a, b}
  Accounts = {a, b}
  NoAccount = NoAccount
  MaxAsked = 2
  MaxEvents = 1
  Items = {a, b}
  NoItem = NoItem
  NoLoad = NoLoad
  NoDeck = NoDeck
  MaxRevision = 2
  MaxCalls = 1
  Files = {a, b}
  NoFile = NoFile
  MaxPreviews = 2
  MaxAwaited = 2
  Decks = {a, b}
  NoDeckId = NoDeckId
  NoDeckLoad = NoDeckLoad
  MaxDeckRevision = 3
  MaxDeckChanges = 2
  Managed = {m}
  NoAccounts = NoAccounts
  NoRequests = NoRequests
  MaxAdminChanges = 2
  Games = {a, b}
  NoStatusLoad = NoStatusLoad
  NoRefresh = NoRefresh
  NoSchedule = NoSchedule
  NoSave = NoSave
  MaxRefreshes = 2
  MaxEdits = 3
  NoInviteLoad = NoInviteLoad
  NoInviteCall = NoInviteCall
  NoLink = NoLink
  MaxInvitations = 2
  NoTradesLoad = NoTradesLoad
  NoTradesCall = NoTradesCall
  MaxTradeChanges = 3
  Tabs = {a, b}
  NotSaved = NotSaved
  MaxChoices = 2
SYMMETRY PageSymmetry
INVARIANTS
  WebPagesTypeOK
  ShownIsSignedIn
  RejectedNotResent
  ReviewedIsChosen
  OnlyThisDeck
  OwnChangesShown
  TabsAgree
CHECK_DEADLOCK FALSE
