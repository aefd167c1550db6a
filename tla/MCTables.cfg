CONSTANTS
  NoAccount = NoAccount
  Accounts = {ada}
  Targets = {1000}
  TableKinds = {"private", "public", "local"}
  Tricks = 2
SPECIFICATION FairSpec
CHECK_DEADLOCK FALSE
CONSTRAINT FewAccounts
INVARIANTS NeverWaitsForBot FinishedMatchHandedOverOnce OffersAreAccepted ReadyLobbyCanStart
PROPERTIES BotKeepsSeat RematchByConsent RoundIsPlayedOut ChangeIsANewVersion DeletedSeatGoesToBot TrickIsCollected
