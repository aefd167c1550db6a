CONSTANTS
  Invites = {i1}
  None = None
  Lists = {1, 2}
  MaxRequests = 2
  Tables = {t1, t2}
  MaxSeats = 2
  GuestSteps = 2
  MemberSteps = 2
SPECIFICATION CrewFairSpec
CHECK_DEADLOCK FALSE
PROPERTIES InviteIsShownOnce SeatIsGivenUpFirst PolledListIsTheServers
