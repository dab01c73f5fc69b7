\* Four calls, two of them under one id, and room for one unread message; a search
\* need not settle unless it is aborted.
SPECIFICATION FairSpec
CONSTANTS
  r1 = r1
  r2 = r2
  r3 = r3
  r4 = r4
  i1 = i1
  i2 = i2
  i3 = i3
  Requests = {r1, r2, r3, r4}
  Ids = {i1, i2, i3}
  IdOf <- FourIds
  None = None
  MaxPending = 1
PROPERTIES CancelledIsSilent ImplementsSlots EveryCallAnswered CloseTerminates
