CONSTANTS
  Client = {c1, c2}
  Name = {n1, n2}
  ServerName = {}
  KillName = kill_mp
  Uses <- AnyName
  Payload = {a}
  Empty = Empty
  None = None
  Exclude = FALSE
  SocketSize = 1
  MaxBacklog = 1
  MaxInTransit = 2
  MaxRecipients = 2
  MaxClosed = 1
  Restarts = TRUE
SPECIFICATION FairSpec
PROPERTIES ImplementsMessageService Delivered RequestsEnd
