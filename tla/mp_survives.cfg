CONSTANTS
  Client = {c1, c2}
  Name = {c1, c2}
  ServerName = {}
  KillName = kill_mp
  Uses <- OwnName
  Payload = {a}
  Empty = Empty
  None = None
  Exclude = FALSE
  SocketSize = 1
  MaxBacklog = 1
  MaxInTransit = 2
  MaxRecipients = 1
  MaxClosed = 1
  Restarts = FALSE
SPECIFICATION Spec
CHECK_DEADLOCK FALSE
PROPERTIES Survives
