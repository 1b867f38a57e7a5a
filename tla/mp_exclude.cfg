CONSTANTS
  Client = {c1, c2, c3}
  Name = {n1, server, kill_mp}
  ServerName = {server}
  KillName = kill_mp
  Uses <- AnyName
  Payload = {a}
  Empty = Empty
  None = None
  Exclude = TRUE
  SocketSize = 1
  MaxBacklog = 2
  MaxInTransit = 1
  MaxRecipients = 1
  MaxClosed = 2
  Restarts = TRUE
SYMMETRY Symmetry
SPECIFICATION Spec
CHECK_DEADLOCK FALSE
INVARIANTS TypeOK UniqueNames ListsAgree WriteInterest ServesRegistered
PROPERTIES ImplementsMessageService
