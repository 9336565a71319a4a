\* The IPC relay against a node that writes its reply in any pieces and
\* may die at any time, and a client that may leave.
CONSTANTS
  Reply <- MCReply
  NL <- NewlineUnit
  Size = 2

SPECIFICATION Spec
INVARIANTS
  TypeOK
PROPERTIES
  StreamRefined
  ReplyDelivered
  NodeLossReleasesHandler
