CONSTANTS
  a = a
  b = b
  c = c
  Env = {a, b, c}
  Value = {1, 2}
  NoEnv = NoEnv
  Senders = {a, b, c}
  Receivers = {a}
SPECIFICATION FairSpec
INVARIANTS
  OpenIffBlocked
  PageAnnounced
PROPERTIES
  ImplementsRendezvous
  ReceiverServed
CHECK_DEADLOCK FALSE
