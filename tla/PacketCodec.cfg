CONSTANTS
  Nothing = Nothing
  Packets <- MCPackets
  Datagrams <- MCDatagrams
SPECIFICATION Spec
INVARIANTS
  TypeOK
  SentIsRead
  ReadEncodesBack
  AadIsOnTheWire
