CONSTANTS
  Clients = {a, b}
  Channels = {1, 2}
  Passwords <- MCPasswords
  Modes = {"AesGcmV2", "AesGcmV1", "None"}
  HeaderLens = {12, 14, 16, 17, 27, 28, 29, 44}
  Cuts = {1, 17}
  MaxFrames = 1
  MaxDamages = 1
SPECIFICATION Spec
INVARIANTS
  NeverInTheClear
  GroupHears
  SealedIsGenuine
  SealedNeverPlayedAsIs
