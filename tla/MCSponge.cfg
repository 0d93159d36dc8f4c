SPECIFICATION SpongeSpec
CONSTANTS
  MaxCalls = 2
  Message <- Text
  Pieces <- AroundOrKem
  Reads <- Around
INVARIANTS OutputIsDigest RoomForPadding
