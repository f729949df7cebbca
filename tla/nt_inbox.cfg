SPECIFICATION CentreSpec
CONSTANTS
  td = td
  artist = artist
  Nobody = Nobody
  Users = {artist}
  Tds = {}
  Kinds = {"quiet", "client"}
  SlowLogin = TRUE
  Window = 2
  MaxItems = 1
  MaxArchived = 3
  MaxSeen = 3
  MaxEvents = 5
INVARIANT CentreTypeOK
PROPERTIES Lifecycle NothingReturnsEarly
CHECK_DEADLOCK FALSE
