SPECIFICATION Spec
CONSTANTS
  Theaters = {}
  Screens = {}
  ScreenTypes = {}
  SeatsOfType <- NoSeats
  Names = {}
  Seedings = {}
  Movies = {}
  Titles = {}
  MovieTypes = {}
  Durations = {}
  Genres = {}
  GenreLists <- NoGenreLists
  Images = {}
  Poster = Poster
  Showtimes = {}
  Starts = {}
  Listings = {}
  Jobs = {j1, j2, j3}
  MaxFaults = 1
  g1 = g1
INVARIANT SetupFillsBoth EverySeatHasPrice
CHECK_DEADLOCK FALSE
