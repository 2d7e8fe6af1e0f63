SPECIFICATION FairSpec
CONSTANTS
  Theaters = {t1}
  Screens = {s1, s2}
  ScreenTypes = {1}
  SeatsOfType <- SmallSeats
  Names = {n1, n2}
  Seedings = {d1, d2}
  Movies = {}
  Titles = {}
  MovieTypes = {}
  Durations = {}
  Genres = {}
  GenreLists <- NoGenreLists
  Images = {}
  Poster = Poster
  Showtimes = {}
  Starts = {}
  Listings = {}
  Jobs = {}
  MaxFaults = 1
  g1 = g1
INVARIANT TypeOK CountsMatch SeatsOnce UnseatedOnlyIfLost
PROPERTY ScreenIsSeated
CHECK_DEADLOCK FALSE
