SPECIFICATION PagesFairSpec
CONSTANTS
  Theaters = {}
  Screens = {}
  ScreenTypes = {}
  SeatsOfType <- NoSeats
  Names = {}
  Seedings = {}
  Movies = {m1, m2}
  Titles = {a}
  MovieTypes = {1}
  Durations = {0}
  Genres = {g1}
  GenreLists <- SomeGenreLists
  Images = {i1}
  Poster = Poster
  Showtimes = {}
  Starts = {}
  Listings = {}
  Jobs = {}
  MaxFaults = 1
  Pages = {m1}
  g1 = g1
INVARIANT AnsweredMovieIsWhole RowHasFile PageIsWhole
PROPERTY CreateMovieEnds HalfMadeForGood
CHECK_DEADLOCK FALSE
