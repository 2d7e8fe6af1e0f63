SPECIFICATION Spec
CONSTANTS
  Theaters = {t1}
  Screens = {s1}
  ScreenTypes = {1}
  SeatsOfType <- SmallSeats
  Names = {n1}
  Seedings = {d1}
  Movies = {m1}
  Titles = {a}
  MovieTypes = {1}
  Durations = {1}
  Genres = {}
  GenreLists <- NoGenreLists
  Images = {}
  Poster = Poster
  Showtimes = {x1, x2}
  Starts = {0}
  Listings = {l1}
  Jobs = {}
  MaxFaults = 1
  g1 = g1
INVARIANT NoOrphans OverlapOnlyIfConcurrent
PROPERTY TornOnlyByDeleteOrDelay
CONSTRAINT ShowtimesAfterMovies
SYMMETRY ShowtimeSymmetry
CHECK_DEADLOCK FALSE
