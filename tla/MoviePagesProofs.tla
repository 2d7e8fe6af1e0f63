-------------------------- MODULE MoviePagesProofs --------------------------
(***************************************************************************)
(* The pages and lists of movies, for every set of movies, genres and      *)
(* images and every bound: reading them takes nothing from MovieService,   *)
(* what an answered page shows, and what a half-made movie is for ever.    *)
(***************************************************************************)
EXTENDS MoviePages, MovieServiceProofs

---------------------------------------------------------------------------
(* The reader of pages adds no step to MovieService *)

(* Whatever pages are asked for meanwhile, MovieService behaves as it does   *)
(* without them, so everything proved of it holds (GetMovie only reads).     *)
THEOREM PagesAreMovieService == PagesSpec => Spec
<1>1. PagesInit => Init
  BY DEF PagesInit
<1>2. [PagesNext]_pageVars => [Next]_vars
  BY DEF PagesNext, PageStepping, pageVars
<1>3. QED
  BY <1>1, <1>2, PTL DEF PagesSpec, Spec

---------------------------------------------------------------------------
(* The invariant *)

GenresGone(m) ==
  \A i \in DOMAIN film[m].genres : genre[film[m].genres[i]] = "deleted"

(* A movie comes once, and its trailer last.                                 *)
ComesWhole(m) ==
  /\ movieCall[m] \in {"idle", "title"} => movie[m] = "absent"
  /\ m \in trailer => /\ GenresLinked(m)
                      /\ \A i \in Images \union {Poster} : <<m, i>> \in pictureRow

TrailerInv == \A m \in Movies : ComesWhole(m)

(* It was whole, and what is missing now was deleted.                        *)
Settled(m) == m \in trailer \/ (movie[m] = "deleted" /\ GenresGone(m))

(* A page that shows a poster is about a movie that was whole when its row   *)
(* was read; what the two later reads miss was deleted.                      *)
PageOK(m) ==
  /\ page[m].step = "answered" => page[m].poster
  /\ page[m].poster =>
       /\ page[m].step \in {"genres", "images", "answered"} => Settled(m)
       /\ page[m].step \in {"images", "answered"} =>
            \A i \in DOMAIN film[m].genres :
              film[m].genres[i] \in page[m].genres \/ genre[film[m].genres[i]] = "deleted"
       /\ page[m].step = "answered" => page[m].images = Images \/ movie[m] = "deleted"

PagesInv ==
  /\ IInv
  /\ TrailerInv
  /\ PageTypeOK
  /\ \A m \in Pages : PageOK(m)

---------------------------------------------------------------------------
(* What becomes of a movie *)

DeletedStay ==
  /\ \A g \in Genres : genre[g] = "deleted" => genre'[g] = "deleted"
  /\ \A m \in Movies : movie[m] = "deleted" => movie'[m] = "deleted"

HalfMadeStays(m) ==
  \/ HalfMade(m)'
  \/ movie'[m] = "deleted" /\ GenresOf(m) = {}

GoesOn(m) ==
  /\ ComesWhole(m)'
  /\ Settled(m) => Settled(m)'
  /\ HalfMade(m) => HalfMadeStays(m)

(* A step that touches nothing of a movie but where its call and pictures are. *)
LEMMA OnlyCall ==
  ASSUME NEW m \in Movies, ComesWhole(m), UNCHANGED <<genre, film, movie, partVars>>,
         movieCall'[m] \in {"idle", "title"} => movie[m] = "absent",
         HalfMade(m) => /\ movieCall'[m] = "failed"
                        /\ picture'[<<m, Poster>>] \notin {"reading", "inserting"}
  PROVE  GoesOn(m)
  BY DEF GoesOn, ComesWhole, GenresLinked, Settled, GenresGone, HalfMadeStays, HalfMade,
         Exists, HasPoster, partVars

LEMMA GenreOfFilm ==
  ASSUME MovieTypeOK, NEW m \in Movies, NEW i \in DOMAIN film[m].genres
  PROVE  film[m].genres[i] \in Genres
  BY GenreListsAssumption DEF MovieTypeOK, Films

LEMMA GenreGoes ==
  ASSUME MovieTypeOK, TrailerInv, NEW g \in Genres,
         CreateMovieGenre(g) \/ DeleteMovieGenre(g)
  PROVE  DeletedStay /\ \A m \in Movies : GoesOn(m)
<1> USE DEF MovieTypeOK, partVars, uploadVars
<1>1. DeletedStay
  BY DEF CreateMovieGenre, DeleteMovieGenre, DeletedStay
<1>2. UNCHANGED <<film, movie, movieCall, pictureRow, trailer, picture>>
  BY DEF CreateMovieGenre, DeleteMovieGenre
<1>3. \A h \in Genres : genre'[h] = genre[h] \/ (h = g /\ genre'[h] # "absent")
  BY DEF CreateMovieGenre, DeleteMovieGenre
<1>4. ASSUME NEW m \in Movies, NEW h \in Genres, genre'[h] = "present", genre[h] = "present",
             <<m, h>> \in genreLinks
      PROVE  <<m, h>> \in genreLinks'
  BY <1>4 DEF CreateMovieGenre, DeleteMovieGenre
<1>5. ASSUME NEW m \in Movies PROVE GoesOn(m)
  <2>1. GenresGone(m) => GenresGone(m)'
    BY <1>1, <1>2, GenreOfFilm DEF GenresGone, DeletedStay
  <2>2. GenresLinked(m) => GenresLinked(m)'
    <3>1. ASSUME GenresLinked(m), NEW i \in DOMAIN film[m].genres
          PROVE  LET h == film[m].genres[i] IN
                 genre'[h] # "absent" /\ (genre'[h] = "present" => <<m, h>> \in genreLinks')
      <4> DEFINE h == film[m].genres[i]
      <4>1. h \in Genres
        BY GenreOfFilm
      <4>2. genre[h] # "absent" /\ (genre[h] = "present" => <<m, h>> \in genreLinks)
        BY <3>1 DEF GenresLinked
      <4> HIDE DEF h
      <4>3. genre'[h] # "absent"
        BY <1>3, <4>1, <4>2
      <4>4. genre'[h] = "present" => genre[h] = "present"
        BY <1>1, <4>1, <4>2 DEF DeletedStay, Rows
      <4>5. QED
        BY <1>4, <4>1, <4>2, <4>3, <4>4 DEF h
    <3>2. QED
      BY <1>2, <3>1 DEF GenresLinked
  <2>3. QED
    BY <1>2, <2>1, <2>2
       DEF TrailerInv, GoesOn, ComesWhole, Settled, HalfMadeStays, HalfMade, Exists, HasPoster
<1>6. QED
  BY <1>1, <1>5

LEMMA CallGoesOn ==
  ASSUME MovieTypeOK, PartInv, WholeInv, TrailerInv, NEW n \in Movies,
         StartCreateMovie(n) \/ CreateMovieStep(n)
  PROVE  DeletedStay /\ \A m \in Movies : GoesOn(m)
<1> USE DEF MovieTypeOK, partVars, uploadVars, MovieStepFrom
<1>1. ASSUME InsertMovie(n) PROVE DeletedStay /\ \A m \in Movies : GoesOn(m)
  <2>1. movie[n] = "absent" /\ n \notin trailer
    BY <1>1 DEF InsertMovie, TrailerInv, ComesWhole, PartInv, Exists
  <2>2. QED
    BY <1>1, <2>1 DEF InsertMovie, TrailerInv, DeletedStay, GoesOn, ComesWhole, GenresLinked,
       Settled, GenresGone, HalfMadeStays, HalfMade, Exists, HasPoster
<1>2. ASSUME LinkGenres(n) PROVE DeletedStay /\ \A m \in Movies : GoesOn(m)
  <2>1. UNCHANGED <<genre, film, movie, pictureRow, trailer>> /\ genreLinks \subseteq genreLinks'
    BY <1>2 DEF LinkGenres
  <2>2. \A m \in Movies : HalfMade(m) =>
          movieCall'[m] = "failed" /\ picture'[<<m, Poster>>] = picture[<<m, Poster>>]
    BY <1>2 DEF LinkGenres, HalfMade, Picture
  <2>3. \A m \in Movies : movieCall'[m] \in {"idle", "title"} => movieCall[m] \in {"idle", "title"}
    BY <1>2 DEF LinkGenres
  <2>4. QED
    BY <2>1, <2>2, <2>3 DEF TrailerInv, DeletedStay, GoesOn, ComesWhole, GenresLinked,
       Settled, GenresGone, HalfMadeStays, HalfMade, Exists, HasPoster
<1>3. ASSUME InsertTrailer(n) PROVE DeletedStay /\ \A m \in Movies : GoesOn(m)
  <2>1. GenresLinked(n) /\ \A i \in Images \union {Poster} : <<n, i>> \in pictureRow
    BY <1>3 DEF InsertTrailer, WholeInv, MadeOK
  <2>2. QED
    BY <1>3, <2>1 DEF InsertTrailer, TrailerInv, DeletedStay, GoesOn, ComesWhole, GenresLinked,
       Settled, GenresGone, HalfMadeStays, HalfMade, Exists, HasPoster
<1>4. ASSUME \/ StartCreateMovie(n) \/ RefuseTitle(n) \/ RefuseGenres(n)
             \/ FinishImages(n) \/ FinishPoster(n) \/ TrailerFindsNoMovie(n)
      PROVE  DeletedStay /\ \A m \in Movies : GoesOn(m)
  <2>1. UNCHANGED <<genre, film, movie, partVars>>
    BY <1>4 DEF StartCreateMovie, RefuseTitle, RefuseGenres, FinishImages, FinishPoster,
                TrailerFindsNoMovie
  <2>2. ASSUME NEW m \in Movies, movieCall'[m] \in {"idle", "title"}
        PROVE  movie[m] = "absent"
    BY <1>4, <2>2 DEF StartCreateMovie, RefuseTitle, RefuseGenres, FinishImages,
       FinishPoster, TrailerFindsNoMovie, TrailerInv, ComesWhole
  <2>3. ASSUME NEW m \in Movies, HalfMade(m)
        PROVE  /\ movieCall'[m] = "failed"
               /\ picture'[<<m, Poster>>] \notin {"reading", "inserting"}
    BY <1>4, <2>3 DEF StartCreateMovie, RefuseTitle, RefuseGenres, FinishImages,
       FinishPoster, TrailerFindsNoMovie, HalfMade, Picture
  <2>4. QED
    BY <2>1, <2>2, <2>3, OnlyCall DEF DeletedStay, TrailerInv
<1>5. QED
  BY <1>1, <1>2, <1>3, <1>4 DEF CreateMovieStep

LEMMA PictureGoesOn ==
  ASSUME MovieTypeOK, TrailerInv, NEW q \in Picture,
         \/ ReadMovieOfPicture(q) \/ InsertPicture(q) \/ PictureThrows(q) \/ UploadFinishes(q)
  PROVE  DeletedStay /\ \A m \in Movies : GoesOn(m)
<1> USE DEF MovieTypeOK, partVars, uploadVars
<1>1. UNCHANGED <<genre, film, movie, genreLinks, trailer>> /\ pictureRow \subseteq pictureRow'
  BY DEF ReadMovieOfPicture, InsertPicture, PictureThrows, UploadFinishes
<1>2. \A m \in Movies : movieCall'[m] = movieCall[m] \/ movieCall'[m] = "failed"
  BY DEF ReadMovieOfPicture, InsertPicture, PictureThrows, UploadFinishes, Picture
<1>3. ASSUME NEW m \in Movies, picture[<<m, Poster>>] \notin {"reading", "inserting"}
      PROVE  /\ picture'[<<m, Poster>>] \notin {"reading", "inserting"}
             /\ <<m, Poster>> \in pictureRow' => <<m, Poster>> \in pictureRow
  BY <1>3 DEF ReadMovieOfPicture, InsertPicture, PictureThrows, UploadFinishes, Picture
<1>4. QED
  BY <1>1, <1>2, <1>3 DEF TrailerInv, DeletedStay, GoesOn, ComesWhole, GenresLinked,
     Settled, GenresGone, HalfMadeStays, HalfMade, Exists, HasPoster

LEMMA DeletionGoesOn ==
  ASSUME MovieTypeOK, TrailerInv, NEW n \in Movies, DeleteMovie(n)
  PROVE  DeletedStay /\ \A m \in Movies : GoesOn(m)
<1> USE DEF MovieTypeOK, uploadVars
<1>1. DeletedStay
  BY DEF DeleteMovie, DeletedStay
<1>2. ASSUME NEW m \in Movies, m # n PROVE GoesOn(m)
  BY <1>2 DEF DeleteMovie, TrailerInv, GoesOn, ComesWhole, GenresLinked, Settled,
     GenresGone, HalfMadeStays, HalfMade, Exists, HasPoster
<1>3. GoesOn(n)
  <2>1. movie'[n] = "deleted" /\ n \notin trailer' /\ movieCall' = movieCall
    BY DEF DeleteMovie
  <2>2. GenresOf(n) = {}
    BY DEF DeleteMovie, GenresOf
  <2>3. n \in trailer => GenresGone(n)'
    <3>1. ASSUME n \in trailer, NEW i \in DOMAIN film[n].genres
          PROVE  genre[film[n].genres[i]] = "deleted"
      <4>1. film[n].genres[i] \in Genres
        BY GenreOfFilm
      <4>2. genre[film[n].genres[i]] # "absent" /\ genre[film[n].genres[i]] # "present"
        BY <3>1, <4>1 DEF TrailerInv, ComesWhole, GenresLinked, DeleteMovie
      <4>3. QED
        BY <4>1, <4>2 DEF Rows
    <3>2. QED
      BY <3>1 DEF GenresGone, DeleteMovie
  <2>4. movieCall[n] \notin {"idle", "title"}
    BY DEF DeleteMovie, Exists, TrailerInv, ComesWhole
  <2>5. n \notin trailer => ~ Settled(n)
    BY DEF DeleteMovie, Exists, Settled
  <2>6. QED
    BY <2>1, <2>2, <2>3, <2>4, <2>5 DEF GoesOn, ComesWhole, Settled, HalfMadeStays
<1>4. QED
  BY <1>1, <1>2, <1>3

LEMMA MoviesGoOn ==
  ASSUME IInv, TrailerInv, [Next]_vars
  PROVE  DeletedStay /\ \A m \in Movies : GoesOn(m)
<1>1. MovieTypeOK /\ PartInv /\ WholeInv
  BY DEF IInv, TypeOK
<1>2. CASE MovieStepping
  BY <1>1, <1>2, GenreGoes, CallGoesOn, PictureGoesOn
     DEF MovieStepping, CreatePictureStep, PictureFindsNoMovie
<1>3. CASE \E m \in Movies : DeleteMovie(m)
  BY <1>1, <1>3, DeletionGoesOn
<1>4. CASE MovieFault
  <2>1. ASSUME NEW n \in Movies, CreateMovieFails(n)
        PROVE  DeletedStay /\ \A m \in Movies : GoesOn(m)
    <3>1. UNCHANGED <<genre, film, movie, partVars, picture>>
      BY <2>1 DEF CreateMovieFails, uploadVars
    <3>2. \A m \in Movies : movieCall'[m] = movieCall[m] \/ movieCall'[m] = "failed"
      BY <1>1, <2>1 DEF CreateMovieFails, MovieTypeOK
    <3>3. QED
      BY <3>1, <3>2, OnlyCall DEF DeletedStay, TrailerInv, ComesWhole, HalfMade
  <2>2. QED
    BY <1>1, <1>4, <2>1, PictureGoesOn DEF MovieFault, PictureFails
<1>5. CASE MoviesInterrupted
  <2>1. UNCHANGED <<genre, film, movie, partVars>>
    BY <1>5 DEF MoviesInterrupted
  <2>2. \A m \in Movies : movieCall'[m] = movieCall[m] \/ movieCall'[m] = "failed"
    BY <1>5 DEF MoviesInterrupted
  <2>3. \A m \in Movies : picture'[<<m, Poster>>] \notin {"reading", "inserting"}
    BY <1>5 DEF MoviesInterrupted, Picture
  <2>4. QED
    BY <2>1, <2>2, <2>3, OnlyCall DEF DeletedStay, TrailerInv, ComesWhole, HalfMade
<1>6. CASE UNCHANGED movieVars
  BY <1>6, OnlyCall DEF movieVars, uploadVars, DeletedStay, TrailerInv, ComesWhole, HalfMade
<1>7. QED
  BY <1>2, <1>3, <1>4, <1>5, <1>6, MovieSteps

---------------------------------------------------------------------------
(* Pages *)

LEMMA PagesInitially == PagesInit => PagesInv
<1> SUFFICES ASSUME PagesInit PROVE PagesInv
  OBVIOUS
<1>1. IInv
  BY IInvInitially DEF PagesInit
<1>2. TrailerInv
  BY DEF PagesInit, Init, MovieInit, TrailerInv, ComesWhole
<1>3. PageTypeOK
  BY DEF PagesInit, PageInit, PageTypeOK, Page, PageStep
<1>4. \A m \in Pages : PageOK(m)
  BY DEF PagesInit, PageInit, PageOK
<1>5. QED
  BY <1>1, <1>2, <1>3, <1>4 DEF PagesInv

(* A page that was right stays right, whatever becomes of its movie.         *)
LEMMA PageStands ==
  ASSUME IInv, TrailerInv, [Next]_vars, NEW m \in Pages, PageOK(m), page' = page
  PROVE  PageOK(m)'
<1>1. DeletedStay /\ GoesOn(m)
  BY MoviesGoOn, PagesAssumption
<1>2. film' = film
  BY NothingReplanned
<1>3. \A i \in DOMAIN film[m].genres : film[m].genres[i] \in Genres
  BY GenreOfFilm, PagesAssumption DEF IInv, TypeOK
<1>4. m \in Movies
  BY PagesAssumption
<1>5. Settled(m) => Settled(m)'
  BY <1>1 DEF GoesOn
<1> HIDE DEF Settled
<1>6. QED
  BY <1>1, <1>2, <1>3, <1>4, <1>5 DEF PageOK, DeletedStay

LEMMA MovieRead ==
  ASSUME PagesInv, NEW n \in Pages, GetMovieById(n), UNCHANGED vars
  PROVE  PageOK(n)'
<1>1. page'[n].poster = PosterShown(n) /\ page'[n].step \in {"genres", "failed"}
  BY DEF GetMovieById, PagesInv, PageTypeOK, Page
<1>2. PosterShown(n) => Settled(n)
  BY DEF PosterShown, Settled
<1>3. Settled(n)' = Settled(n)
  BY DEF Settled, GenresGone, vars, movieVars, partVars
<1>4. QED
  BY <1>1, <1>2, <1>3 DEF PageOK

LEMMA GenresRead ==
  ASSUME PagesInv, NEW n \in Pages, GetMovieGenreListByMovieId(n), UNCHANGED vars
  PROVE  PageOK(n)'
<1>1. n \in Movies
  BY PagesAssumption
<1>2. /\ page[n].step = "genres" /\ page'[n].step = "images"
      /\ page'[n].genres = GenresOf(n)
      /\ page'[n].poster = page[n].poster
  BY DEF GetMovieGenreListByMovieId, PagesInv, PageTypeOK, Page
<1>3. Settled(n)' = Settled(n)
  BY DEF Settled, GenresGone, vars, movieVars, partVars
<1>4. film' = film /\ genre' = genre
  BY DEF vars, movieVars
<1>5. ASSUME Settled(n), NEW i \in DOMAIN film[n].genres
      PROVE  film[n].genres[i] \in GenresOf(n) \/ genre[film[n].genres[i]] = "deleted"
  <2>1. film[n].genres[i] \in Genres
    BY <1>1, GenreOfFilm DEF PagesInv, IInv, TypeOK
  <2>2. CASE GenresGone(n)
    BY <2>2 DEF GenresGone
  <2>3. CASE n \in trailer
    <3>1. /\ genre[film[n].genres[i]] # "absent"
          /\ genre[film[n].genres[i]] = "present" => <<n, film[n].genres[i]>> \in genreLinks
      BY <1>1, <2>3 DEF PagesInv, TrailerInv, ComesWhole, GenresLinked
    <3>2. genre[film[n].genres[i]] \in Rows
      BY <2>1 DEF PagesInv, IInv, TypeOK, MovieTypeOK
    <3>3. QED
      BY <2>1, <3>1, <3>2 DEF GenresOf, Rows
  <2>4. QED
    BY <1>5, <2>2, <2>3 DEF Settled
<1>6. page[n].poster => Settled(n)
  BY <1>2 DEF PagesInv, PageOK
<1>7. QED
  BY <1>2, <1>3, <1>4, <1>5, <1>6 DEF PageOK

LEMMA ImagesRead ==
  ASSUME PagesInv, NEW n \in Pages, GetMovieImageListByMovieId(n), UNCHANGED vars
  PROVE  PageOK(n)'
<1>1. n \in Movies
  BY PagesAssumption
<1>2. /\ page[n].step = "images" /\ page'[n].step = Converted(page[n].poster)
      /\ page'[n].images = ImagesOf(n)
      /\ page'[n].genres = page[n].genres
      /\ page'[n].poster = page[n].poster
  BY DEF GetMovieImageListByMovieId, PagesInv, PageTypeOK, Page
<1>3. Settled(n)' = Settled(n)
  BY DEF Settled, GenresGone, vars, movieVars, partVars
<1>4. film' = film /\ genre' = genre /\ movie' = movie
  BY DEF vars, movieVars
<1>5. Settled(n) => ImagesOf(n) = Images \/ movie[n] = "deleted"
  BY <1>1 DEF Settled, ImagesOf, PagesInv, TrailerInv, ComesWhole
<1>6. PageOK(n)
  BY DEF PagesInv
<1>7. QED
  BY <1>2, <1>3, <1>4, <1>5, <1>6 DEF PageOK, Converted

LEMMA PagesNextInv == PagesInv /\ [PagesNext]_pageVars => PagesInv'
<1> SUFFICES ASSUME PagesInv, [PagesNext]_pageVars PROVE PagesInv'
  OBVIOUS
<1>1. [Next]_vars
  BY DEF PagesNext, PageStepping, pageVars
<1>2. IInv' /\ TrailerInv'
  <2>1. IInv'
    BY <1>1, IInvPreserved DEF PagesInv
  <2>2. TrailerInv'
    BY <1>1, MoviesGoOn DEF PagesInv, TrailerInv, GoesOn
  <2>3. QED
    BY <2>1, <2>2
<1>3. CASE page' = page
  BY <1>1, <1>2, <1>3, PageStands DEF PagesInv, PageTypeOK
<1>4. ASSUME NEW n \in Pages, UNCHANGED vars,
             \/ GetMovieById(n) \/ GetMovieGenreListByMovieId(n)
             \/ GetMovieImageListByMovieId(n) \/ PageFails(n)
      PROVE  PagesInv'
  <2>1. PageTypeOK'
    BY <1>4, PagesAssumption
       DEF PagesInv, PageTypeOK, Page, PageStep, GetMovieById, GetMovieGenreListByMovieId,
           GetMovieImageListByMovieId, PageFails, PosterShown, GenresOf, ImagesOf, Converted
  <2>2. ASSUME NEW m \in Pages, m # n PROVE PageOK(m)'
    <3>1. page'[m] = page[m]
      BY <1>4, <2>2 DEF PagesInv, PageTypeOK, GetMovieById, GetMovieGenreListByMovieId,
                        GetMovieImageListByMovieId, PageFails
    <3>2. QED
      BY <1>4, <3>1 DEF PagesInv, PageOK, Settled, GenresGone, vars, movieVars, partVars
  <2>3. PageOK(n)'
    <3>1. CASE PageFails(n)
      BY <3>1 DEF PageFails, PagesInv, PageTypeOK, Page, PageOK
    <3>2. QED
      BY <1>4, <3>1, MovieRead, GenresRead, ImagesRead
  <2>4. QED
    BY <1>2, <2>1, <2>2, <2>3 DEF PagesInv
<1>5. QED
  BY <1>3, <1>4 DEF PagesNext, PageStepping, pageVars

(* The inductive invariant of the pages and MovieService together.           *)
THEOREM PagesInductive == PagesSpec => []PagesInv
  BY PagesInitially, PagesNextInv, PTL DEF PagesSpec

(* An answered page shows every genre and image its movie was made with,     *)
(* but for what was deleted, though it is read in three statements with no   *)
(* transaction around them (GetMovie, the gateway's conversion).             *)
THEOREM PagesAreWhole == PagesSpec => []PageIsWhole
<1>1. PagesInv => PageIsWhole
  BY DEF PagesInv, PageOK, PageIsWhole
<1>2. QED
  BY <1>1, PagesInductive, PTL

LEMMA NoPageWithoutPoster ==
  ASSUME PagesInv, [PagesNext]_pageVars, NEW m \in Pages, HalfMade(m),
         page[m].step # "answered"
  PROVE  page'[m].step # "answered"
<1>1. m \in Movies /\ m \notin trailer
  BY PagesAssumption DEF HalfMade, HasPoster, PagesInv, TrailerInv, ComesWhole
<1>2. ~ Settled(m)
  BY <1>1 DEF Settled, HalfMade, Exists
<1>3. page[m].step = "images" => Converted(page[m].poster) = "failed"
  BY <1>2 DEF PagesInv, PageOK, Converted
<1>4. page \in [Pages -> Page]
  BY DEF PagesInv, PageTypeOK
<1>5. ASSUME NEW n \in Pages,
             \/ GetMovieById(n) \/ GetMovieGenreListByMovieId(n)
             \/ GetMovieImageListByMovieId(n) \/ PageFails(n)
      PROVE  page'[m].step # "answered"
  <2>1. CASE n = m
    BY <1>3, <1>4, <1>5, <2>1 DEF Page, GetMovieById, GetMovieGenreListByMovieId,
       GetMovieImageListByMovieId, PageFails
  <2>2. CASE n # m
    BY <1>4, <1>5, <2>2 DEF GetMovieById, GetMovieGenreListByMovieId,
       GetMovieImageListByMovieId, PageFails
  <2>3. QED
    BY <2>1, <2>2
<1>6. QED
  BY <1>5 DEF PagesNext, PageStepping, pageVars

(* A movie whose call failed before its poster had a row is never mended:    *)
(* its page is not answered and every list with it fails until it is         *)
(* deleted, which it cannot be while it has a genre (CreateMovie undoes      *)
(* nothing, and no call makes a picture later).                              *)
THEOREM HalfMadeMovieStays == PagesSpec => HalfMadeForGood
<1> DEFINE Stays ==
      \A m \in Movies :
        HalfMade(m) =>
          /\ \/ HalfMade(m)' /\ \A S \in SUBSET Movies : m \in S => ~ ListAnswered(S)'
             \/ movie'[m] = "deleted" /\ GenresOf(m) = {}
          /\ m \in Pages /\ page[m].step # "answered" => page'[m].step # "answered"
<1>1. ASSUME PagesInv, [PagesNext]_pageVars, NEW m \in Movies, HalfMade(m)
      PROVE  \/ HalfMade(m)' /\ \A S \in SUBSET Movies : m \in S => ~ ListAnswered(S)'
             \/ movie'[m] = "deleted" /\ GenresOf(m) = {}
  <2>1. [Next]_vars
    BY <1>1 DEF PagesNext, PageStepping, pageVars
  <2>2. HalfMadeStays(m)
    BY <1>1, <2>1, MoviesGoOn DEF PagesInv, GoesOn
  <2>3. HalfMade(m)' => \A S \in SUBSET Movies : m \in S => ~ ListAnswered(S)'
    BY DEF HalfMade, ListAnswered
  <2>4. QED
    BY <2>2, <2>3 DEF HalfMadeStays
<1>2. PagesInv /\ [PagesNext]_pageVars => Stays
  BY <1>1, NoPageWithoutPoster
<1>3. QED
  BY <1>2, PagesInductive, PTL DEF PagesSpec, HalfMadeForGood
============================================================================
