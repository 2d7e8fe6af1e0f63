------------------------------- MODULE Movies -------------------------------
(***************************************************************************)
(* MovieService: genres, and movies with their genres, images, poster and  *)
(* trailer.                                                                *)
(*                                                                         *)
(* A CreateMovie call inserts at most one movie, so m names both.  It runs *)
(* one transaction after another and undoes none: a movie whose call fails *)
(* half way stays as it is.  The images are made at the same time; the     *)
(* upload of an image or a poster is started and not waited for.           *)
(*                                                                         *)
(* Each of the call's transactions ends with its inserts, so it is one     *)
(* step: what it reads is locked or guarded by an index until it commits.  *)
(***************************************************************************)
EXTENDS Naturals, Sequences

CONSTANTS
  Movies,      \* CreateMovie calls, and their movies
  Titles,      \* titles, after sanitizeTitle
  MovieTypes,  \* movie types, rows of a seed
  Durations,   \* durations; 0 when the request has none
  Genres,      \* genres
  GenreLists,  \* lists of genre ids a request may hold
  Images,      \* the images of a movie
  Poster       \* and its poster

ASSUME DurationsAssumption == Durations \subseteq Nat
ASSUME GenreListsAssumption == GenreLists \subseteq Seq(Genres)
ASSUME PosterAssumption == Poster \notin Images

VARIABLES
  genre,       \* the row of a genre
  film,        \* [title, type, duration, genres] a call asks for
  movie,       \* the row of a movie
  movieCall,   \* where the CreateMovie call is
  genreLinks,  \* pairs of a movie and a genre
  picture,     \* where createImage or createPoster is
  pictureRow,  \* pictures with a row
  file,        \* the file of a picture in the object store
  trailer      \* movies with a trailer

partVars == <<genreLinks, pictureRow, trailer>>
uploadVars == <<picture, file>>
movieVars == <<genre, film, movie, movieCall, partVars, uploadVars>>

Rows == {"absent", "present", "deleted"}
Picture == Movies \X (Images \union {Poster})
Films == [title : Titles, type : MovieTypes, duration : Durations,
          genres : GenreLists]
MovieStep == {"idle", "title", "genres", "pictures", "poster", "trailer",
              "done", "failed"}
PictureStep == {"idle", "reading", "inserting", "done", "failed"}
File == {"none", "uploading", "stored", "lost"}

MovieTypeOK ==
  /\ genre \in [Genres -> Rows]
  /\ film \in [Movies -> Films]
  /\ movie \in [Movies -> Rows]
  /\ movieCall \in [Movies -> MovieStep]
  /\ genreLinks \subseteq Movies \X Genres
  /\ picture \in [Picture -> PictureStep]
  /\ pictureRow \subseteq Picture
  /\ file \in [Picture -> File]
  /\ trailer \subseteq Movies

MovieInit ==
  /\ genre \in [Genres -> {"absent", "present"}]
  /\ film \in [Movies -> Films]
  /\ movie = [m \in Movies |-> "absent"]
  /\ movieCall = [m \in Movies |-> "idle"]
  /\ genreLinks = {}
  /\ picture = [q \in Picture |-> "idle"]
  /\ pictureRow = {}
  /\ file = [q \in Picture |-> "none"]
  /\ trailer = {}

---------------------------------------------------------------------------
(* Genres *)

CreateMovieGenre(g) ==
  /\ genre[g] = "absent"
  /\ genre' = [genre EXCEPT ![g] = "present"]
  /\ UNCHANGED <<film, movie, movieCall, partVars, uploadVars>>

(* The movies of a genre lose it. *)
DeleteMovieGenre(g) ==
  /\ genre[g] = "present"
  /\ genre' = [genre EXCEPT ![g] = "deleted"]
  /\ genreLinks' = genreLinks \ (Movies \X {g})
  /\ UNCHANGED <<film, movie, movieCall, pictureRow, trailer, uploadVars>>

---------------------------------------------------------------------------
(* CreateMovie *)

Exists(m) == movie[m] = "present"

MovieStepFrom(m, from, to) ==
  /\ movieCall[m] = from
  /\ movieCall' = [movieCall EXCEPT ![m] = to]

(* The check of the genres is a promise, and so always true. *)
StartCreateMovie(m) ==
  /\ MovieStepFrom(m, "idle", "title")
  /\ UNCHANGED <<genre, film, movie, partVars, uploadVars>>

(* The unique index over titles. *)
TitleTaken(m) ==
  \E n \in Movies : Exists(n) /\ film[n].title = film[m].title

InsertMovie(m) ==
  /\ ~ TitleTaken(m)
  /\ MovieStepFrom(m, "title", "genres")
  /\ movie' = [movie EXCEPT ![m] = "present"]
  /\ UNCHANGED <<genre, film, partVars, uploadVars>>

RefuseTitle(m) ==
  /\ TitleTaken(m)
  /\ MovieStepFrom(m, "title", "failed")
  /\ UNCHANGED <<genre, film, movie, partVars, uploadVars>>

(* The unique index over movie and genre, and the foreign keys. *)
Linkable(m) ==
  LET list == film[m].genres IN
  /\ Exists(m)
  /\ \A i \in DOMAIN list : genre[list[i]] = "present"
  /\ \A i, j \in DOMAIN list : i # j => list[i] # list[j]

(* A movie without images goes on to its poster. *)
LinkGenres(m) ==
  LET list == film[m].genres IN
  /\ Linkable(m)
  /\ MovieStepFrom(m, "genres", "pictures")
  /\ genreLinks' = genreLinks \union {<<m, list[i]>> : i \in DOMAIN list}
  /\ picture' = [q \in Picture |->
                   IF q[1] = m /\ q[2] # Poster THEN "reading" ELSE picture[q]]
  /\ UNCHANGED <<genre, film, movie, pictureRow, trailer, file>>

RefuseGenres(m) ==
  /\ ~ Linkable(m)
  /\ MovieStepFrom(m, "genres", "failed")
  /\ UNCHANGED <<genre, film, movie, partVars, uploadVars>>

(* Mutant: the images are not waited for. *)
FinishImagesAtOnce(m) ==
  /\ MovieStepFrom(m, "pictures", "poster")
  /\ picture' = [picture EXCEPT ![<<m, Poster>>] = "reading"]
  /\ UNCHANGED <<genre, film, movie, partVars, file>>

FinishImages(m) ==
  /\ \A i \in Images : picture[<<m, i>>] = "done"
  /\ MovieStepFrom(m, "pictures", "poster")
  /\ picture' = [picture EXCEPT ![<<m, Poster>>] = "reading"]
  /\ UNCHANGED <<genre, film, movie, partVars, file>>

FinishPoster(m) ==
  /\ picture[<<m, Poster>>] = "done"
  /\ MovieStepFrom(m, "poster", "trailer")
  /\ UNCHANGED <<genre, film, movie, partVars, uploadVars>>

InsertTrailer(m) ==
  /\ Exists(m)
  /\ MovieStepFrom(m, "trailer", "done")
  /\ trailer' = trailer \union {m}
  /\ UNCHANGED <<genre, film, movie, genreLinks, pictureRow, uploadVars>>

TrailerFindsNoMovie(m) ==
  /\ ~ Exists(m)
  /\ MovieStepFrom(m, "trailer", "failed")
  /\ UNCHANGED <<genre, film, movie, partVars, uploadVars>>

---------------------------------------------------------------------------
(* Pictures: q is a pair of a movie and an image, or the poster *)

(* Mutant: nothing is uploaded before the row is there. *)
ReadMovieOfPictureOnly(q) ==
  /\ picture[q] = "reading"
  /\ Exists(q[1])
  /\ picture' = [picture EXCEPT ![q] = "inserting"]
  /\ UNCHANGED <<genre, film, movie, movieCall, partVars, file>>

(* The upload is under way before the row is there. *)
ReadMovieOfPicture(q) ==
  /\ picture[q] = "reading"
  /\ Exists(q[1])
  /\ picture' = [picture EXCEPT ![q] = "inserting"]
  /\ file' = [file EXCEPT ![q] = "uploading"]
  /\ UNCHANGED <<genre, film, movie, movieCall, partVars>>

InsertPicture(q) ==
  /\ picture[q] = "inserting"
  /\ Exists(q[1])
  /\ picture' = [picture EXCEPT ![q] = "done"]
  /\ pictureRow' = pictureRow \union {q}
  /\ UNCHANGED <<genre, film, movie, movieCall, genreLinks, trailer, file>>

(* Mutant: nobody hears of the error. *)
PictureThrowsUnheard(q) ==
  /\ picture[q] \in {"reading", "inserting"}
  /\ picture' = [picture EXCEPT ![q] = "failed"]
  /\ UNCHANGED <<genre, film, movie, movieCall, partVars, file>>

(* The first error fails the call; the other images go on. *)
PictureThrows(q) ==
  /\ picture[q] \in {"reading", "inserting"}
  /\ picture' = [picture EXCEPT ![q] = "failed"]
  /\ movieCall' = [movieCall EXCEPT ![q[1]] = "failed"]
  /\ UNCHANGED <<genre, film, movie, partVars, file>>

PictureFindsNoMovie(q) == ~ Exists(q[1]) /\ PictureThrows(q)

UploadFinishes(q) ==
  /\ file[q] = "uploading"
  /\ file' = [file EXCEPT ![q] = "stored"]
  /\ UNCHANGED <<genre, film, movie, movieCall, partVars, picture>>

---------------------------------------------------------------------------
(* Deleting, and failures *)

(* Mutant: the foreign key of the genres takes their links with the movie.  *)
DeleteMovieAndLinks(m) ==
  /\ Exists(m)
  /\ movie' = [movie EXCEPT ![m] = "deleted"]
  /\ genreLinks' = genreLinks \ ({m} \X Genres)
  /\ pictureRow' = {q \in pictureRow : q[1] # m}
  /\ trailer' = trailer \ {m}
  /\ UNCHANGED <<genre, film, movieCall, uploadVars>>

(* The foreign key of the genres lets no movie go that has one; images,     *)
(* poster and trailer go with it.  Their files stay.                        *)
DeleteMovie(m) ==
  /\ Exists(m)
  /\ \A g \in Genres : <<m, g>> \notin genreLinks
  /\ movie' = [movie EXCEPT ![m] = "deleted"]
  /\ pictureRow' = {q \in pictureRow : q[1] # m}
  /\ trailer' = trailer \ {m}
  /\ UNCHANGED <<genre, film, movieCall, genreLinks, uploadVars>>

CreateMovieFails(m) ==
  /\ movieCall[m] \in {"title", "genres", "trailer"}
  /\ movieCall' = [movieCall EXCEPT ![m] = "failed"]
  /\ UNCHANGED <<genre, film, movie, partVars, uploadVars>>

PictureFails(q) == PictureThrows(q)

(* The process of the gRPC server ends: nothing goes on, no upload arrives. *)
MoviesInterrupted ==
  /\ movieCall' = [m \in Movies |->
                     IF movieCall[m] \in {"idle", "done"} THEN movieCall[m]
                     ELSE "failed"]
  /\ picture' = [q \in Picture |->
                   IF picture[q] \in {"reading", "inserting"} THEN "failed"
                   ELSE picture[q]]
  /\ file' = [q \in Picture |->
                IF file[q] = "uploading" THEN "lost" ELSE file[q]]
  /\ UNCHANGED <<genre, film, movie, partVars>>
============================================================================
