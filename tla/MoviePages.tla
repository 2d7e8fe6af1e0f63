----------------------------- MODULE MoviePages -----------------------------
(***************************************************************************)
(* The page of a movie, and the lists of movies, as the gateway shows them *)
(* while movies are made and deleted.  A page is read in three statements  *)
(* with no transaction around them; a list in one.  The gateway answers    *)
(* neither when a movie in it comes without its poster.                    *)
(***************************************************************************)
EXTENDS MovieService

CONSTANT Pages  \* the movies whose page is asked for, once each

ASSUME PagesAssumption == Pages \subseteq Movies

VARIABLE page   \* [step, poster, genres, images]: what a GetMovie has read

pageVars == <<vars, page>>

PageStep == {"idle", "genres", "images", "answered", "failed"}
Page == [step : PageStep, poster : BOOLEAN, genres : SUBSET Genres,
         images : SUBSET Images]

PageTypeOK == page \in [Pages -> Page]

PageInit ==
  page = [m \in Pages |-> [step |-> "idle", poster |-> FALSE,
                           genres |-> {}, images |-> {}]]

(* The join's columns of_movie_id of poster and trailer share a name; the   *)
(* trailer's comes last, so a movie without a trailer shows no poster.      *)
PosterShown(m) == m \in trailer

GetMovieById(m) ==
  /\ page[m].step = "idle"
  /\ page' = [page EXCEPT ![m].step = IF Exists(m) THEN "genres" ELSE "failed",
                          ![m].poster = PosterShown(m)]

GenresOf(m) == {g \in Genres : <<m, g>> \in genreLinks}

GetMovieGenreListByMovieId(m) ==
  /\ page[m].step = "genres"
  /\ page' = [page EXCEPT ![m].step = "images", ![m].genres = GenresOf(m)]

ImagesOf(m) == {i \in Images : <<m, i>> \in pictureRow}

(* The gateway converts what it was answered, or throws. *)
Converted(poster) == IF poster THEN "answered" ELSE "failed"

GetMovieImageListByMovieId(m) ==
  /\ page[m].step = "images"
  /\ page' = [page EXCEPT ![m].step = Converted(page[m].poster),
                          ![m].images = ImagesOf(m)]

PageFails(m) ==
  /\ page[m].step \in {"genres", "images"}
  /\ page' = [page EXCEPT ![m].step = "failed"]

PageStepping ==
  /\ \E m \in Pages :
       \/ GetMovieById(m)
       \/ GetMovieGenreListByMovieId(m)
       \/ GetMovieImageListByMovieId(m)
       \/ PageFails(m)
  /\ UNCHANGED vars

PagesInit == Init /\ PageInit

PagesNext == (Next /\ UNCHANGED page) \/ PageStepping

PagesSpec == PagesInit /\ [][PagesNext]_pageVars

PagesFairSpec == PagesSpec /\ Fairness

---------------------------------------------------------------------------
(* The list of the movies in S, whose rows come with their posters'.        *)
HasPoster(m) == <<m, Poster>> \in pictureRow

ListAnswered(S) == \A m \in S : HasPoster(m)

---------------------------------------------------------------------------
(* Properties *)

(* A page that is answered shows every genre the movie was made with and    *)
(* that is still there, and every image, or the movie was deleted meanwhile: *)
(* nobody gets the page of a movie that is being made, and no deletion      *)
(* between the three reads leaves anything else out.                        *)
PageIsWhole ==
  \A m \in Pages :
    page[m].step = "answered" =>
      /\ \A i \in DOMAIN film[m].genres :
           film[m].genres[i] \in page[m].genres \/ genre[film[m].genres[i]] = "deleted"
      /\ page[m].images = Images \/ movie[m] = "deleted"

(* The call that made the movie has failed before its poster had a row.     *)
HalfMade(m) ==
  /\ Exists(m)
  /\ movieCall[m] = "failed"
  /\ ~ HasPoster(m)
  /\ picture[<<m, Poster>>] \notin {"reading", "inserting"}

(* Such a movie is never mended: its page is not answered, and every list   *)
(* that selects it fails as a whole, until it is deleted; and it cannot be  *)
(* deleted as long as it has a genre.                                       *)
HalfMadeForGood ==
  [][\A m \in Movies :
       HalfMade(m) =>
         /\ \/ HalfMade(m)' /\ \A S \in SUBSET Movies : m \in S => ~ ListAnswered(S)'
            \/ movie'[m] = "deleted" /\ GenresOf(m) = {}
         /\ m \in Pages /\ page[m].step # "answered" => page'[m].step # "answered"]_pageVars
============================================================================
