------------------------------- MODULE Prices -------------------------------
(***************************************************************************)
(* MovieService: the rows its seeds and its initialization job write, the  *)
(* seats of a screen, and the price of a seat at a showtime.  No state:    *)
(* Setup says which of the rows are there.                                 *)
(***************************************************************************)
EXTENDS Integers

MovieTypeIds == 1 .. 4
SeatTypeId == [NORMAL |-> 1, VIP |-> 2]
ShowtimeSlotType == [BEFORE5PM |-> 1, AFTER5PM |-> 2]
ShowtimeDayOfTheWeekType == [MONTOTHIRS |-> 1, FRITOSUN |-> 2]

(* The seed of the screen types: small, medium and large, flat and 3D. *)
ScreenTypeSeed ==
  LET Size(k) == CASE k % 3 = 1 -> [seatCount |-> 90, rowCount |-> 9, seatOfRowCount |-> 10]
                   [] k % 3 = 2 -> [seatCount |-> 120, rowCount |-> 10, seatOfRowCount |-> 12]
                   [] OTHER -> [seatCount |-> 150, rowCount |-> 10, seatOfRowCount |-> 15]
  IN  [k \in 1 .. 6 |-> Size(k)]

DefaultLinks == ({1, 2} \X (1 .. 3)) \union ({3, 4} \X (4 .. 6))

(* The rows [movie type, seat type, slot, day, price], the price in thousands *)
(* of VND: 3D is 50 more, a VIP seat 10, and a day of the weekend 20.         *)
PriceKeys == MovieTypeIds \X {1, 2} \X {1, 2} \X {1, 2}

(* Mutant: no weekend evenings. *)
PricesByDay ==
  [k \in {k \in PriceKeys : k[3] = 1 \/ k[4] = 1} |-> 100]

Extra(k) ==
  (IF k[2] = SeatTypeId.VIP THEN 10 ELSE 0)
  + (IF k[4] = ShowtimeDayOfTheWeekType.FRITOSUN THEN 20 ELSE 0)

Price2D(k) == 100 + Extra(k)
Price3D(k) == 150 + Extra(k)

DefaultPrices ==
  [k \in PriceKeys |-> IF k[1] \in {1, 2} THEN Price2D(k) ELSE Price3D(k)]

(* createAllSeatOfScreen: rows C to F are VIP. *)
SeatPlan(type) ==
  {[row |-> i, column |-> j,
    type |-> IF i > 2 /\ i < 7 THEN SeatTypeId.VIP ELSE SeatTypeId.NORMAL] :
     i \in 1 .. type.rowCount, j \in 1 .. type.seatOfRowCount}

(* Hours from 0; days from 0, which is Sunday. *)
GetSlotId(hour) ==
  IF hour < 17 THEN ShowtimeSlotType.BEFORE5PM ELSE ShowtimeSlotType.AFTER5PM

GetDayOfTheWeekId(day) ==
  IF day > 0 /\ day < 5 THEN ShowtimeDayOfTheWeekType.MONTOTHIRS
  ELSE ShowtimeDayOfTheWeekType.FRITOSUN

NoPrice == -1

(* getPrice, over the rows that are there. *)
GetPrice(prices, movieType, seatType, hour, day) ==
  LET k == <<movieType, seatType, GetSlotId(hour), GetDayOfTheWeekId(day)>> IN
  IF k \in DOMAIN prices THEN prices[k] ELSE NoPrice
=============================================================================
