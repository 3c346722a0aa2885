--------------------------- MODULE MCWeatherQuery ---------------------------
(* Instances of WeatherQuery for TLC. *)
EXTENDS WeatherQuery, TLC

CONSTANTS xian, beijing, weather, main

\* weather.cpp inserts nothing, main.cpp one row.
AsShipped == (weather :> << >>) @@ (main :> <<<<xian, "">>>>)

\* What an earlier table may hold: one city under its name, one with "+".
Earlier == {<<xian, "">>, <<beijing, "+">>}
=============================================================================
