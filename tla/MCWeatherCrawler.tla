-------------------------- MODULE MCWeatherCrawler --------------------------
(* Instances of WeatherCrawler for TLC. *)
EXTENDS WeatherCrawler
=============================================================================
