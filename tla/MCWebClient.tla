---------------------------- MODULE MCWebClient -----------------------------
EXTENDS WebClient

(* The resync and the reader have two pages in flight between them.        *)
TwoInFlight == Cardinality(fetches) <= 2

=============================================================================
