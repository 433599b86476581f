--------------------------- MODULE MCStreamFanOut ---------------------------
(* Values for the constants of StreamFanOut. *)
EXTENDS StreamFanOut, TLC

CONSTANTS r1, r2, r3, c1, c2

OneRequest    == {r1}
TwoRequests   == {r1, r2}
ThreeRequests == {r1, r2, r3}
OneClient     == {c1}
TwoClients    == {c1, c2}

\* Requests are interchangeable, and so are clients.  Safety runs only.
Interchangeable == Permutations(Requests) \cup Permutations(Clients)
=============================================================================
