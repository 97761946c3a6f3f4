------------------------- MODULE MCSourceSelection -------------------------
(***************************************************************************)
(* The feeds of a small instance.  GLM has one minute twice; radar has a   *)
(* file of another variable and a station that is filtered out; INTA has a *)
(* scan of another range; WRF has a step 0.                                *)
(***************************************************************************)
EXTENDS SourceSelection

CONSTANTS A, B, C

Scan(s, t, match, head) == [station |-> s, t |-> t, match |-> match, head |-> head]

MCFiles == [f \in Families |->
    CASE f = "abi" -> {[t |-> t] : t \in {0, 1, 2, 3}}
      [] f = "glm" -> {[t |-> t, v |-> 0] : t \in 1 .. 4} \cup {[t |-> 2, v |-> 1]}
      [] f = "radar" ->
            {Scan(A, t, TRUE, "ok") : t \in {2, 3, 4}} \cup
            {Scan(B, 3, TRUE, "ok"), Scan(A, 3, FALSE, "ok"), Scan(C, 3, TRUE, "ok")}
      [] f = "inta" ->
            {Scan(A, t, TRUE, "ok") : t \in {2, 3}} \cup
            {Scan(A, 4, TRUE, "short"), Scan(B, 3, TRUE, "ok")}
      [] f = "wrf" -> {[run |-> r, step |-> s] : r \in {1, 2, 3}, s \in {0, 1}}
      [] OTHER -> {}]

MCStations == {A, B}
=============================================================================
