------------------------ MODULE AuthorizerRefinement ------------------------
(***************************************************************************)
(* The request path keeps the promise of AccessOracle: its lookups, calls  *)
(* and reviews are invisible, and the step that replies is the one step in *)
(* which the oracle speaks.                                                *)
(***************************************************************************)
EXTENDS AuthorizerInvariant

Oracle == INSTANCE AccessOracle WITH
    Bounded  <- Expires,
    MaxStale <- MaxAge,
    busy     <- {c \in Conns : InFlight(c)},
    answer   <- [c \in Conns |-> IF InFlight(c) THEN Pending ELSE answer[c]],
    since    <- [c \in Conns |-> IF InFlight(c) THEN asOf[c] ELSE 0]

(* Every request is turned down, fails, or is answered once, by what the   *)
(* API server has said since one moment, which is at most the time entries *)
(* are kept plus the longest request ago, however its calls interleave     *)
(* with other requests, with evictions and with changes of access          *)
(* (handler.go New, authorizer.go Authorize, internal/cache).              *)
ImplementsOracle == Oracle!Spec

=============================================================================
