------------------------ MODULE MCIdempotentRequests ------------------------
(* Small instances of IdempotentRequests for TLC.                          *)
EXTENDS IdempotentRequests, TLC

CONSTANTS r1, r2, r3, r4, k1

(* One request, and two duplicates of it.                                  *)
OneKey == [r \in Requests |-> k1]

(* The same, and a request without a key.                                  *)
PlainToo == r1 :> k1 @@ r2 :> k1 @@ r3 :> k1 @@ r4 :> NoKey
=============================================================================
