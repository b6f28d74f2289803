---------------------------- MODULE MCLinkUploads ----------------------------
(* Model checking of LinkUploads: three requests, each an upload to a named  *)
(* session with or without a key, an upload to a session of its own, or a    *)
(* JSON call; two slots, and retention of a single job.                      *)
EXTENDS LinkUploads, TLC

CONSTANTS s1, k1      \* a session and a key

Sent == {[route |-> "link", session |-> s1, key |-> k1],
         [route |-> "link", session |-> s1, key |-> None],
         [route |-> "link", session |-> None, key |-> k1],
         [route |-> "json", session |-> None, key |-> k1]}

Interchangeable == Permutations(Requests)
=============================================================================
