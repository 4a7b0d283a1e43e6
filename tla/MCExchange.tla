----------------------------- MODULE MCExchange -----------------------------
(* A small instance of Exchange. *)
EXTENDS Exchange

CONSTANTS s1, s2, s3

AllOrTwo == {0, 2}

\* Three sites the other server has, the third one also deleted or unknown yet.
TwoOrThree ==
    {[s \in {s1, s2, s3} |-> IF s = s3 THEN r ELSE [status |-> "active", time |-> 1]] :
        r \in [status : {"active", "deleted"}, time : {1}] \cup [status : {"none"}, time : {0}]}
=============================================================================
