------------------------------ MODULE MCLogger ------------------------------
(* Instances of Logger for TLC. *)
EXTENDS Logger

\* Two calls with different ids.
TwoIds == <<"a", "b">>
=============================================================================
