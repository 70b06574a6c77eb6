--------------------------- MODULE MCServerChannel ---------------------------
(* Small instances of ServerChannel.                                         *)
EXTENDS ServerChannel, TLC

\* Handlers are interchangeable, and so are replies of the same kind.
Symmetric ==
    Permutations(Conns) \cup Permutations(Empty) \cup Permutations(Replies \ Empty)
==============================================================================
