---------------------------- MODULE MCHandshake -----------------------------
(***************************************************************************)
(* The sizes and version lists the handshake is explored with: both sides  *)
(* of every threshold, and the ways an entry of the list can be useless.   *)
(***************************************************************************)
EXTENDS Handshake

Version(major, minor) == [ok |-> TRUE, major |-> major, minor |-> minor]
Unparsable == [ok |-> FALSE, major |-> 0, minor |-> 0]

MCVersionLists ==
    {<<>>, <<Version(1, 9)>>, <<Version(2, -1)>>, <<Unparsable, Version(2, 0)>>,
     <<Version(3, 0), Version(1, 0)>>}

MCLens == {4, 5, 255, 256, 1000, MaxFrameSize, MaxFrameSize + 1}

=============================================================================
