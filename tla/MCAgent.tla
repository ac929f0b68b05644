------------------------------ MODULE MCAgent -------------------------------
(***************************************************************************)
(* Small instances of the agent filter.  A comment is a short text; the    *)
(* specs are a comment, a pattern and a fingerprint.                       *)
(***************************************************************************)
EXTENDS AgentProperties

CONSTANTS k1

work == <<"a", "b">>
home == <<"b", "a">>
MCComments == {work, home}
MCLists ==
  {[allow |-> a, deny |-> {}] : a \in {{}, {<<"a", "*">>}, {<<k1>>, home}}}
    \cup {[allow |-> {}, deny |-> d] : d \in {{work}, {<<"*", "a">>}}}
    \cup {[allow |-> {work}, deny |-> {home}]}

MCKinds == {0, 1, 11, 13, 17, 18, 19, 20, 21, 22, 23, 25, 26, 27}

\* A comment in which what follows the star occurs twice.
MCTwice == {<<"a", "b", "a", "b">>, <<"a", "b">>}
MCEnding == {[allow |-> {<<"*", "a", "b">>}, deny |-> {}]}
=============================================================================
