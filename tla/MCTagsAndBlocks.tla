--------------------------- MODULE MCTagsAndBlocks ---------------------------
EXTENDS TagsAndBlocks

CONSTANTS n1, n2

(* A tag in two notes, and its renaming. *)
A == <<"a">>  B == <<"b">>
Tagged == [f \in Note |-> [tags |-> {A}, joined |-> {}, ids |-> {}, refs |-> {}]]
OneMove == {<<A, B>>}

==============================================================================
