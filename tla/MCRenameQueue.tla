---------------------------- MODULE MCRenameQueue ----------------------------
(* Instances of RenameQueue for TLC. *)
EXTENDS RenameQueue

CONSTANTS A, B, C, D, X, Y, R, S, a, x

(* Notes in the root of the vault: title and path without .md agree. *)
Same == [p \in Path |-> p]

(* R links to A. *)
OneLeaf == [p \in Path |-> CASE p = R -> {A} [] p = A -> {} [] OTHER -> Absent]

(* A and X are in one folder, B and Y are where they are in another: a title
   names the note in both. *)
Titles == [p \in Path |-> CASE p \in {A, B} -> a [] p \in {X, Y} -> x [] OTHER -> p]

(* R refers to A by its path and to X by its title, S to A, A to X, X to R. *)
InFolder == [p \in Path |-> CASE p = R -> {A, x} [] p = S -> {A} [] p = A -> {x}
                               [] p = X -> {R} [] OTHER -> Absent]

(* X links to A, and both are renamed. *)
OneReferrer == [p \in Path |-> CASE p = X -> {A} [] p = A -> {} [] OTHER -> Absent]

(* X is a copy of A, and R links to A. *)
Twins == [p \in Path |-> IF p = X THEN A ELSE p]
OneLeafAndTwin == [p \in Path |-> CASE p = R -> {A} [] p \in {A, X} -> {} [] OTHER -> Absent]

(* No name is ever used twice. *)
Onward == {<<A, B>>, <<B, C>>}
ReferrerToo == Onward \union {<<X, Y>>}
Nobody == {}
TheFolder == {{<<A, B>>, <<X, Y>>}}
OneNoteFolder == {{<<A, B>>}}

ThereAndBack == {<<A, B>>, <<B, A>>}
DeleteAndCopy == {<<A, Absent>>, <<C, Absent>>, <<X, B>>, <<B, Absent>>}
AToC == {<<A, C>>}
FromAToB == {<<A, B>>, <<B, C>>}
ToD == {<<A, D>>, <<B, D>>, <<C, D>>}

(* Whose the paths are where there are no copies: nothing competes there. *)
Whose == [p \in Path |-> CASE p \in {A, B, C, D} -> A [] p \in {X, Y} -> X [] OTHER -> p]
ASSUME NothingCompetes == Body = Same => NoneCompete(Whose)
=============================================================================
