------------------------------- MODULE MCParts ------------------------------
(* The parts share nothing: a behaviour is one of the tables, one query, one of
   tags and blocks, one of a note in its editor, one of the mentions in a note, one
   of dangling links or one of the graph, while the others rest. *)
EXTENDS TableCache, QueryLanguage, TagsAndBlocks, DocumentSession, MentionPanel,
        LinkIntegrity, GraphView

CONSTANTS k1, k2, f1, f2, n1, n2, n3, e1, e2, r1, r2

VARIABLE part

FileOfKey == [k \in Key |-> IF k = k1 THEN f1 ELSE f2]
Sizes == <<2, 1, 3>>

(* "10" sorts before "2" as a text and after it as a number. *)
SomeTexts == <<"10", "2", "a", "false", "true">>
Written == (2 :> "2") @@ (10 :> "10")

(* A mention of one byte, a link that its rename makes longer by such a mention. *)
SomeDrafts == {<<"old", "mention", "mention", "end", "word", "end">>}
Widths == [w \in Word |-> CASE w = "mention" -> 2 [] w = "linked" -> 6
                             [] w = "nested" -> 10 [] w = "new" -> 3
                             [] w = "end^id" -> 4 [] OTHER -> 1]

NoRelation == [i \in 1..Rows |-> Missing]

(* A tag and one under it, in two notes; a block that two notes refer to, and
   one of another note that refers back; a note without tags or blocks. *)
A == <<"a">>  B == <<"b">>  D == <<"d">>  Z == <<"z">>
AC == <<"a", "c">>  DC == <<"d", "c">>  ED == <<"e", "d">>
X == "x"  Y == "y"  X2 == "x2"  X3 == "x3"
SomeNotes ==
  (n1 :> [tags |-> {A}, joined |-> {}, ids |-> {X}, refs |-> {<<n2, Y>>}]) @@
  (n2 :> [tags |-> {AC, B}, joined |-> {{B}}, ids |-> {Y}, refs |-> {<<n1, X>>}]) @@
  (n3 :> [tags |-> {}, joined |-> {}, ids |-> {}, refs |-> {<<n1, X>>, <<n2, Y>>}])
(* No name is given twice, and none to what is under it. *)
ChainOfTags == {<<A, D>>, <<D, ED>>, <<DC, Z>>}
ChainOfIds == {<<n1, X, X2>>, <<n1, X2, X3>>}

ASSUME RenamesAssumption == Patient /\ NewTags /\ NewIds

(* Two notes are called plan, and a third has that title. *)
SomeNames == <<[stem |-> "archive/roadmap", base |-> "roadmap", title |-> "Plan"],
               [stem |-> "notes/plan", base |-> "plan", title |-> "notes/plan"],
               [stem |-> "old/plan", base |-> "plan", title |-> "old/plan"]>>
Stems == {"archive/roadmap", "notes/plan", "old/plan"}
Folded == [k \in Stems \cup {"roadmap", "plan", "Plan"} |-> IF k = "Plan" THEN "plan" ELSE k]

(* A link, a link to a note that is not there, and a tag. *)
SomeIndex == [files |-> {1, 2},
              points |-> {<<1, <<"file", 2>>>>, <<2, <<"ghost", 1>>>>, <<1, <<"tag", 1>>>>}]
GhostAndTag == {<<"ghost", 1>>, <<"tag", 1>>}

Init ==
  /\ part \in {"tables", "query", "tags", "editor", "mentions", "repair", "graph"}
  /\ TableInit /\ TagInit /\ MentionInit /\ GraphInit
  /\ SessionInit /\ (part # "editor" => lastWrittenHash = Null)
  /\ QueryInit /\ (part # "query" => rel = NoRelation)
  /\ RepairInit /\ (part # "repair" => \A s \in Referrer : written[s] = {"plan"})

Next ==
  /\ UNCHANGED part
  /\ (part = "tables" /\ TableNext) \/ (part # "tables" /\ UNCHANGED tableVars)
  /\ (part = "query" /\ QueryNext) \/ (part # "query" /\ UNCHANGED queryVars)
  /\ (part = "tags" /\ TagNext) \/ (part # "tags" /\ UNCHANGED tagVars)
  /\ (part = "editor" /\ SessionNext) \/ (part # "editor" /\ UNCHANGED sessionVars)
  /\ (part = "mentions" /\ MentionNext) \/ (part # "mentions" /\ UNCHANGED mentionVars)
  /\ (part = "repair" /\ RepairNext) \/ (part # "repair" /\ UNCHANGED repairVars)
  /\ (part = "graph" /\ GraphNext) \/ (part # "graph" /\ UNCHANGED graphVars)

Spec == Init /\ [][Next]_<<part, tableVars, queryVars, tagVars, sessionVars, mentionVars,
                          repairVars, graphVars>>

==============================================================================
