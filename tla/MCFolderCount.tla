----------------------------- MODULE MCFolderCount ----------------------------
(***************************************************************************)
(* Every short text in a directory of its own, and four bigger trees.      *)
(***************************************************************************)
EXTENDS FolderCount, TLC

CONSTANTS a, b, MaxLength

MCLetter == {a, b}

\* Texts of one letter tell the gaps and the cuts apart.
ShortTexts == UNION {[1 .. n -> {a, Blank, Newline, Other}] : n \in 0 .. MaxLength}

TextA == <<a, Blank, b, Newline, a>>
TextB == <<b, Newline, Newline, b, Blank, Blank, Blank, a>>
TextC == <<a, a, a, b, Other, b>>

MCTexts == ShortTexts \cup {TextA, TextB, TextC}

Single(t) ==
  [root |-> "d", entries |-> ("d" :> <<"one.txt">>), content |-> ("one.txt" :> t),
   links |-> {}, dotted |-> {}, txt |-> {"one.txt"}, closed |-> {}]

Contents ==
  ("one.txt" :> TextA) @@ ("two.txt" :> TextB) @@ ("three.txt" :> TextC)
    @@ ("four.txt" :> TextB) @@ ("notes" :> TextA)

Tree(entries, closed, dotted) ==
  [root |-> "d", entries |-> entries, content |-> Contents, links |-> {"three.txt"},
   dotted |-> dotted, txt |-> {"one.txt", "two.txt", "three.txt", "four.txt"}, closed |-> closed]

\* Files before, between and after directories, two and three levels deep.
Bushy == ("d" :> <<"one.txt", "e", "notes", "f">>) @@ ("e" :> <<"two.txt">>)
           @@ ("f" :> <<"three.txt">>)
Deep == ("d" :> <<"notes", "e", "one.txt">>) @@ ("e" :> <<"two.txt", "f">>)
          @@ ("f" :> <<"three.txt">>)
Wide == "d" :> <<"one.txt", "two.txt", "three.txt", "four.txt">>
Twigs == ("d" :> <<"e", "f">>) @@ ("e" :> <<>>) @@ ("f" :> <<"notes">>)

MCTrees ==
  {Single(t) : t \in ShortTexts}
    \cup {Tree(shape, closed, dotted) :
            shape \in {Bushy, Deep, Wide, Twigs},
            closed \in {{}, {"d"}, {"e"}, {"one.txt"}}, dotted \in {{}, {"e"}}}
=============================================================================
