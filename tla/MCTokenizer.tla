---------------------------- MODULE MCTokenizer ----------------------------
(* A small instance of Tokenizer for TLC: every line of up to four          *)
(* characters, alone and before or after a short one.                       *)
EXTENDS Tokenizer

Chars == {" ", ";", "\"", "(", "+", "x", ":"}
AllLines == UNION {[1..n -> Chars] : n \in 0..4}
ShortLines == {<< >>, << "x" >>, << "(", "x" >>, << "x", ";" >>}
MCTexts == {<< >>} \cup {<<l>> : l \in AllLines}
           \cup {<<l, m>> : l \in AllLines, m \in ShortLines}
           \cup {<<m, l>> : l \in AllLines, m \in ShortLines}
=============================================================================
