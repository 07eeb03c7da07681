------------------------------ MODULE MCParser ------------------------------
(* A small instance of Parser for TLC: every list of up to four tokens     *)
(* before the newline and EOF of the tokenizer, or cut off without them,    *)
(* and every expression of up to six tokens as the operand of sub.         *)
EXTENDS Evaluate

Atoi_ == [five |-> 5, big |-> 256, wide |-> 300]
MCAtoi(tok) == Atoi_[tok]

Tokens == {".section", ".align", "text", "a", "bc", "nop", "inc", "ld", ",", "five",
           "big", "-", "(", ":", "EOL", "EOF"}
Lists(toks, n) == UNION {[1..k -> toks] : k \in 0..n}
Closed(list) == list \o << "EOL", "EOF" >>

Programs == Lists(Tokens, 4)
Operations == Lists({"five", "a", "-", "*", "+"}, 6)
              \cup Lists({"wide", "big", "a", "-", "/"}, 6)
Pairs == {<< "ld", "a", ",", "big", "EOL", ".section", "text", "nop">>,
          << "sub", "five", "EOL", "sub", "five", "/", "big", "EOL", ".section", "a">>,
          << "nop", "EOL", ".section", "a", "EOL", "sub", "five", "/", "big">>,
          << ".section", ",", "EOL", "nop", "EOL", "sub", "five", "-", "five">>}

MCInputs == {Closed(p) : p \in Programs} \cup Programs
            \cup {Closed(<< "sub" >> \o e) : e \in Operations}
            \cup {Closed(p) : p \in Pairs}
=============================================================================
