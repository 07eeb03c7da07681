----------------------------- MODULE Tokenizer -----------------------------
(***************************************************************************)
(* Tokenizer::tokenize of src/src/tokenizer.cpp: a state machine that is   *)
(* run over each line of the input.  A step is one turn of its loop, and   *)
(* the states are those of its enumeration State; READ stands for the call *)
(* of getline, DONE for the return and THROWN for the exception.           *)
(*                                                                         *)
(* A token is the sequence of its characters; the sentinels EOL and EOF    *)
(* are tokens as well.  Characters the code treats alike are alike here:   *)
(* WordChars are the letters, digits, '.', '_' and '\', Operators are      *)
(* those of isNumericOp, and any character it has no use for may be in the *)
(* input too.                                                              *)
(***************************************************************************)
EXTENDS Integers, SequencesExt, Ranks

CONSTANTS
    Texts,      \* the inputs: sequences of lines
    WordChars,  \* the characters of words
    Operators   \* the characters of isNumericOp

Space == " "
Semicolon == ";"
Quote == "\""
Open == "("
Close == ")"
Comma == ","

ASSUME CharactersAssumption ==
    /\ WordChars \cap ({Space, Semicolon, Quote, Open, Close, Comma} \cup Operators) = {}
    /\ Operators \cap {Space, Semicolon, Quote, Open, Close, Comma} = {}

(* A text is a sequence of lines, a line one of characters.                 *)
ASSUME TextsAssumption ==
    \A t \in Texts : /\ t \in Seq(Range(t))
                     /\ \A k \in DOMAIN t : t[k] \in Seq(Range(t[k]))

VARIABLES
    text,    \* the lines of the stream
    lines,   \* how many of them getline has returned
    state,   \* state
    pos,     \* pos, from 0
    tokbuf,  \* tokbuf
    tokens,  \* tokens
    lineno   \* lineno

vars == <<text, lines, state, pos, tokbuf, tokens, lineno>>

EOL == << "EOL" >>
EOF == << "EOF" >>
States == {"READ", "START_LINE", "START_TOKEN", "STRING_TOKEN", "TOKEN",
           "END_TOKEN", "END_LINE", "DONE", "THROWN"}

line == text[lines]
AtEnd == pos >= Len(line)
At(chars) == ~AtEnd /\ line[pos + 1] \in chars

Init ==
    /\ text \in Texts
    /\ lines = 0 /\ state = "READ" /\ pos = 0
    /\ tokbuf = << >> /\ tokens = << >> /\ lineno = 0

----------------------------------------------------------------------------
(* What a turn of the loop does with the character it looks at *)

(* Faulty variant of Skip: forgets to advance.                              *)
SkipNothing == UNCHANGED <<pos, tokbuf>>

Skip == pos' = pos + 1 /\ UNCHANGED tokbuf
Keep == UNCHANGED <<pos, tokbuf>>
Store == pos' = pos + 1 /\ tokbuf' = Append(tokbuf, line[pos + 1])
GoTo(s) == state' = s /\ UNCHANGED <<text, lines, tokens, lineno>>
LineIsOver == /\ state' = "END_LINE" /\ lineno' = lineno + 1
              /\ UNCHANGED <<text, lines, tokens>>
Throw == GoTo("THROWN") /\ Keep

(* Faulty variant of GetLine: goes on at the column it was at.              *)
GetLineAtPos ==
    /\ state = "READ" /\ lines < Len(text)
    /\ lines' = lines + 1 /\ state' = "START_LINE"
    /\ UNCHANGED <<text, pos, tokbuf, tokens, lineno>>

GetLine ==
    /\ state = "READ" /\ lines < Len(text)
    /\ lines' = lines + 1 /\ state' = "START_LINE" /\ pos' = 0
    /\ UNCHANGED <<text, tokbuf, tokens, lineno>>

EndOfInput ==
    /\ state = "READ" /\ lines = Len(text)
    /\ tokens' = Append(tokens, EOF) /\ state' = "DONE"
    /\ UNCHANGED <<text, lines, pos, tokbuf, lineno>>

StartLine ==
    /\ state = "START_LINE"
    /\ \/ AtEnd /\ LineIsOver /\ Keep
       \/ At({Space}) /\ GoTo("START_LINE") /\ Skip
       \/ ~AtEnd /\ ~At({Space}) /\ GoTo("START_TOKEN") /\ Keep

Symbols == {Open, Close, Comma} \cup Operators
Cleared == tokbuf' = << >>

(* tokbuf is empty in this state: it is cleared here and in END_TOKEN.      *)
StartToken ==
    /\ state = "START_TOKEN"
    /\ \/ (AtEnd \/ At({Semicolon})) /\ LineIsOver /\ Cleared /\ UNCHANGED pos
       \/ At({Space}) /\ GoTo("START_TOKEN") /\ Cleared /\ pos' = pos + 1
       \/ At(WordChars) /\ GoTo("TOKEN") /\ Cleared /\ UNCHANGED pos
       \/ At({Quote}) /\ GoTo("STRING_TOKEN")
          /\ tokbuf' = << line[pos + 1] >> /\ pos' = pos + 1
       \/ At(Symbols) /\ GoTo("END_TOKEN")
          /\ tokbuf' = << line[pos + 1] >> /\ pos' = pos + 1
       \/ ~AtEnd /\ ~At({Semicolon, Space, Quote} \cup WordChars \cup Symbols)
          /\ GoTo("THROWN") /\ Cleared /\ UNCHANGED pos

StringToken ==
    /\ state = "STRING_TOKEN"
    /\ \/ AtEnd /\ Throw
       \/ At({Quote}) /\ GoTo("END_TOKEN") /\ Store
       \/ ~AtEnd /\ ~At({Quote}) /\ GoTo("STRING_TOKEN") /\ Store

(* Faulty variant of EndsWord: operators need a space before them.          *)
EndsWordSpaced == {Comma, Close}

(* An operator, a comma or a closing parenthesis ends a word and is left to *)
(* be a token of its own; a quote, a semicolon or an opening parenthesis    *)
(* does not.                                                                *)
EndsWord == {Comma, Close} \cup Operators

InToken ==
    /\ state = "TOKEN"
    /\ \/ (AtEnd \/ At(EndsWord)) /\ GoTo("END_TOKEN") /\ Keep
       \/ At({Space}) /\ GoTo("END_TOKEN") /\ Skip
       \/ At(WordChars) /\ GoTo("TOKEN") /\ Store
       \/ ~AtEnd /\ ~At({Space} \cup EndsWord \cup WordChars) /\ Throw

EndToken ==
    /\ state = "END_TOKEN"
    /\ tokens' = Append(tokens, tokbuf) /\ tokbuf' = << >>
    /\ state' = "START_TOKEN"
    /\ UNCHANGED <<text, lines, pos, lineno>>

(* Faulty variant of EndLine: no EOL for a line without tokens.             *)
EndLineUnlessBlank ==
    /\ state = "END_LINE"
    /\ tokens' = IF line = << >> THEN tokens ELSE Append(tokens, EOL)
    /\ state' = "READ"
    /\ UNCHANGED <<text, lines, pos, tokbuf, lineno>>

EndLine ==
    /\ state = "END_LINE"
    /\ tokens' = Append(tokens, EOL) /\ state' = "READ"
    /\ UNCHANGED <<text, lines, pos, tokbuf, lineno>>

Next == \/ GetLine \/ EndOfInput \/ StartLine \/ StartToken \/ StringToken
        \/ InToken \/ EndToken \/ EndLine

(* tokenize is one loop in one thread, and nothing in it waits.             *)
Spec == Init /\ [][Next]_vars /\ WF_vars(Next)

----------------------------------------------------------------------------
(* What the tokens of a line are, said without the state machine *)

Quotes(l, i) == Cardinality({j \in 1..(i - 1) : l[j] = Quote})
InString(l, i) == Quotes(l, i) % 2 = 1

(* The line without its comment. *)
CommentAt(l) ==
    Min({i \in DOMAIN l : l[i] = Semicolon /\ ~InString(l, i)} \cup {Len(l) + 1})
Code(l) == SubSeq(l, 1, CommentAt(l) - 1)

IsWordChar(l, i) == i \in DOMAIN l /\ l[i] \in WordChars /\ ~InString(l, i)

(* A token starts at a symbol, at an opening quote, and at a word character *)
(* that follows no other; it is as long as it can be.                       *)
StartsToken(l, i) ==
    /\ ~InString(l, i)
    /\ \/ l[i] \in Symbols \cup {Quote}
       \/ l[i] \in WordChars /\ ~IsWordChar(l, i - 1)
TokenEnd(l, i) ==
    CASE l[i] \in Symbols -> i
      [] l[i] = Quote -> Min({j \in (i + 1)..Len(l) : l[j] = Quote} \cup {Len(l)})
      [] l[i] \in WordChars ->
           Min({j \in i..Len(l) : ~IsWordChar(l, j + 1)})
TokensOf(l) ==
    LET starts == InOrder({i \in DOMAIN l : StartsToken(l, i)})
    IN [k \in DOMAIN starts |-> SubSeq(l, starts[k], TokenEnd(l, starts[k]))]

(* What is wrong with the line at its i-th character: an unknown one        *)
(* outside of strings and comments; a word run into a comment, a string or  *)
(* an opening parenthesis; or the line's end inside a string.               *)
Offends(l, i) ==
    /\ i <= CommentAt(l)
    /\ \/ i = Len(l) + 1 /\ InString(l, i)
       \/ /\ i \in DOMAIN l /\ ~InString(l, i)
          /\ \/ l[i] \notin {Space, Semicolon, Quote} \cup Symbols \cup WordChars
             \/ l[i] \in {Semicolon, Quote, Open} /\ IsWordChar(l, i - 1)
Offenders(l) == {i \in 1..(Len(l) + 1) : Offends(l, i)}

----------------------------------------------------------------------------

TokenizerTypeOK ==
    /\ lines \in 0..Len(text) /\ state \in States
    /\ pos \in Nat /\ lines > 0 => pos <= Len(line)
    /\ lineno \in 0..Len(text)
    /\ state \in {"READ", "START_LINE", "DONE"} => tokbuf = << >>

(* The token list is what the lines say, in order, each line closed by EOL  *)
(* and the list by EOF: nothing is lost at the end of a line, merged with   *)
(* its neighbour or carried into the next line (tokenizer.cpp:34-139).      *)
TokensTrue ==
    state \in {"READ", "DONE"} =>
      tokens = FlattenSeq([k \in 1..lines |-> Append(TokensOf(Code(text[k])), EOL)])
                 \o (IF state = "DONE" THEN << EOF >> ELSE << >>)

(* A line is given up exactly when something is wrong with it, and the line *)
(* and column of the exception are those of the first wrong character       *)
(* (tokenizer.cpp:82-91, 120-124).                                          *)
ErrorsTrue ==
    /\ state = "THROWN" => /\ lineno = lines - 1
                           /\ Offends(line, pos + 1)
                           /\ pos + 1 = Min(Offenders(line))
    /\ state = "END_LINE" => /\ lineno = lines
                             /\ Offenders(line) = {}

(* Every line the tokenizer begins, it leaves: the loop at tokenizer.cpp:38 *)
(* ends, although several of its turns do not advance.                      *)
LinesEnd == state = "START_LINE" ~> state \in {"READ", "THROWN"}
=============================================================================
