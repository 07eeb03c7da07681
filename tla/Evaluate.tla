------------------------------ MODULE Evaluate ------------------------------
(***************************************************************************)
(* Assembler::evaluate of src/src/assembler.cpp: constant folding on the   *)
(* trees that module Parser builds.  It changes no state: it is a function *)
(* from a node to the node that replaces it.  The exception and the trap   *)
(* of a division by zero, which C++ leaves undefined and the division      *)
(* instruction answers with a signal, are nodes of their own here, and     *)
(* nothing is made of a tree in which one comes up.                        *)
(***************************************************************************)
EXTENDS Parser

Exception == [id |-> "EXCEPTION"]
Trap == [id |-> "TRAP"]
Failed(node) == node.id \in {"EXCEPTION", "TRAP"}
IsNumber(node) == node.id = "NUMBER"

(* Faulty variants of Folded: no wrap to the eight bits of a Number; the    *)
(* operands of a difference or quotient in the wrong order.                 *)
FoldedWide(op, l, r) ==
    CASE op = "+" -> [id |-> "NUMBER", value |-> l + r]
      [] op = "-" -> [id |-> "NUMBER", value |-> l - r]
      [] op = "*" -> [id |-> "NUMBER", value |-> l * r]
      [] op = "/" -> IF r = 0 THEN Trap ELSE [id |-> "NUMBER", value |-> l \div r]
FoldedSwapped(op, l, r) ==
    CASE op = "+" -> [id |-> "NUMBER", value |-> (l + r) % 256]
      [] op = "-" -> [id |-> "NUMBER", value |-> (r - l) % 256]
      [] op = "*" -> [id |-> "NUMBER", value |-> (l * r) % 256]
      [] op = "/" -> IF l = 0 THEN Trap ELSE [id |-> "NUMBER", value |-> r \div l]

(* The values are eight bits wide, the sum is an int, and the constructor   *)
(* of Number takes eight bits of it.                                        *)
Folded(op, l, r) ==
    CASE op = "+" -> [id |-> "NUMBER", value |-> (l + r) % 256]
      [] op = "-" -> [id |-> "NUMBER", value |-> (l - r) % 256]
      [] op = "*" -> [id |-> "NUMBER", value |-> (l * r) % 256]
      [] op = "/" -> IF r = 0 THEN Trap ELSE [id |-> "NUMBER", value |-> l \div r]

EvaluatedOp(op, left, right) ==
    CASE Failed(left) -> left
      [] ~Failed(left) /\ Failed(right) -> right
      [] IsNumber(left) /\ IsNumber(right) -> Folded(op, left.value, right.value)
      [] OTHER -> OpNode(op, left, right)

EvaluatedNeg(operand) ==
    CASE Failed(operand) -> operand
      [] IsNumber(operand) -> [id |-> "NUMBER", value |-> (- operand.value) % 256]
      [] OTHER -> NegNode(operand)

Failures(nodes) == {i \in DOMAIN nodes : Failed(nodes[i])}

(* Faulty variant of FirstFailure: the last.                                *)
LastFailure(nodes) == nodes[Max(Failures(nodes))]

(* The first that fails, of nodes that are evaluated one after the other.   *)
FirstFailure(nodes) == nodes[Min(Failures(nodes))]

(* Operands: registers stay, and a tree is evaluated from its leaves up, by  *)
(* its depth as in Trees.                                                   *)
EvaluatedFrom(node, sub) ==
    CASE node.id \in {"LABEL", "NUMBER"} -> node
      [] node.id = "UNARY_OP" -> EvaluatedNeg(sub[node.operand])
      [] node.id = "BINARY_OP" -> EvaluatedOp(node.op, sub[node.left], sub[node.right])
EvaluatedTrees[d \in 0..Len(tokens)] ==
    [node \in Trees[d] |-> EvaluatedFrom(node, EvaluatedTrees[d - 1])]
Evaluated(node) ==
    IF IsRegister(node) THEN node ELSE EvaluatedTrees[Len(tokens)][node]

EvaluatedStatement(node) ==
    CASE node.id = "LABEL" -> node
      [] node.id = "INSTRUCTION" ->
           LET args == [i \in DOMAIN node.args |-> Evaluated(node.args[i])]
           IN IF Failures(args) = {} THEN [node EXCEPT !.args = args]
                                     ELSE FirstFailure(args)
      [] OTHER -> Exception

(* A root is evaluated child by child. *)
EvaluatedRoot(children) ==
    LET new == [i \in DOMAIN children |-> EvaluatedStatement(children[i])]
    IN IF Failures(new) = {} THEN [id |-> "ROOT", children |-> new]
                             ELSE FirstFailure(new)

----------------------------------------------------------------------------
(* The value of an expression, said without folding: that of integer        *)
(* arithmetic, for labels at the address at.                                *)

CONSTANT Addresses  \* addresses that labels may get

ASSUME AddressesAssumption == Addresses \subseteq Int

ValueFrom(node, at, sub) ==
    CASE node.id = "NUMBER" -> node.value
      [] node.id = "LABEL" -> at
      [] node.id = "UNARY_OP" -> - sub[node.operand][at]
      [] node.id = "BINARY_OP" ->
           LET l == sub[node.left][at]  r == sub[node.right][at]
           IN CASE node.op = "+" -> l + r
                [] node.op = "-" -> l - r
                [] node.op = "*" -> l * r
                [] node.op = "/" -> IF r <= 0 THEN 0 ELSE l \div r
Values[d \in 0..Len(tokens)] ==
    [node \in Trees[d] |-> [at \in Addresses |-> ValueFrom(node, at, Values[d - 1])]]
Value(node, at) == Values[Len(tokens)][node][at]

SubexpressionsFrom(node, sub) ==
    {node} \cup CASE node.id = "UNARY_OP" -> sub[node.operand]
                  [] node.id = "BINARY_OP" -> sub[node.left] \cup sub[node.right]
                  [] OTHER -> {}
SubexpressionTrees[d \in 0..Len(tokens)] ==
    [node \in Trees[d] |-> SubexpressionsFrom(node, SubexpressionTrees[d - 1])]
Subexpressions(node) ==
    IF IsRegister(node) THEN {node} ELSE SubexpressionTrees[Len(tokens)][node]

Quotients(node) == {e \in Subexpressions(node) : e.id = "BINARY_OP" /\ e.op = "/"}

(* Every value on the way fits eight bits, and nothing is divided by zero.  *)
Representable(node, at) ==
    /\ \A e \in Subexpressions(node) : Value(e, at) \in 0..255
    /\ \A e \in Quotients(node) : Value(e.right, at) # 0

Arguments ==
    UNION {{lines[k].args[i] : i \in DOMAIN lines[k].args} :
             k \in {j \in DOMAIN lines : lines[j].id = "INSTRUCTION"}}
Expressions == {arg \in Arguments : arg.id \notin {"REGISTER", "DREGISTER"}}

(* Folding changes no value, whatever addresses the labels get: not at all  *)
(* where eight bits hold every value on the way, and not in its low eight   *)
(* bits where there is no division, although numbers are cut to eight bits  *)
(* at every step (assembler.cpp:741-819).                                   *)
EvaluateKeepsValue ==
    \A e \in Expressions : ~Failed(Evaluated(e)) => \A at \in Addresses :
      /\ Representable(e, at) => Value(Evaluated(e), at) = Value(e, at)
      /\ Quotients(e) = {} => (Value(Evaluated(e), at) - Value(e, at)) % 256 = 0

(* The labels of an expression, in their order.                             *)
LabelsFrom(node, sub) ==
    CASE node.id = "LABEL" -> << node.name >>
      [] node.id = "NUMBER" -> << >>
      [] node.id = "UNARY_OP" -> sub[node.operand]
      [] node.id = "BINARY_OP" -> sub[node.left] \o sub[node.right]
LabelTrees[d \in 0..Len(tokens)] ==
    [node \in Trees[d] |-> LabelsFrom(node, LabelTrees[d - 1])]
LabelsOf(node) == LabelTrees[Len(tokens)][node]

(* Nothing that could be folded is left, and what is left is an expression  *)
(* of the parser's kind, numbers of eight bits and all, with its labels in  *)
(* their order (assembler.hpp:183 "evaluate it and its children where       *)
(* possible").                                                              *)
EvaluateFolds ==
    \A e \in Expressions : ~Failed(Evaluated(e)) =>
      /\ Evaluated(e) \in Trees[Len(tokens)] /\ LabelsOf(Evaluated(e)) = LabelsOf(e)
      /\ LabelsOf(e) = << >> => IsNumber(Evaluated(e))
      /\ \A f \in Subexpressions(Evaluated(e)) :
           /\ f.id = "UNARY_OP" => ~IsNumber(f.operand)
           /\ f.id = "BINARY_OP" => ~(IsNumber(f.left) /\ IsNumber(f.right))

(* A whole program is evaluated, statement by statement, exactly if it has  *)
(* no directive and none of its quotients of numbers has a divisor of zero, *)
(* to eight bits; if it fails, it fails as the first such statement does    *)
(* (assembler.cpp:672-739).                                                 *)
DividesByZero(node) ==
    \E i \in DOMAIN node.args : \E q \in Quotients(node.args[i]) :
      LabelsOf(q) = << >> /\ Evaluated(q.right) = [id |-> "NUMBER", value |-> 0]
StatementFails(node) ==
    \/ node.id = "DIRECTIVE"
    \/ node.id = "INSTRUCTION" /\ DividesByZero(node)
EvaluateFails ==
    LET failing == {k \in DOMAIN lines : StatementFails(lines[k])}
        new == EvaluatedRoot(lines)
    IN IF failing = {}
         THEN /\ new.id = "ROOT" /\ Len(new.children) = Len(lines)
              /\ \A k \in DOMAIN lines : new.children[k].id = lines[k].id
         ELSE new = IF lines[Min(failing)].id = "DIRECTIVE" THEN Exception ELSE Trap
=============================================================================
