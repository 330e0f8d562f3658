------------------------------ MODULE MCConditions ------------------------------
(***************************************************************************)
(* Conditions over two observations, and values of every kind at the       *)
(* places where exact comparison goes wrong: zeros with a sign, trailing   *)
(* and leading zeros, fractions and wholes of unequal length, negatives.   *)
(***************************************************************************)
EXTENDS Conditions

Integer(negative, whole) ==
    [kind |-> "integer", negative |-> negative, whole |-> whole, fraction |-> <<>>]
Decimal(negative, whole, fraction) ==
    [kind |-> "decimal", negative |-> negative, whole |-> whole, fraction |-> fraction]
Timestamp(digits) == [kind |-> "timestamp", digits |-> digits]
Boolean(value) == [kind |-> "boolean", value |-> value]
Text(n) == [kind |-> "text", value |-> n]
HashValue(n) == [kind |-> "hash", value |-> n]
Ref(id) == [ref |-> id]

Numbers == {Integer(TRUE, <<0>>), Decimal(FALSE, <<0>>, <<0>>), Decimal(TRUE, <<0>>, <<5>>),
            Integer(FALSE, <<9>>), Integer(FALSE, <<1, 0>>), Integer(TRUE, <<1, 0>>),
            Decimal(FALSE, <<9>>, <<5, 0>>), Decimal(FALSE, <<9>>, <<0, 5>>)}
OtherValues == {Timestamp(<<9>>), Timestamp(<<0, 1, 0>>), Boolean(TRUE), Boolean(FALSE),
           Text(1), Text(2), Text(3), Text(4), HashValue(1), Ref("y"), Integer(FALSE, <<0, 9>>)}

(* One character more than each limit. *)
TooLong == {Integer(TRUE, <<1, 0, 0>>), Decimal(TRUE, <<9>>, <<0, 5>>), Timestamp(<<0, 0, 1, 0>>)}

(* Text 2 reaches the limit in code units and text 3 in code points, 4 is  *)
(* beyond it in both.                                                      *)
MCCodePoints == <<1, 1, 2, 3>>
MCCodeUnits  == <<1, 2, 3, 3>>

MCRecordable ==
    {[id |-> "x", value |-> v] : v \in Numbers \cup OtherValues \cup TooLong}
        \cup {[id |-> "y", value |-> v] : v \in {Integer(FALSE, <<9>>), Boolean(TRUE), Text(3)}}

Relation(op, left, right) == [op |-> op, left |-> left, right |-> right]
Not(node) == [op |-> "not", arg |-> node]
Many(op, nodes) == [op |-> op, args |-> nodes]
Within(value, lower, upper, inclusive) ==
    [op |-> "between", value |-> value, lower |-> lower, upper |-> upper,
     inclusive |-> inclusive]

Atoms ==
    {Relation("eq", Ref("x"), Ref("y")), Relation("lt", Ref("x"), Integer(FALSE, <<9>>)),
     Relation("gte", Ref("y"), Boolean(FALSE)),
     Within(Ref("x"), Decimal(TRUE, <<0>>, <<0>>), Integer(FALSE, <<1, 0>>), FALSE)}

Simple ==
    {Relation(op, Ref("x"), v) : op \in Comparisons, v \in {Decimal(TRUE, <<0>>, <<0>>), Timestamp(<<9>>)}}
        \cup {Relation("lte", Ref("x"), v) : v \in Numbers}
        \cup {Within(Ref("x"), Ref("y"), Integer(FALSE, <<1, 0>>), inclusive) : inclusive \in BOOLEAN}
        \cup {Relation("lt", Ref("x"), Text(n)) : n \in 2..4}

(* Beyond each limit of the schema, and an operator there is none of. *)
Refused ==
    {Not(Not(Not(CHOOSE a \in Atoms : a.op = "lt"))), Many("all", <<>>), [op |-> "execute"],
     Many("any", <<Relation("eq", Ref("x"), Ref("x")), Relation("eq", Ref("x"), Ref("y")),
                   Relation("eq", Ref("y"), Ref("y"))>>)}

(* A text between the counts, where no evaluation arrives. *)
Unreached == Many("any", <<Relation("eq", Ref("x"), Ref("x")), Relation("eq", Ref("y"), Text(3))>>)

MCRoots ==
    Atoms \cup Simple \cup Refused \cup {Unreached}
        \cup {Not(Many("any", <<a, b>>)) : a \in Atoms, b \in Atoms}
        \cup {Many("all", <<a, Not(b)>>) : a \in Atoms, b \in Atoms}

Subnodes(node) ==
    CASE node.op \in {"all", "any"} -> {node.args[i] : i \in DOMAIN node.args}
      [] node.op = "not" -> {node.arg}
      [] OTHER -> {}

RECURSIVE Tree(_), MCHeightOf(_)
Tree(node) == {node} \cup UNION {Tree(n) : n \in Subnodes(node)}
MCHeightOf(node) ==
    IF Subnodes(node) = {} THEN 0 ELSE 1 + Max({MCHeightOf(n) : n \in Subnodes(node)})

MCNodes == UNION {Tree(node) : node \in MCRoots}
MCHeight == [node \in MCNodes |-> MCHeightOf(node)]
=============================================================================
