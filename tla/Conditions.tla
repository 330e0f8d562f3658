------------------------------- MODULE Conditions -------------------------------
(***************************************************************************)
(* The condition language that decides a challenge off chain, and its      *)
(* three evaluators.  Evidence is assembled one observation at a time; the *)
(* evaluators are asked again after each.                                  *)
(***************************************************************************)
EXTENDS Integers, SequencesExt

CONSTANTS
    Roots,              \* the roots of the condition documents that are tried
    Nodes, Height,      \* the nodes of these, and the levels below each
    Recordable,         \* the observations that may be recorded
    MaxConditionDepth, MaxArgs, MaxObservations,    \* the limits of the schemas
    MaxInteger, MaxDecimal, MaxTimestamp, MaxText,  \* and of their values
    CodePoints,         \* of each text, named by its place in the order of texts
    CodeUnits           \* the same text counted in UTF-16

IsRef(value) == "ref" \in DOMAIN value

Numeric(value) == value.kind \in {"integer", "decimal"}

Languages == {"JavaScript", "Python", "Rust"}

Comparisons == {"eq", "neq", "lt", "lte", "gt", "gte"}

(* A value of the schema: digits are digits, whatever else is wrong. *)
IsValue(value) ==
    \/ IsRef(value)
    \/ /\ Numeric(value)
       /\ value.negative \in BOOLEAN
       /\ {value.whole, value.fraction} \subseteq Seq(0..9)
    \/ value.kind = "timestamp" /\ value.digits \in Seq(0..9)
    \/ value.kind = "text" /\ value.value \in DOMAIN CodePoints
    \/ value.kind \in {"boolean", "hash"}

Limits == {MaxConditionDepth, MaxArgs, MaxObservations,
           MaxInteger, MaxDecimal, MaxTimestamp, MaxText}

ASSUME ConditionAssumption ==
    /\ Limits \subseteq Nat
    /\ Roots \subseteq Nodes
    /\ \A o \in Recordable : DOMAIN o = {"id", "value"} /\ IsValue(o.value)

(* A code point above the first 2^16 takes two units.  Text with half of   *)
(* such a pair has no UTF-8 form and is not part of a document.            *)
ASSUME TextAssumption ==
    /\ CodePoints \in [DOMAIN CodePoints -> Nat]
    /\ CodeUnits \in [DOMAIN CodePoints -> Nat]
    /\ \A text \in DOMAIN CodePoints :
         CodeUnits[text] \in CodePoints[text]..(2 * CodePoints[text])

(* A document is a finite tree; its leaves compare values. *)
ASSUME TreeAssumption ==
    /\ Height \in [Nodes -> Nat]
    /\ \A node \in Nodes :
         /\ node.op \in {"all", "any"} =>
              /\ node.args \in Seq(Nodes)
              /\ \A i \in DOMAIN node.args : Height[node.args[i]] < Height[node]
         /\ node.op = "not" => node.arg \in Nodes /\ Height[node.arg] < Height[node]
         /\ node.op \in Comparisons => IsValue(node.left) /\ IsValue(node.right)
         /\ node.op = "between" =>
              IsValue(node.value) /\ IsValue(node.lower) /\ IsValue(node.upper)

VARIABLES
    root,               \* the condition that the terms commit to
    observations        \* evidence.observations

conditionVars == <<root, observations>>

ConditionInit ==
    /\ root \in Roots
    /\ observations = <<>>

(* One more than the limit, to see it refused. *)
Record(observation) ==
    /\ Len(observations) <= MaxObservations
    /\ observations' = Append(observations, observation)
    /\ UNCHANGED root

ConditionNext == \E observation \in Recordable : Record(observation)

ConditionSpec == ConditionInit /\ [][ConditionNext]_conditionVars

-----------------------------------------------------------------------------
(* Validation *)

(* Digits without a superfluous leading zero. *)
IsUnsignedInteger(digits) == digits # <<>> /\ (digits[1] = 0 => digits = <<0>>)

(* The characters of a number: its sign, its digits and a decimal point. *)
Written(number) ==
    (IF number.negative THEN 1 ELSE 0) + Len(number.whole)
        + (IF number.kind = "decimal" THEN 1 + Len(number.fraction) ELSE 0)

(* length, char_len and len: JavaScript counts UTF-16 units. *)
TextLength(language, text) ==
    IF language = "JavaScript" THEN CodeUnits[text] ELSE CodePoints[text]

ValidValue(language, value) ==
    \/ IsRef(value)
    \/ /\ Numeric(value)
       /\ IsUnsignedInteger(value.whole)
       /\ (value.kind = "decimal") = (value.fraction # <<>>)
       /\ Written(value) <= (IF value.kind = "decimal" THEN MaxDecimal ELSE MaxInteger)
    \/ value.kind = "timestamp" /\ Len(value.digits) \in 1..MaxTimestamp
    \/ value.kind = "boolean" /\ value.value \in BOOLEAN
    \/ value.kind = "text" /\ TextLength(language, value.value) <= MaxText
    \/ value.kind = "hash"

(* What a comparison names, in the order of its fields. *)
Operands(node) ==
    CASE node.op \in Comparisons -> {node.left, node.right}
      [] node.op = "between"     -> {node.value, node.lower, node.upper}
      [] OTHER                   -> {}

NodeIsValid(language, node, depth, valid) ==
    /\ depth <= MaxConditionDepth
    /\ \/ /\ node.op \in {"all", "any"}
          /\ Len(node.args) \in 1..MaxArgs
          /\ \A i \in DOMAIN node.args : valid[node.args[i]][language][depth + 1]
       \/ node.op = "not" /\ valid[node.arg][language][depth + 1]
       \/ /\ node.op \in Comparisons \cup {"between"}
          /\ \A value \in Operands(node) : ValidValue(language, value)

ValidNode[node \in Nodes] ==
    [language \in Languages |-> [depth \in Nat |-> NodeIsValid(language, node, depth, ValidNode)]]

ValidCondition(language) == ValidNode[root][language][0]

DistinctIds(sequence) ==
    \A i, j \in DOMAIN sequence : sequence[i].id = sequence[j].id => i = j

ValidValues(language, sequence) ==
    \A i \in DOMAIN sequence : ValidValue(language, sequence[i].value)

ValidEvidence(language, sequence) ==
    /\ Len(sequence) \in 1..MaxObservations
    /\ DistinctIds(sequence)
    /\ ValidValues(language, sequence)

-----------------------------------------------------------------------------
(* Order of values: -1, 0 or 1, as in cmp *)

Order(left, right) == IF left < right THEN -1 ELSE IF left = right THEN 0 ELSE 1

(* The number that the first digits write, for each number of them. *)
Reading(digits) ==
    LET reading[n \in 0..Len(digits)] == IF n = 0 THEN 0 ELSE 10 * reading[n - 1] + digits[n]
    IN  reading

Natural(digits) == Reading(digits)[Len(digits)]

PowerOfTen[n \in Nat] == IF n = 0 THEN 1 ELSE 10 * PowerOfTen[n - 1]

Scale(number) == PowerOfTen[Len(number.fraction)]

(* JavaScript and Python: exact rationals, brought to a common denominator. *)
Numerator(number) ==
    (IF number.negative THEN -1 ELSE 1)
        * (Natural(number.whole) * Scale(number) + Natural(number.fraction))

CompareRationals(left, right) ==
    Order(Numerator(left) * Scale(right), Numerator(right) * Scale(left))

(* Rust: digits, never a number. *)
Significant(digits) ==
    LET first == SelectInSeq(digits, LAMBDA digit : digit # 0)
    IN  IF first = 0 THEN <<0>> ELSE SubSeq(digits, first, Len(digits))

TrimEnd(digits) == SubSeq(digits, 1, SelectLastInSeq(digits, LAMBDA digit : digit # 0))

(* A plausible slip: a zero keeps its sign. *)
PartsSigned(number) ==
    [negative |-> number.negative, whole |-> Significant(number.whole),
     fraction |-> TrimEnd(number.fraction)]

Parts(number) ==
    LET whole == Significant(number.whole)
        fraction == TrimEnd(number.fraction)
    IN  [negative |-> number.negative /\ (whole # <<0>> \/ fraction # <<>>),
         whole |-> whole, fraction |-> fraction]

(* Strings of one length. *)
Lexicographic(left, right) ==
    LET differing == {i \in DOMAIN left : left[i] # right[i]}
    IN  IF differing = {} THEN 0 ELSE Order(left[Min(differing)], right[Min(differing)])

CompareUnsigned(left, right) ==
    LET l == Significant(left)
        r == Significant(right)
    IN  IF Len(l) # Len(r) THEN Order(Len(l), Len(r)) ELSE Lexicographic(l, r)

Padded(fraction, length) ==
    [i \in 1..length |-> IF i <= Len(fraction) THEN fraction[i] ELSE 0]

CompareFractions(left, right) ==
    LET length == Max({Len(left), Len(right)})
    IN  Lexicographic(Padded(left, length), Padded(right, length))

(* Ordering::then_with *)
ThenWith(order, next) == IF order # 0 THEN order ELSE next

CompareMagnitudes(l, r) ==
    ThenWith(CompareUnsigned(l.whole, r.whole), CompareFractions(l.fraction, r.fraction))

CompareParts(l, r) ==
    IF l.negative # r.negative THEN (IF l.negative THEN -1 ELSE 1)
    ELSE IF l.negative THEN -CompareMagnitudes(l, r) ELSE CompareMagnitudes(l, r)

CompareDigits(left, right) == CompareParts(Parts(left), Parts(right))

-----------------------------------------------------------------------------
(* Evaluation, in the arithmetic of "rationals" or of "digits" *)

(* An observation may itself be a reference; nothing follows it. *)
Compatible(left, right) ==
    /\ ~IsRef(left) /\ ~IsRef(right)
    /\ Numeric(left) = Numeric(right)
    /\ Numeric(left) \/ left.kind = right.kind

CompareValues(arithmetic, left, right) ==
    CASE Numeric(left) /\ arithmetic = "rationals" -> CompareRationals(left, right)
      [] Numeric(left) /\ arithmetic = "digits"    -> CompareDigits(left, right)
      [] left.kind = "timestamp" /\ arithmetic = "rationals" ->
            Order(Natural(left.digits), Natural(right.digits))
      [] left.kind = "timestamp" /\ arithmetic = "digits" ->
            CompareUnsigned(left.digits, right.digits)
      [] left.kind = "boolean" ->
            IF left.value = right.value THEN 0 ELSE IF left.value THEN 1 ELSE -1
      [] left.kind \in {"text", "hash"} -> Order(left.value, right.value)

(* Of two observations under one id the later is kept. *)
Known(sequence) ==
    [id \in {sequence[i].id : i \in DOMAIN sequence} |->
        sequence[Max({i \in DOMAIN sequence : sequence[i].id = id})].value]

IsResolved(value, values) == IsRef(value) => value.ref \in DOMAIN values

Resolve(value, values) == IF IsRef(value) THEN values[value.ref] ELSE value

Comparable(left, right, values) ==
    /\ IsResolved(left, values) /\ IsResolved(right, values)
    /\ Compatible(Resolve(left, values), Resolve(right, values))

Satisfies(order, op) ==
    CASE op = "eq"  -> order = 0
      [] op = "neq" -> order # 0
      [] op = "lt"  -> order < 0
      [] op = "lte" -> order <= 0
      [] op = "gt"  -> order > 0
      [] op = "gte" -> order >= 0

Relates(arithmetic, op, left, right, values) ==
    Satisfies(CompareValues(arithmetic, Resolve(left, values), Resolve(right, values)), op)

BoundsInOrder(arithmetic, node, values) ==
    /\ Comparable(node.lower, node.upper, values)
    /\ Relates(arithmetic, "lte", node.lower, node.upper, values)

Between(arithmetic, node, values) ==
    LET op == IF node.inclusive THEN "lte" ELSE "lt"
    IN  /\ Relates(arithmetic, op, node.lower, node.value, values)
        /\ Relates(arithmetic, op, node.value, node.upper, values)

(* A plausible slip: what cannot be compared counts as false. *)
VerdictLenient(defined, holds) == IF defined /\ holds THEN "true" ELSE "false"

Verdict(defined, holds) ==
    IF ~defined THEN "rejected" ELSE IF holds THEN "true" ELSE "false"

(* A plausible slip: a rejected argument is passed over. *)
ShortCircuitPassing(results, neutral) ==
    LET first == SelectInSeq(results, LAMBDA r : r \notin {neutral, "rejected"})
    IN  IF first = 0 THEN neutral ELSE results[first]

(* The first argument that decides, or is rejected, decides. *)
ShortCircuit(results, neutral) ==
    LET first == SelectInSeq(results, LAMBDA r : r # neutral)
    IN  IF first = 0 THEN neutral ELSE results[first]

Negated(result) ==
    CASE result = "true" -> "false" [] result = "false" -> "true" [] OTHER -> result

(* One node, from what its arguments evaluated to. *)
NodeVerdict(arithmetic, node, values, verdicts) ==
    LET results == [i \in DOMAIN node.args |-> verdicts[node.args[i]]]
    IN  CASE node.op = "all" -> ShortCircuit(results, "true")
          [] node.op = "any" -> ShortCircuit(results, "false")
          [] node.op = "not" -> Negated(verdicts[node.arg])
          [] node.op = "between" ->
                Verdict(/\ BoundsInOrder(arithmetic, node, values)
                        /\ Comparable(node.value, node.lower, values)
                        /\ Comparable(node.value, node.upper, values),
                        Between(arithmetic, node, values))
          [] node.op \in Comparisons ->
                Verdict(Comparable(node.left, node.right, values),
                        Relates(arithmetic, node.op, node.left, node.right, values))
          [] OTHER -> "rejected"

EvaluateNode(arithmetic, node, values) ==
    LET verdicts[n \in Nodes] == NodeVerdict(arithmetic, n, values, verdicts)
    IN  verdicts[node]

EvaluateJavaScript(sequence) ==
    IF /\ ValidCondition("JavaScript")
       /\ DistinctIds(sequence) /\ ValidValues("JavaScript", sequence)
    THEN EvaluateNode("rationals", root, Known(sequence)) ELSE "rejected"

EvaluateRust(sequence) ==
    IF /\ ValidCondition("Rust")
       /\ DistinctIds(sequence) /\ ValidValues("Rust", sequence)
    THEN EvaluateNode("digits", root, Known(sequence)) ELSE "rejected"

(* Its callers validate first. *)
EvaluatePython(sequence) == EvaluateNode("rationals", root, Known(sequence))

-----------------------------------------------------------------------------
(* Properties *)

(* A text within the limit in code points and beyond it in UTF-16 units. *)
Straddles(value) ==
    /\ ~IsRef(value) /\ value.kind = "text"
    /\ CodePoints[value.value] <= MaxText /\ MaxText < CodeUnits[value.value]

NodeStraddles[node \in Nodes] ==
    \/ \E value \in Operands(node) : Straddles(value)
    \/ node.op = "not" /\ NodeStraddles[node.arg]
    \/ /\ node.op \in {"all", "any"}
       /\ \E i \in DOMAIN node.args : NodeStraddles[node.args[i]]

(* Whatever the observations, JavaScript and Rust come to the same verdict *)
(* or rejection, although one computes with rationals and one with digits, *)
(* unless JavaScript alone rejects a text that is between the two counts;  *)
(* it never decides otherwise.  Python agrees with Rust on everything that *)
(* its own validation lets through.                                        *)
VerifiersAgree ==
    /\ \/ EvaluateJavaScript(observations) = EvaluateRust(observations)
       \/ /\ EvaluateJavaScript(observations) = "rejected"
          /\ \/ NodeStraddles[root]
             \/ \E i \in DOMAIN observations : Straddles(observations[i].value)
    /\ ValidCondition("Python") /\ ValidEvidence("Python", observations) =>
           EvaluatePython(observations) = EvaluateRust(observations)

(* "JavaScript and Python [apply] the same rejection boundaries" as Rust,  *)
(* PORTABLE-ERROR-CATALOG.md says.  JavaScript does not.                   *)
SameRejectionBoundaries ==
    EvaluateJavaScript(observations) = "rejected" <=> EvaluateRust(observations) = "rejected"

(* What the condition says, whatever the order of its arguments: node is   *)
(* certainly true (sign TRUE) or certainly false (sign FALSE).             *)
Says(node, sign, values, said) ==
    CASE node.op = "not" -> said[node.arg][~sign]
      [] node.op = (IF sign THEN "all" ELSE "any") ->
            \A i \in DOMAIN node.args : said[node.args[i]][sign]
      [] node.op = (IF sign THEN "any" ELSE "all") ->
            \E i \in DOMAIN node.args : said[node.args[i]][sign]
      [] node.op = "between" ->
            /\ BoundsInOrder("rationals", node, values)
            /\ Comparable(node.value, node.lower, values)
            /\ Comparable(node.value, node.upper, values)
            /\ Between("rationals", node, values) = sign
      [] node.op \in Comparisons ->
            /\ Comparable(node.left, node.right, values)
            /\ Relates("rationals", node.op, node.left, node.right, values) = sign
      [] OTHER -> FALSE

Certain(node, sign, values) ==
    LET said[n \in Nodes] == [b \in BOOLEAN |-> Says(n, b, values, said)]
    IN  said[node][sign]

(* A verdict is what the condition says of the observations: stopping at   *)
(* the first argument that decides never decides otherwise.                *)
VerdictSound ==
    LET verdict == EvaluateRust(observations)
    IN  verdict # "rejected" => Certain(root, verdict = "true", Known(observations))

(* A verdict stands: evidence that only adds observations to other         *)
(* evidence, as a dispute's may to a proposal's, never overturns it.       *)
VerdictStands ==
    [][LET verdict == EvaluateRust(observations)
       IN  verdict # "rejected" /\ ValidEvidence("Rust", observations') =>
              EvaluateRust(observations') = verdict]_conditionVars
=============================================================================
