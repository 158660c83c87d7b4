------------------------------ MODULE Numbers -------------------------------
(***************************************************************************)
(* The integers of Jett: the operators of eval_binary_op and the integer   *)
(* built-ins of call_builtin (crates/jett_comptime/src/interpreter.rs).    *)
(*                                                                         *)
(* The operators check every result. The built-ins compute with Rust's own *)
(* operators: an overflow panics in a build with overflow checks and wraps *)
(* in one without, so they have a set of outcomes.                         *)
(***************************************************************************)
EXTENDS Integers, SequencesExt, Values

CONSTANT Word    \* 2^63: int64 is -Word .. Word - 1, uint64 0 .. 2*Word - 1

ASSUME WordIsWide == Word \in Nat /\ Word > 1

MinInt == -Word
MaxInt == Word - 1
MaxUint == 2 * Word - 1

\* Two's complement.
Wrap(n) == ((n + Word) % (2 * Word)) - Word

Abs(n) == IF n < 0 THEN -n ELSE n

\* Rust's division and remainder go towards zero.
Quotient(a, b) ==
  LET q == Abs(a) \div Abs(b) IN IF (a < 0) = (b < 0) THEN q ELSE -q
Remainder(a, b) == a - b * Quotient(a, b)

-----------------------------------------------------------------------------
(* Operators                                                               *)

Arithmetic == {"+", "-", "*", "/", "%"}
Comparisons == {"==", "!=", "<", ">", "<=", ">="}

\* The exact result; the divisor is not zero.
Exact(a, op, b) ==
  CASE op = "+" -> a + b
    [] op = "-" -> a - b
    [] op = "*" -> a * b
    [] op = "/" -> Quotient(a, b)
    [] op = "%" -> Remainder(a, b)

Holds(a, op, b) ==
  CASE op = "==" -> a = b
    [] op = "!=" -> a # b
    [] op = "<" -> a < b
    [] op = ">" -> a > b
    [] op = "<=" -> a <= b
    [] op = ">=" -> a >= b

\* checked_rem is refused where the division would overflow.
Int64Arithmetic(a, op, b) ==
  IF op \in {"/", "%"} /\ (b = 0 \/ (a = MinInt /\ b = -1)) THEN Fails
  ELSE IF Exact(a, op, b) \in MinInt..MaxInt THEN Gives(Int64(Exact(a, op, b))) ELSE Fails

Uint64Arithmetic(a, op, b) ==
  IF op \in {"/", "%"} /\ b = 0 THEN Fails
  ELSE IF Exact(a, op, b) \in 0..MaxUint THEN Gives(Uint64(Exact(a, op, b))) ELSE Fails

\* A negative int64 is below every uint64.
MixedComparison(a, op, b) == Gives(Bool(Holds(a, op, b)))

IntKinds == {"int64", "uint64"}
Equalities == {"==", "!="}

\* eval_binary_op: what has no case of its own is unsupported.
BinaryOp(l, op, r) ==
  LET a == Contents(l)
      b == Contents(r)
  IN CASE {Kind(l), Kind(r)} = {"int64"} /\ op \in Arithmetic -> Int64Arithmetic(a, op, b)
       [] {Kind(l), Kind(r)} = {"int64"} /\ op \in Comparisons -> Gives(Bool(Holds(a, op, b)))
       [] /\ {Kind(l), Kind(r)} \subseteq IntKinds /\ "uint64" \in {Kind(l), Kind(r)}
          /\ op \in Arithmetic ->
            IF a < 0 \/ b < 0 THEN Fails ELSE Uint64Arithmetic(a, op, b)
       [] /\ {Kind(l), Kind(r)} \subseteq IntKinds /\ "uint64" \in {Kind(l), Kind(r)}
          /\ op \in Comparisons -> MixedComparison(a, op, b)
       [] {Kind(l), Kind(r)} = {"float64"} /\ op \in Comparisons -> Gives(Bool(Holds(a, op, b)))
       [] {Kind(l), Kind(r)} = {"string"} /\ op = "+" -> Gives(String(a \o b))
       [] /\ Kind(l) = Kind(r) /\ Kind(l) \in {"string", "bool"} /\ op \in Equalities ->
            Gives(Bool((a = b) = (op = "==")))
       [] {Kind(l), Kind(r)} = {"bool"} /\ op = "and" -> Gives(Bool(a /\ b))
       [] {Kind(l), Kind(r)} = {"bool"} /\ op = "or" -> Gives(Bool(a \/ b))
       [] {Kind(l), Kind(r)} = {"nothing"} /\ op \in Equalities -> Gives(Bool(op = "=="))
       [] OTHER -> Fails

-----------------------------------------------------------------------------
(* Built-ins                                                               *)

\* A result that Rust's own operators compute.
Computed(n) ==
  IF n \in MinInt..MaxInt THEN {Gives(Int64(n))} ELSE {Panics, Gives(Int64(Wrap(n)))}

AbsOutcomes(n) == Computed(Abs(n))

\* The remainder of the least integer by minus one panics in every build.
ModOutcomes(a, b) ==
  IF b = 0 THEN {Fails}
  ELSE IF a = MinInt /\ b = -1 THEN {Panics}
  ELSE {Gives(Int64(Remainder(a, b)))}

\* Some partial sum overflows, or the total is exact.
SumOutcomes(items) ==
  LET total(n) == FoldLeft(LAMBDA acc, x : acc + Contents(x), 0, SubSeq(items, 1, n))
  IN IF \A n \in DOMAIN items : total(n) \in MinInt..MaxInt
     THEN {Gives(Int64(total(Len(items))))}
     ELSE {Panics, Gives(Int64(Wrap(total(Len(items)))))}

\* i64::abs where overflow wraps: the least integer is its own.
WrappedAbs(n) == Wrap(Abs(n))

\* Euclid's remainders, which have the sign of what is divided.
Euclid(a, b) ==
  LET from[x \in MinInt..MaxInt, y \in MinInt..MaxInt] ==
        IF y = 0 THEN x ELSE from[y, Remainder(x, y)]
  IN from[a, b]

GcdOutcomes(a, b) ==
  {Gives(Int64(Euclid(WrappedAbs(a), WrappedAbs(b))))}
  \cup (IF MinInt \in {a, b} THEN {Panics} ELSE {})

\* The product is taken before it is divided, so it overflows where the
\* multiple itself would not.
LcmOutcomes(a, b) ==
  LET x == WrappedAbs(a)
      y == WrappedAbs(b)
      checked == IF MinInt \in {a, b} \/ x * y \notin MinInt..MaxInt THEN {Panics} ELSE {}
      multiple == Quotient(Wrap(x * y), Euclid(x, y))
  IN IF a = 0 /\ b = 0 THEN {Gives(Int64(0))}
     ELSE checked \cup {IF multiple \in MinInt..MaxInt THEN Gives(Int64(multiple)) ELSE Panics}

\* saturating_mul
Factorial(n) ==
  LET product[k \in 0..n] ==
        IF k < 2 THEN 1
        ELSE LET p == product[k - 1] * k IN IF p > MaxInt THEN MaxInt ELSE p
  IN IF n < 0 THEN Fails ELSE Gives(Int64(product[n]))

Sign(n) == IF n < 0 THEN -1 ELSE IF n > 0 THEN 1 ELSE 0

\* Mutant: the end is taken as part of the range.
RangeInclusive(start, end, step) ==
  IF step = 0 THEN {Fails}
  ELSE {Gives(List([i \in 1..Abs(end - start) \div Abs(step) + 1 |-> Int64(start + (i - 1) * step)]))}

\* The integers from start to before end by the step. Stepping over the word's
\* end panics, or wraps and goes on until the memory is full.
RangeOutcomes(start, end, step) ==
  LET count == IF step > 0 /\ start < end THEN (end - start + step - 1) \div step
               ELSE IF step < 0 /\ start > end THEN (start - end - step - 1) \div (-step)
               ELSE 0
  IN IF step = 0 THEN {Fails}
     ELSE IF count > 0 /\ start + count * step \notin MinInt..MaxInt THEN {Panics}
     ELSE {Gives(List([i \in 1..count |-> Int64(start + (i - 1) * step)]))}

=============================================================================
