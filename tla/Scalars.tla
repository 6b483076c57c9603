-------------------------------- MODULE Scalars --------------------------------
(* DTL values and the conversions of executor/executor.go that need no text.  A      *)
(* value is a tuple whose first element is its Go type.  Integers have IntBits bits;  *)
(* floats are exact fractions, without the rounding and the special values of         *)
(* float64.                                                                           *)
EXTENDS Integers, Sequences, SequencesExt

CONSTANT IntBits   \* the width of an integer, 64 in the code

Null == <<"null">>
Bool(b) == <<"bool", b>>
Int64(n) == <<"int", n>>
Str(s) == <<"string", s>>
Arr(s) == <<"array", s>>
Obj(f) == <<"object", f>>
Closure(c) == <<"lambda", c>>

Kind(v) == v[1]
IsNull(v) == Kind(v) = "null"

--------------------------------------------------------------------------------
(* Numbers. *)

Abs(n) == IF n < 0 THEN -n ELSE n
Sign(n) == IF n < 0 THEN -1 ELSE 1

\* The integers of Go's int64 wrap around.
MaxInt == 2 ^ (IntBits - 1) - 1
MinInt == - (2 ^ (IntBits - 1))
IntRange == MinInt .. MaxInt
Wrap(n) == ((n - MinInt) % (MaxInt - MinInt + 1)) + MinInt

ASSUME ScalarsAssumption == IntBits \in Nat \ {0} /\ MaxInt \in Nat

\* Go's division truncates towards zero.
Quot(a, b) == Sign(a) * Sign(b) * (Abs(a) \div Abs(b))
Rem(a, b) == a - Quot(a, b) * b

\* The fraction n / d in lowest terms with a positive denominator.
Gcd(a, b) ==
    LET gcd[x \in Nat, y \in Nat] == IF y = 0 THEN x ELSE gcd[y, x % y]
    IN  gcd[Abs(a), Abs(b)]
Reduced(n, d, g) == <<"float", Sign(d) * (n \div g), Abs(d) \div g>>
Float(n, d) == Reduced(n, d, Gcd(n, d))

Zero == Float(0, 1)
Add(x, y) == Float(x[2] * y[3] + y[2] * x[3], x[3] * y[3])
Sub(x, y) == Float(x[2] * y[3] - y[2] * x[3], x[3] * y[3])
Mul(x, y) == Float(x[2] * y[2], x[3] * y[3])
Div(x, y) == Float(x[2] * y[3], x[3] * y[2])

IsNumber(v) == Kind(v) \in {"int", "float"}

ToFloat(v) ==
    CASE Kind(v) = "float" -> v
      [] Kind(v) = "int" -> Float(v[2], 1)
      [] Kind(v) = "bool" -> Float(IF v[2] THEN 1 ELSE 0, 1)
      [] OTHER -> Float(0, 1)

\* The conversion of a float outside the integers is Go's choice: instances have none.
ToInt(v) ==
    CASE Kind(v) = "int" -> v[2]
      [] Kind(v) = "float" -> Quot(v[2], v[3])
      [] Kind(v) = "bool" -> IF v[2] THEN 1 ELSE 0
      [] OTHER -> 0

FloatLess(x, y) == x[2] * y[3] < y[2] * x[3]
NumberLess(x, y) == FloatLess(ToFloat(x), ToFloat(y))

--------------------------------------------------------------------------------
(* Truth and failure. *)

ToBool(v) ==
    CASE Kind(v) = "bool" -> v[2]
      [] Kind(v) = "null" -> FALSE
      [] IsNumber(v) -> v[2] # 0
      [] Kind(v) = "string" -> v[2] # ""
      [] Kind(v) = "array" -> v[2] # <<>>
      [] OTHER -> TRUE

\* The value of an operation that reports an error, and of one that ends in a
\* run-time panic of Go.
Fails == <<"fails">>
Panics == <<"panic">>
================================================================================
