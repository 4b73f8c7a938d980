-------------------------------- MODULE Values --------------------------------
(***************************************************************************)
(* The values of the V2 language: 16-bit INT, FLOAT and strings.  A FLOAT   *)
(* (five bytes, 32-bit mantissa) is an exact fraction here, so rounding in  *)
(* the last bit and values past 2^31 are outside the model.                 *)
(***************************************************************************)
EXTENDS Integers, Sequences, TLC

INT_MAX == 32767
STR_MAX == 31          \* characters of a string value
INT(n) == <<"i", n>>
STR(s) == <<"s", s>>

RECURSIVE gcd(_, _)
gcd(a, b) == IF b = 0 THEN a ELSE gcd(b, a % b)
abs(n) == IF n < 0 THEN -n ELSE n
fraction(p, q) == LET g == gcd(abs(p), abs(q)) s == IF q < 0 THEN -1 ELSE 1 IN <<s * (p \div g), s * (q \div g)>>
FLOAT(f) == <<"f", f[1], f[2]>>
exact(val) == IF val[1] = "i" THEN <<val[2], 1>> ELSE <<val[2], val[3]>>

\* INT when a 16-bit integer, else FLOAT: an INT operation that overflows promotes.
promoted(n) == IF n \in -INT_MAX - 1 .. INT_MAX THEN INT(n) ELSE FLOAT(<<n, 1>>)
both_int(a, b) == a[1] = "i" /\ b[1] = "i"
add(a, b) == IF both_int(a, b) THEN promoted(a[2] + b[2])
             ELSE LET x == exact(a) y == exact(b) g == gcd(x[2], y[2])
                  IN FLOAT(fraction(x[1] * (y[2] \div g) + y[1] * (x[2] \div g), (x[2] \div g) * y[2]))
negative(a) == IF a[1] = "i" THEN promoted(-a[2]) ELSE FLOAT(<<-a[2], a[3]>>)
sub(a, b) == IF both_int(a, b) THEN promoted(a[2] - b[2]) ELSE add(a, negative(b))
mul(a, b) == IF both_int(a, b) THEN promoted(a[2] * b[2])
             ELSE LET x == exact(a) y == exact(b) l == fraction(x[1], y[2]) r == fraction(y[1], x[2])
                  IN FLOAT(<<l[1] * r[1], l[2] * r[2]>>)
zero(a) == exact(a)[1] = 0
\* INT / INT stays INT only when it is exact.
div(a, b) == LET x == exact(a) y == exact(b) l == fraction(x[1], y[1]) r == fraction(y[2], x[2])
                 z == fraction(l[1] * r[1], l[2] * r[2])
             IN IF both_int(a, b) /\ z[2] = 1 THEN promoted(z[1]) ELSE FLOAT(z)
sign(a) == LET n == exact(a)[1] IN IF n < 0 THEN -1 ELSE IF n = 0 THEN 0 ELSE 1
compare(a, b) == sign(sub(a, b))
truncated(a) == LET x == exact(a) t == abs(x[1]) \div x[2] IN IF x[1] < 0 THEN -t ELSE t
quotient(a, b) == promoted(truncated(div(a, b)))
remainder(a, b) == sub(a, mul(quotient(a, b), b))

\* Text: the printable characters from code 32, in order (\f stands for the pound sign).
Ascii == " !\"#$%&'(" \o ")*+,-./0123456789:;<=>?@ABCDEFGHIJKLMNOPQRSTUVWXYZ[\\]^_\fabcdefghijklmnopqrstuvwxyz{|}~"
char(s, i) == SubSeq(s, i, i)
Codes == [c \in {char(Ascii, i) : i \in 1 .. Len(Ascii)} |-> 31 + CHOOSE i \in 1 .. Len(Ascii) : char(Ascii, i) = c]
chr(n) == char(Ascii, n - 31)
in_range(s, i, lo, hi) == i \in 1 .. Len(s) /\ Codes[char(s, i)] \in Codes[lo] .. Codes[hi]
is_digit(s, i) == in_range(s, i, "0", "9")
is_letter(s, i) == in_range(s, i, "A", "Z") \/ in_range(s, i, "a", "z")
digit(s, i) == Codes[char(s, i)] - 48
FOLD_UPPER(c) == IF Codes[c] \in 97 .. 122 THEN chr(Codes[c] - 32) ELSE c
FOLD_LOWER(c) == IF Codes[c] \in 65 .. 90 THEN chr(Codes[c] + 32) ELSE c
RECURSIVE mapped(_, _), repeated(_, _), run_of(_, _, _)
mapped(F(_), s) == IF s = "" THEN "" ELSE F(char(s, 1)) \o mapped(F, SubSeq(s, 2, Len(s)))
repeated(s, n) == IF n = 0 THEN "" ELSE s \o repeated(s, n - 1)
\* The first position from i on that is not a digit (of a name: nor a letter).
run_of(kind, s, i) == IF is_digit(s, i) \/ (kind = "name" /\ is_letter(s, i)) THEN run_of(kind, s, i + 1) ELSE i
cut(s, n) == SubSeq(s, 1, IF n < Len(s) THEN n ELSE Len(s))
RECURSIVE str_compare(_, _)
str_compare(a, b) == IF a = "" \/ b = "" THEN Len(a) - Len(b)
                     ELSE IF char(a, 1) # char(b, 1) THEN Codes[char(a, 1)] - Codes[char(b, 1)]
                     ELSE str_compare(SubSeq(a, 2, Len(a)), SubSeq(b, 2, Len(b)))

RECURSIVE digits_from(_, _, _, _)
digits_from(s, i, j, n) == IF i = j THEN n ELSE digits_from(s, i + 1, j, 10 * n + digit(s, i))
RECURSIVE power10(_)
power10(n) == IF n = 0 THEN 1 ELSE 10 * power10(n - 1)
\* The number at s[i], with the position after it: a point with a digit after it makes a fraction, a bare one is dropped.
NUM_PARSE(s, i) ==
  LET j == run_of("number", s, i)
      dot == j <= Len(s) /\ char(s, j) = "."
      k == IF dot THEN run_of("number", s, j + 1) ELSE j
      whole == digits_from(s, i, j, 0)
  IN IF dot /\ k > j + 1
     THEN [val |-> FLOAT(fraction(digits_from(s, j + 1, k, whole), power10(k - j - 1))), next |-> k]
     ELSE [val |-> promoted(whole), next |-> IF dot THEN j + 1 ELSE j]

\* A FLOAT shows four decimals, rounded half away from zero.
fixed4(f) == LET p == abs(f[1])
                 whole == p \div f[2]
                 rest == (2 * 10000 * (p % f[2]) + f[2]) \div (2 * f[2])
                 w == whole + (rest \div 10000)
                 t == ToString(10000 + (rest % 10000))
             IN (IF f[1] < 0 /\ (w # 0 \/ rest % 10000 # 0) THEN "-" ELSE "") \o ToString(w) \o "." \o SubSeq(t, 2, 5)
VM_NUM_TO_TEXT(a) == IF a[1] = "i" THEN ToString(a[2]) ELSE fixed4(exact(a))
=============================================================================
