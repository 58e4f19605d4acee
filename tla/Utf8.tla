-------------------------------- MODULE Utf8 --------------------------------
(***************************************************************************)
(* txc_utf8_next of packages/tex-core/core/utf8.c: one codepoint of a      *)
(* source, a sequence of bytes, at a position, an offset into it.          *)
(***************************************************************************)
EXTENDS Integers, Sequences

Byte == 0 .. 255

At(src, p) == src[p + 1]

(* The lead byte: the length of its form, its bits of the value, and the   *)
(* least value that needs the form.                                        *)
Forms ==
  <<[mark |-> 6,  bits |-> 32, expected |-> 2, minimum |-> 128],
    [mark |-> 14, bits |-> 16, expected |-> 3, minimum |-> 2048],
    [mark |-> 30, bits |-> 8,  expected |-> 4, minimum |-> 65536]>>

FormsOf(lead) == {k \in DOMAIN Forms : lead \div Forms[k].bits = Forms[k].mark}

(* A byte of the tail is (byte & 0xC0) == 0x80.                            *)
IsTail(byte) == byte \div 64 = 2

Value(src, p, form) ==
  LET bits[k \in 1 .. form.expected] ==
        IF k = 1 THEN At(src, p) % form.bits
        ELSE bits[k - 1] * 64 + (At(src, p + k - 1) % 64)
  IN  bits[form.expected]

ScalarAnySurrogate(value, minimum) ==   (* mutant: surrogates pass            *)
  value >= minimum /\ value <= 1114111

(* Not overlong, not past U+10FFFF, not a surrogate.                       *)
Scalar(value, minimum) ==
  value >= minimum /\ value <= 1114111 /\ value \notin 55296 .. 57343

Valid(codepoint, length) == [ok |-> TRUE, codepoint |-> codepoint, length |-> length]
Invalid(length)          == [ok |-> FALSE, codepoint |-> 0, length |-> length]

(* The tail bytes are read while they are there; the first that is missing *)
(* or is none ends the invalid sequence before it.                         *)
Missing(src, p, form) ==
  {k \in 1 .. form.expected - 1 : p + k >= Len(src) \/ ~IsTail(At(src, p + k))}

Decoded(src, p, form) ==
  IF Missing(src, p, form) # {}
  THEN Invalid(CHOOSE k \in Missing(src, p, form) : \A j \in Missing(src, p, form) : k <= j)
  ELSE LET value == Value(src, p, form) IN
       IF Scalar(value, form.minimum) THEN Valid(value, form.expected)
       ELSE Invalid(form.expected)

Utf8Next(src, p) ==
  IF At(src, p) < 128 THEN Valid(At(src, p), 1)
  ELSE IF FormsOf(At(src, p)) = {} THEN Invalid(1)
  ELSE Decoded(src, p, Forms[CHOOSE k \in FormsOf(At(src, p)) : TRUE])
=============================================================================
