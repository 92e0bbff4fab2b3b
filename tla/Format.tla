------------------------------- MODULE Format -------------------------------
(***************************************************************************)
(* The kernel's formatting, int_to_string and kvsnprintf of               *)
(* src/kernel/src/kernel/config.h, as operators on character sequences.   *)
(* A character is a one-letter string; a format string is the sequence of *)
(* its characters before the NUL, and a read past its end meets NUL.  An  *)
(* argument is what va_arg fetches: a sequence of characters or NULL for  *)
(* %s, a character for %c, and for the integer conversions the value as a *)
(* mathematical integer (int and int64_t sign-extended, unsigned values   *)
(* zero-extended), which makes the 'l' length modifier a no-op here.      *)
(***************************************************************************)
EXTENDS Integers, Sequences, TLC

CONSTANT NULL

\* The terminating '\0' of a C string.
NUL == "\\0"

\* static const char digits[] = "0123456789ABCDEF" of int_to_string.
DigitChar(d) == SubSeq("0123456789ABCDEF", d + 1, d + 1)

\* The first n characters of s (all of them when n >= Len(s)).
Prefix(s, n) == SubSeq(s, 1, IF n < Len(s) THEN n ELSE Len(s))

\* Mutant: the digits come out least significant first.
RECURSIVE DigitsReversed(_, _)
DigitsReversed(v, base) ==
  IF v < base THEN <<DigitChar(v)>>
  ELSE <<DigitChar(v % base)>> \o DigitsReversed(v \div base, base)

\* The 0 case and the conversion loop of int_to_string (lines 240-252):
\* tmp is filled from its end with value % base, so the most significant
\* digit comes first.
RECURSIVE Digits(_, _)
Digits(v, base) ==
  IF v < base THEN <<DigitChar(v)>>
  ELSE Digits(v \div base, base) \o <<DigitChar(v % base)>>

\* int_to_string once the sign is known (lines 254-279): the sign, then
\* the padding up to width before it, copied while out_len < size - 1.
Padded(body, width, pad, size) ==
  Prefix([k \in 1..(width - Len(body)) |-> pad] \o body, size - 1)

\* int_to_string (lines 210-280).
int_to_string(value, base, is_signed, width, pad, size) ==
  IF base < 2 \/ base > 16 \/ size = 0 THEN <<>>
  ELSE IF is_signed /\ value < 0
       THEN Padded(<<"-">> \o Digits(-value, base), width, pad, size)
       ELSE Padded(Digits(value, base), width, pad, size)

Ch(fmt, i) == IF i \in 1..Len(fmt) THEN fmt[i] ELSE NUL

DigitChars == {DigitChar(d) : d \in 0..9}
DigitVal(c) == CHOOSE d \in 0..9 : DigitChar(d) = c

\* The width loop of kvsnprintf (lines 312-315).
RECURSIVE WidthFrom(_, _, _)
WidthFrom(fmt, i, w) ==
  IF Ch(fmt, i) \in DigitChars
  THEN WidthFrom(fmt, i + 1, w * 10 + DigitVal(Ch(fmt, i)))
  ELSE [width |-> w, at |-> i]

\* The length modifier (lines 318-325) after the width w: the index of
\* the conversion character.
LengthMod(fmt, pad, w) ==
  [pad |-> pad, width |-> w.width,
   at  |-> IF Ch(fmt, w.at) # "l" THEN w.at
           ELSE IF Ch(fmt, w.at + 1) = "l" THEN w.at + 2 ELSE w.at + 1]

\* The '0' flag (lines 305-309) of the directive whose '%' is at i - 1.
Directive(fmt, i) ==
  IF Ch(fmt, i) = "0" THEN LengthMod(fmt, "0", WidthFrom(fmt, i + 1, 0))
  ELSE LengthMod(fmt, " ", WidthFrom(fmt, i, 0))

\* The conversions that take an argument with va_arg.
Consumes == {"c", "s", "d", "i", "u", "x", "X", "p"}

\* What the switch (lines 328-440) appends for conversion c, argument a
\* and directive d, before the out_idx < size - 1 checks.
Converted(c, a, d) ==
  CASE c = "c"          -> <<a>>
    [] c = "s"          -> IF a = NULL THEN <<"(", "n", "u", "l", "l", ")">> ELSE a
    [] c \in {"d", "i"} -> int_to_string(a, 10, TRUE, d.width, d.pad, 24)
    [] c = "u"          -> int_to_string(a, 10, FALSE, d.width, d.pad, 24)
    [] c \in {"x", "X"} -> int_to_string(a, 16, FALSE, d.width, d.pad, 24)
    [] c = "p"          -> <<"0", "x">> \o int_to_string(a, 16, FALSE, 16, "0", 24)
    [] c = "%"          -> <<"%">>
    [] OTHER            -> <<"%", c>>

\* Mutant: characters are appended while out_idx < size, one past the
\* room left for the NUL.
PutNoRoomForNul(out, cs, size) == out \o Prefix(cs, size - Len(out))

\* Appending characters while out_idx < size - 1.
Put(out, cs, size) == out \o Prefix(cs, size - 1 - Len(out))

(***************************************************************************)
(* The loop of kvsnprintf (lines 296-446): a regular character is copied, *)
(* a directive appends its conversion, and the loop stops at the format's *)
(* NUL or when out_idx reaches size - 1.  A format ending in '%' makes the *)
(* default case append '%' and the NUL and the loop read past the string; *)
(* the model lets that read meet NUL, one of the outcomes of that read.   *)
(***************************************************************************)
RECURSIVE Fmt(_, _, _, _, _), FmtDirective(_, _, _, _, _)
Fmt(fmt, args, size, i, out) ==
  IF Ch(fmt, i) = NUL \/ Len(out) >= size - 1 THEN out
  ELSE IF Ch(fmt, i) # "%" THEN Fmt(fmt, args, size, i + 1, Append(out, Ch(fmt, i)))
  ELSE FmtDirective(fmt, args, size, Directive(fmt, i + 1), out)

FmtDirective(fmt, args, size, d, out) ==
  IF Ch(fmt, d.at) \in Consumes
  THEN Fmt(fmt, Tail(args), size, d.at + 1,
           Put(out, Converted(Ch(fmt, d.at), Head(args), d), size))
  ELSE Fmt(fmt, args, size, d.at + 1, Put(out, Converted(Ch(fmt, d.at), NULL, d), size))

\* kvsnprintf (lines 290-452): the characters of buf before its NUL.
kvsnprintf(size, fmt, args) == IF size = 0 THEN <<>> ELSE Fmt(fmt, args, size, 1, <<>>)

-----------------------------------------------------------------------------
(***************************************************************************)
(* Reference: what snprintf makes of the directives kmain uses (%s, %u,   *)
(* %d, %c and %%, without flags or width), numbers printed by TLC's own   *)
(* ToString, cut to size - 1 characters.                                  *)
(***************************************************************************)
CharsOf(str) == [k \in 1..Len(str) |-> SubSeq(str, k, k)]

RECURSIVE RefRender(_, _)
RefRender(fmt, args) ==
  CASE fmt = <<>> -> <<>>
    [] Len(fmt) >= 2 /\ Head(fmt) = "%" /\ fmt[2] = "s" ->
         Head(args) \o RefRender(Tail(Tail(fmt)), Tail(args))
    [] Len(fmt) >= 2 /\ Head(fmt) = "%" /\ fmt[2] \in {"u", "d"} ->
         CharsOf(ToString(Head(args))) \o RefRender(Tail(Tail(fmt)), Tail(args))
    [] Len(fmt) >= 2 /\ Head(fmt) = "%" /\ fmt[2] = "c" ->
         <<Head(args)>> \o RefRender(Tail(Tail(fmt)), Tail(args))
    [] Len(fmt) >= 2 /\ Head(fmt) = "%" /\ fmt[2] = "%" ->
         <<"%">> \o RefRender(Tail(Tail(fmt)), args)
    [] OTHER -> <<Head(fmt)>> \o RefRender(Tail(fmt), args)

RefSnprintf(size, fmt, args) == Prefix(RefRender(fmt, args), size - 1)
====
