------------------------------- MODULE MinStd -------------------------------
(***************************************************************************)
(* The string functions of src/kernel/src/lib/minstd.c that path handling  *)
(* uses, as operators.  A C string is the sequence of its characters up to *)
(* the terminating NUL, each character a one-letter string; a pointer into *)
(* a buffer is the 1-based index of the character it points to, and NULL   *)
(* is 0.  The NULL-argument checks are left out: every caller in the tree  *)
(* passes buffers.                                                         *)
(***************************************************************************)
EXTENDS Integers, Sequences, SequencesExt, FiniteSetsExt

\* strspn (lines 321-342): the length of the prefix of s whose characters
\* are all in accept.
strspn(s, accept) ==
  LET out == {i \in 1..Len(s) : s[i] \notin accept}
  IN  IF out = {} THEN Len(s) ELSE Min(out) - 1

\* strcspn (lines 344-360): the length of the prefix of s with no character
\* of reject.
strcspn(s, reject) ==
  LET hit == {i \in 1..Len(s) : s[i] \in reject}
  IN  IF hit = {} THEN Len(s) ELSE Min(hit) - 1

\* strrchr (lines 263-283) for a character other than NUL: the index of its
\* last occurrence, 0 for NULL.
strrchr(s, c) ==
  LET at == {i \in 1..Len(s) : s[i] = c}
  IN  IF at = {} THEN 0 ELSE Max(at)

(***************************************************************************)
(* strtok_r (lines 285-319) over the buffer s, with *saveptr = save.  It   *)
(* skips the delimiters, and the token runs to the next delimiter, which   *)
(* is overwritten by NUL and leaves *saveptr just after it; a token that   *)
(* ends the string leaves *saveptr NULL.  The NUL it writes lies outside   *)
(* every later token, so the buffer itself is left as it is.               *)
(***************************************************************************)
strtok_r(s, delim, save) ==
  LET none == [found |-> FALSE, tok |-> <<>>, save |-> 0]
      str  == IF save = 0 THEN <<>> ELSE SubSeq(s, save, Len(s))
      p    == save + strspn(str, delim)
  IN  IF save = 0 \/ p > Len(s) THEN none
      ELSE LET e == p + strcspn(SubSeq(s, p, Len(s)), delim)
           IN  [found |-> TRUE, tok |-> SubSeq(s, p, e - 1),
                save |-> IF e > Len(s) THEN 0 ELSE e + 1]

\* The tokens of `while ((token = strtok_r(rest, delim, &rest)) != NULL)`
\* with rest pointing at the start of s.
RECURSIVE TokensFrom(_, _, _)
TokensFrom(s, delim, save) ==
  LET r == strtok_r(s, delim, save)
  IN  IF r.found THEN <<r.tok>> \o TokensFrom(s, delim, r.save) ELSE <<>>

Tokens(s, delim) == TokensFrom(s, delim, 1)

\* Reference split, without strtok_r: the maximal runs of characters that
\* are not delimiters, in order.
Fields(s, delim) ==
  LET starts == {i \in 1..Len(s) : s[i] \notin delim /\ (i = 1 \/ s[i - 1] \in delim)}
      stop(i) == Min({j \in i..Len(s) : j = Len(s) \/ s[j + 1] \in delim})
      order   == SetToSortSeq(starts, <)
  IN  [k \in 1..Len(order) |-> SubSeq(s, order[k], stop(order[k]))]
====
