----------------------------- MODULE LineReader -----------------------------
(***************************************************************************)
(* lineio.ReadLines (internal/domain/lineio/reader.go).  An input is the   *)
(* bytes a..b of a function d from offsets to bytes, so an offset means the*)
(* same byte in the file and in every read of a part of it.  The reader    *)
(* consumes one byte at a time; here a line is defined by where it starts  *)
(* and ends, which is what the loop computes.                              *)
(***************************************************************************)
EXTENDS Integers, FiniteSetsExt

(* What the reader tells apart in a byte: the two terminators, and the      *)
(* parts of a character of two bytes, which must stay together.  The other  *)
(* bytes differ only for the fields of a multi-line layout.                 *)
CR   == "CR"
LF   == "LF"
LEAD == "lead"
CONT == "cont"
Bytes == {"a", "b", CR, LF, LEAD, CONT}

(* CR, LF and CRLF each end one line; the line ends where they begin.       *)
LineEnds(d, a, b) ==
  { t \in a..b : d[t] = CR \/ (d[t] = LF /\ ~(t > a /\ d[t - 1] = CR)) }

AfterEnd(d, b, t) ==
  IF d[t] = CR /\ t < b /\ d[t + 1] = LF THEN t + 2 ELSE t + 1

(* No line starts after a final terminator.                                 *)
LineStarts(d, a, b) ==
  ({a} \cup { AfterEnd(d, b, t) : t \in LineEnds(d, a, b) }) \cap (a..b)

LineAt(d, a, b, s) ==
  [off |-> s, len |-> Min({ t \in LineEnds(d, a, b) : t >= s } \cup {b + 1}) - s]

Lines(d, a, b) == { LineAt(d, a, b, s) : s \in LineStarts(d, a, b) }

ValidUtf8(d, l) ==
  LET content == l.off .. (l.off + l.len - 1) IN
  \A i \in content :
    /\ d[i] = LEAD => i + 1 \in content /\ d[i + 1] = CONT
    /\ d[i] = CONT => i - 1 \in content /\ d[i - 1] = LEAD

(* The three errors of a line: no terminator, too long, not UTF-8.          *)
Refused(d, b, limit, l) ==
  l.off + l.len = b + 1 \/ l.len > limit \/ ~ValidUtf8(d, l)

(* The callback sees the lines before the first error, without the first    *)
(* one when it is skipped; a skipped line is checked like any other.        *)
ReadLines(d, a, b, limit, skipFirst) ==
  LET lines   == Lines(d, a, b)
      refused == { l \in lines : Refused(d, b, limit, l) }
  IN [ ok    |-> refused = {},
       lines |-> { l \in lines : /\ \A r \in refused : l.off < r.off
                                 /\ skipFirst => l.off # a } ]
=============================================================================
