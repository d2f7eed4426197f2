------------------------------ MODULE JsonScan ------------------------------
(***************************************************************************)
(* The lexical scan for the elements of a JSON array: FindJSONObjectStarts *)
(* (internal/domain/f2e/json.go) and alignJSONRead (worker/service.go).    *)
(* Inputs are as in LineReader.  The opening brace of an element stands for*)
(* the bytes up to its first key, which is how the scan knows it; a brace  *)
(* in a string never is one, because the quotes of a key would be escaped  *)
(* there.  Values are scalars and strings.                                 *)
(***************************************************************************)
EXTENDS Integers, FiniteSets, FiniteSetsExt

OPEN   == "{"
CLOSE  == "}"
QUOTE  == "quote"   \* not escaped
Tokens == {"a", OPEN, CLOSE, QUOTE}

(* The scan of a..b begins outside strings, right or wrong.                 *)
InString(d, a, i) == Cardinality({ k \in a..(i - 1) : d[k] = QUOTE }) % 2 = 1

Closings(d, i, b) == { k \in (i + 1)..b : d[k] = CLOSE /\ ~InString(d, i, k) }

(* Where an element begins that is complete within the input.               *)
FindJSONObjectStarts(d, a, b) ==
  { i \in a..b : d[i] = OPEN /\ ~InString(d, a, i) /\ Closings(d, i, b) # {} }

ElementAt(d, i, b) == [off |-> i, len |-> Min(Closings(d, i, b)) - i + 1]

MutAlignedStart(d, a, b) == a

(* The first brace from which the scan finds an object at once.             *)
AlignedStart(d, a, b) ==
  LET starts == { i \in a..b : i \in FindJSONObjectStarts(d, i, b) }
  IN IF starts = {} THEN a ELSE Min(starts)
=============================================================================
