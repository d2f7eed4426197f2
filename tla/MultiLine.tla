----------------------------- MODULE MultiLine -----------------------------
(***************************************************************************)
(* multiline.ReadMultiLineLayoutWithStats (internal/domain/multiline/      *)
(* multiline.go): lines grouped into records by fields at fixed positions. *)
(* A record is the set of its lines.  Lines that match nothing and those   *)
(* that match the ignore fields are left out alike, so the ignore fields   *)
(* are not modelled.                                                       *)
(***************************************************************************)
EXTENDS LineReader

CONSTANTS
  BreakFields,    \* the line that begins a record
  IncludeFields   \* a further line of it; each a set of [at, value] bytes

ASSUME LayoutFields ==
  /\ BreakFields \cup IncludeFields \subseteq [at : Nat, value : Bytes]
  /\ BreakFields # {}

Matches(d, l, fields) ==
  /\ fields # {}
  /\ \A f \in fields : f.at < l.len /\ d[l.off + f.at] = f.value

IsBreak(d, l) == Matches(d, l, BreakFields)

(* Breaks take precedence over included lines.                              *)
RecordFrom(d, lines, first) ==
  { l \in lines :
      \/ l = first
      \/ /\ l.off > first.off
         /\ Matches(d, l, IncludeFields)
         /\ \A m \in lines :
              m.off \in (first.off + 1)..l.off => ~IsBreak(d, m) }

(* A record is passed on when the next one begins or the input ends; an     *)
(* error leaves the record being collected behind.                          *)
ReadRecords(d, a, b, limit) ==
  LET reading == ReadLines(d, a, b, limit, FALSE)
      breaks  == { l \in reading.lines : IsBreak(d, l) }
      emitted == { l \in breaks :
                     reading.ok \/ \E m \in breaks : m.off > l.off }
  IN [ ok      |-> reading.ok,
       records |-> { RecordFrom(d, reading.lines, l) : l \in emitted } ]
=============================================================================
