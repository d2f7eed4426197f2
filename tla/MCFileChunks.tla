---------------------------- MODULE MCFileChunks ----------------------------
(* TLC instances of FileChunks: sizes scaled down with the planner's limits.*)
EXTENDS FileChunks, SequencesExt

CONSTANTS
  TextSizes, PlainSizes, Plain, TextLimits, MaxChunkBytes, Targets,
  MultiLineSizes, MultiLineLimits, MultiLineMaxChunks, Elements, ElementLimits, RecordsPerChunk

Break   == {[at |-> 0, value |-> "b"]}
Include == {[at |-> 0, value |-> "a"]}

FilesOf(alphabet, sizes) == UNION { [0..(n - 1) -> alphabet] : n \in sizes }

InputsOf(type, files, limits, maxChunks, targets, perChunks) ==
  [dataType : {type}, file : files, limit : limits, maxChunk : maxChunks,
   target : targets, perChunk : perChunks]

(* Files of any bytes, and larger ones of a smaller alphabet.               *)
TextInputs ==
  InputsOf("text", FilesOf({"a", CR, LF, LEAD, CONT}, TextSizes)
                     \cup FilesOf(Plain, PlainSizes),
           TextLimits, MaxChunkBytes, Targets, {1})

(* Lines that begin with a, with b and with neither.                        *)
MultiLineInputs ==
  InputsOf("multi-line", FilesOf({"a", "b", LF}, MultiLineSizes), MultiLineLimits,
           MultiLineMaxChunks, {0}, RecordsPerChunk)

(* Arrays of elements of three sizes, one byte apart or two.                *)
Element   == { <<OPEN, "a", CLOSE>>, <<OPEN, QUOTE, CLOSE, QUOTE, CLOSE>>,
               <<OPEN, QUOTE, "a", "a", QUOTE, CLOSE>> }
Separator == { <<"a">>, <<"a", "a">> }
ArrayOf(parts) == FlattenSeq(parts) \o <<"a">>
Arrays    == UNION { { ArrayOf(parts) :
                         parts \in [1..n -> { s \o e : s \in Separator, e \in Element }] }
                     : n \in Elements }
ZeroBased(s) == [i \in 0..(Len(s) - 1) |-> s[i + 1]]

JsonInputs ==
  InputsOf("json", { ZeroBased(s) : s \in Arrays }, ElementLimits, {8}, {0},
           RecordsPerChunk)

MCInputs == TextInputs \cup MultiLineInputs \cup JsonInputs
=============================================================================
