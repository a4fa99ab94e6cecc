-------------------------------- MODULE Logs --------------------------------
(***************************************************************************)
(* The end of a log (records.tail_lines), for `actl logs' and the stderr   *)
(* tail of a notification: the file is read backwards in chunks until      *)
(* enough newlines are in hand or the byte limit is reached.  A file is a  *)
(* sequence of bytes: LF, CR and letters.  The position is taken once, so  *)
(* what a running wrapper appends meanwhile is never looked at.            *)
(***************************************************************************)
EXTENDS Integers, Sequences, FiniteSetsExt

CONSTANTS
    ChunkSize,  \* TAIL_CHUNK_SIZE
    MaxFile     \* length of the longest file considered

ASSUME LogsAssumption == ChunkSize \in Nat \ {0} /\ MaxFile \in Nat

LF == "LF"
CR == "CR"

LastOf(seq, n) == IF n >= Len(seq) THEN seq ELSE SubSeq(seq, Len(seq) - n + 1, Len(seq))

Newlines(bytes) == Cardinality({i \in DOMAIN bytes : bytes[i] = LF})

\* str.splitlines(): LF, CR and CR LF end a line, and so do further separators
\* that, like a lone CR, the loop does not count; an empty rest is no line.
EndsAt(bytes, i) ==
    bytes[i] = LF \/ (bytes[i] = CR /\ (i = Len(bytes) \/ bytes[i + 1] # LF))

\* Where lines end: at a separator, and after the last byte of a rest.
Ends(bytes) ==
    LET n == Len(bytes)
    IN  {i \in 1..n : EndsAt(bytes, i)} \cup {i \in {n + 1} : n > 0 /\ ~EndsAt(bytes, n)}

\* The line that ends at e, without what ends it.
LineAt(bytes, e) ==
    LET before == Max({0} \cup {d \in Ends(bytes) : d < e})
        crlf   == e <= Len(bytes) /\ bytes[e] = LF /\ e > 1 /\ bytes[e - 1] = CR
    IN  SubSeq(bytes, before + 1, IF crlf THEN e - 2 ELSE e - 1)

Rank(S, e) == Cardinality({d \in S : d <= e})

SplitLines(bytes) ==
    LET ends == Ends(bytes)
    IN  [k \in 1..Cardinality(ends) |-> LineAt(bytes, CHOOSE e \in ends : Rank(ends, e) = k)]

EnoughAt(newlines, lines) == newlines >= lines

\* The loop goes on while `newlines <= lines': one more than there are lines,
\* because the first of them may have lost its beginning.
Enough(newlines, lines) == newlines > lines

\* The loop ends at the beginning of the file, at the limit, or with enough lines.
Done(file, lines, limit, c) ==
    c = Len(file) \/ c >= limit \/ Enough(Newlines(LastOf(file, c)), lines)

\* How many bytes the loop reads; limit is max_bytes, or the file's length.
Consumed(file, lines, limit) ==
    LET after[c \in 0..Len(file)] ==
            IF Done(file, lines, limit, c) THEN c
            ELSE after[c + Min({ChunkSize, Len(file) - c, limit - c})]
    IN  after[0]

TailLines(file, lines, limit) ==
    IF lines <= 0 THEN <<>>
    ELSE LastOf(SplitLines(LastOf(file, Consumed(file, lines, limit))), lines)

-----------------------------------------------------------------------------
Files == UNION {[1..n -> {"a", "b", LF, CR}] : n \in 0..MaxFile}

TailInputs == [file : Files, lines : 0..2, limit : {1, ChunkSize + 1, MaxFile}]

\* Reading only the end changes nothing: the result is the last lines of the
\* whole file, or of its last max_bytes bytes, wherever chunks and line ends
\* fall and however the file ends.
TailOfWhole(i) ==
    TailLines(i.file, i.lines, i.limit) = LastOf(SplitLines(LastOf(i.file, i.limit)), i.lines)
=============================================================================
