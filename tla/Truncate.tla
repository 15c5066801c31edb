------------------------------ MODULE Truncate ------------------------------
(***************************************************************************)
(* truncateOutput (src/internal/executor/runner.go), applied by Execute   *)
(* to the captured stdout and stderr of every job.  A string is a         *)
(* sequence of bytes; only the newline byte is told apart from the rest.   *)
(* The marker line is modelled by what Sprintf produces: a newline, the    *)
(* fixed text, the decimal digits of the byte and line counts, a newline.  *)
(***************************************************************************)
EXTENDS Naturals, Sequences, SequencesExt

CONSTANTS
    MaxOutputSize,  \* maxOutputSize (1 MiB in the code)
    MaxHeadLines,   \* maxHeadLines (500 in the code)
    MarkerText,     \* bytes of fixed text in the marker besides its newlines
    MaxInputLen     \* longest captured output enumerated

NL    == "nl"
Other == "x"
Bytes == {NL, Other}

\* The outputs a child process can produce, up to MaxInputLen bytes.
Outputs == UNION {[1..n -> Bytes] : n \in 0..MaxInputLen}

\* strings.Split(s, "\n"): the n+1 pieces between n newlines.
RECURSIVE SplitLines(_)
SplitLines(s) ==
    IF \A i \in 1..Len(s) : s[i] # NL THEN <<s>>
    ELSE LET k == CHOOSE i \in 1..Len(s) :
                      s[i] = NL /\ \A m \in 1..(i - 1) : s[m] # NL
         IN  <<SubSeq(s, 1, k - 1)>> \o SplitLines(SubSeq(s, k + 1, Len(s)))

\* strings.Join(parts, "\n").
RECURSIVE JoinLines(_)
JoinLines(parts) ==
    IF parts = <<>> THEN <<>>
    ELSE IF Len(parts) = 1 THEN Head(parts)
    ELSE Head(parts) \o <<NL>> \o JoinLines(Tail(parts))

\* Number of decimal digits %d prints for n >= 0.
RECURSIVE Digits(_)
Digits(n) == IF n < 10 THEN 1 ELSE 1 + Digits(n \div 10)

Filler(n) == [i \in 1..n |-> Other]

\* "\n... [OUTPUT TRUNCATED - Total %d bytes, %d lines] ...\n"
Marker(bytes, lines) ==
    <<NL>> \o Filler(MarkerText + Digits(bytes) + Digits(lines)) \o <<NL>>

\* The backward scan over lines[i] for i >= maxHeadLines (0-based): a line
\* is prepended while tailSize + len + 1 fits the remaining budget.
\* Variant: the newline is not counted in a line's size.
RECURSIVE TailScanNoNewline(_, _, _, _)
TailScanNoNewline(lines, i, size, remaining) ==
    IF i <= MaxHeadLines \/ size + Len(lines[i]) > remaining THEN <<>>
    ELSE TailScanNoNewline(lines, i - 1, size + Len(lines[i]), remaining)
             \o <<lines[i]>>

RECURSIVE TailScan(_, _, _, _)
TailScan(lines, i, size, remaining) ==
    IF i <= MaxHeadLines \/ size + Len(lines[i]) + 1 > remaining THEN <<>>
    ELSE TailScan(lines, i - 1, size + Len(lines[i]) + 1, remaining)
             \o <<lines[i]>>

TruncateOutput(output) ==
    LET lines     == SplitLines(output)
        head      == JoinLines(SubSeq(lines, 1, MaxHeadLines))
                         \o Marker(Len(output), Len(lines))
        remaining == MaxOutputSize - Len(head)
    IN  CASE Len(output) <= MaxOutputSize -> output
          [] Len(lines) <= MaxHeadLines   -> SubSeq(output, 1, MaxOutputSize)
          [] remaining <= 0               -> SubSeq(head, 1, MaxOutputSize)
          [] OTHER -> head \o JoinLines(TailScan(lines, Len(lines), 0, remaining))

-----------------------------------------------------------------------------
(* One call: the captured buffer and the string returned.                  *)

VARIABLES input, result

NoResult == <<"none">>

Init ==
    /\ input \in Outputs
    /\ result = NoResult

Truncate ==
    /\ result = NoResult
    /\ result' = TruncateOutput(input)
    /\ UNCHANGED input

Spec == Init /\ [][Truncate]_<<input, result>>

-----------------------------------------------------------------------------
(* Properties.                                                             *)

Done == result # NoResult

\* Spec section 8.7: the stored output never exceeds maxOutputSize, on any
\* of the four paths (verbatim, byte cut, cut marker, head, marker, tail).
FitsCap == Done => Len(result) <= MaxOutputSize

\* Spec section 4.4, as a reference: past the head lines and the marker,
\* the result holds the longest run of last lines whose sizes, each plus
\* one for its newline, fit what is left of the budget.
KeepsLongestTail ==
    LET lines     == SplitLines(input)
        head      == JoinLines(SubSeq(lines, 1, MaxHeadLines))
                         \o Marker(Len(input), Len(lines))
        remaining == MaxOutputSize - Len(head)
        cost(k)   == MapThenSumSet(LAMBDA i : Len(lines[i]) + 1,
                                   (Len(lines) - k + 1)..Len(lines))
        fitting   == {k \in 0..(Len(lines) - MaxHeadLines) : cost(k) <= remaining}
        best      == Max(fitting)
    IN  (Done /\ Len(input) > MaxOutputSize /\ Len(lines) > MaxHeadLines
              /\ remaining > 0)
            => result = head \o JoinLines(SubSeq(lines, Len(lines) - best + 1,
                                                 Len(lines)))

=============================================================================
