------------------------------- MODULE FilePages -------------------------------
(***************************************************************************)
(* read_file: a file is read in pages, each answer naming the offset of    *)
(* the next.  A page has the number of lines that was asked for or, if     *)
(* none was, as many as fit the budget of bytes; a line that alone exceeds *)
(* the budget is cut.  write_file and edit_file may come in between.       *)
(***************************************************************************)
EXTENDS Integers, Sequences, SequencesExt, FiniteSetsExt

CONSTANTS Sizes,  \* the lengths of lines, in bytes; {}: nobody reads
          MaxLines, Budget

ASSUME PagesAssumption == Sizes \subseteq Nat \ {0} /\ MaxLines \in Nat /\ Budget \in Nat \ {0}

VARIABLES
    lines,   \* the lengths of the lines of the file
    limit,   \* the limit the reader asks for, 0: none
    offset,  \* the offset of its next call, 0: it has read to the end
    shown,   \* what it has been shown: [line, bytes]
    changed  \* history: the file was written while it was being read

pagesVars == <<lines, limit, offset, shown, changed>>

PagesInit ==
    /\ lines \in (IF Sizes = {} THEN {<<>>} ELSE BoundedSeq(Sizes, MaxLines))
    /\ limit \in 0 .. MaxLines
    /\ offset = 1 /\ shown = <<>> /\ changed = FALSE

\* The bytes of the lines from one to another.
Bytes(from, to) == FoldLeft(LAMBDA sum, n : sum + n, 0, SubSeq(lines, from, to))

\* The last line of the page that starts at a line, and the offset its notice names.
ByLimit(from) == Min({from + limit - 1, Len(lines)})
ByBudget(from) == Max({from} \cup {to \in from .. Len(lines) : Bytes(from, to) <= Budget})
LastOf(from) == IF limit > 0 THEN ByLimit(from) ELSE ByBudget(from)

\* _truncate_utf8_text
Cut(bytes) == IF limit = 0 THEN Min({bytes, Budget}) ELSE bytes

NextOffset_OfLastShown(from) ==
    IF LastOf(from) < Len(lines) \/ Cut(lines[from]) < lines[from] THEN LastOf(from) ELSE 0

\* A cut line has a notice even when it is the last: one more call shows nothing.
NextOffset(from) ==
    IF LastOf(from) < Len(lines) \/ Cut(lines[from]) < lines[from] THEN LastOf(from) + 1 ELSE 0

ReadFile ==
    /\ Sizes # {} /\ offset > 0
    /\ IF offset > Len(lines) THEN offset' = 0 /\ UNCHANGED shown
       ELSE /\ shown' = shown \o [i \in 1 .. LastOf(offset) - offset + 1 |->
                           [line |-> offset + i - 1, bytes |-> Cut(lines[offset + i - 1])]]
            /\ offset' = NextOffset(offset)
    /\ UNCHANGED <<lines, limit, changed>>

\* write_file, edit_file
WriteFile ==
    /\ Sizes # {} /\ offset > 1
    /\ lines' \in BoundedSeq(Sizes, MaxLines)
    /\ changed' = TRUE
    /\ UNCHANGED <<limit, offset, shown>>

PagesNext == ReadFile \/ WriteFile
PagesSpec == PagesInit /\ [][PagesNext]_pagesVars

-----------------------------------------------------------------------------
\* Properties.

PagesTypeOK == offset \in 0 .. MaxLines + 1 /\ limit \in 0 .. MaxLines /\ changed \in BOOLEAN

\* Who follows the offsets of the notices is shown every line of a file that nobody
\* writes, once and in order, whole but for what exceeds the budget of one call; and
\* comes to its end, whatever is written meanwhile.
PagesCoverTheFile ==
    /\ ~changed /\ offset = 0 =>
          shown = [i \in DOMAIN lines |-> [line |-> i, bytes |-> Cut(lines[i])]]
    /\ \A i, j \in DOMAIN shown : i < j => shown[i].line < shown[j].line
================================================================================
