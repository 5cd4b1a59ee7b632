----------------------- MODULE ProcessSessions_proofs ------------------------
(***************************************************************************)
(* What holds of ProcessSessions whatever the process writes, however the  *)
(* readers cut it, and whatever the caps, the scopes and the calls are.    *)
(***************************************************************************)
EXTENDS ProcessSessions, WellFoundedInduction, SequenceTheorems, TLAPS

-----------------------------------------------------------------------------
(* The inductive invariant *)

\* Who has begun what.
Threads ==
  /\ pc = "new" <=> proc = None
  /\ pc = "new" => /\ tables = {} /\ closes = 0 /\ watcher = "none"
                   /\ ~byExec /\ ~backgrounded
  /\ exited <=> watcher \in {"archiving", "done"}
  /\ byExec => pc \in {"mark", "poll", "wait", "drain", "remove"}
  /\ pc \in {"mark", "poll"} => byExec

\* One table holds the session, or it is removed and its descriptor closed at most
\* once; exec works on a running session that it has not marked.
Places ==
  /\ tables \in {{}, {"running"}, {"finished"}}
  /\ closes <= 1
  /\ tables # {} => closes = 0
  /\ byExec => tables = {"running"} /\ ~backgrounded /\ watcher # "archiving"
  /\ pc \in {"remove", "close"} /\ ~byExec => tables = {} /\ closes = 0

\* What was reported is still the session's status, and kill has not begun.
Reported ==
  /\ reported # None => exited /\ reported = Status
  /\ pc \in {"kill", "killed"} => reported = None

\* The chunks of a stream, of which n units were read: disjoint and in order.
WellCut(chunks, n) ==
  /\ \A i \in 1 .. Len(chunks) :
       0 < chunks[i].from /\ chunks[i].from <= chunks[i].to /\ chunks[i].to <= n
  /\ \A i, j \in 1 .. Len(chunks) : i < j => chunks[i].to < chunks[j].from

\* ... and all that was read.
Gapless(chunks, n) ==
  /\ \A i \in 1 .. Len(chunks) :
       chunks[i].from = IF i = 1 THEN 1 ELSE chunks[i - 1].to + 1
  /\ n = IF chunks = <<>> THEN 0 ELSE chunks[Len(chunks)].to

Output(s) ==
  /\ WellCut(taken[s] \o pending[s], read[s])
  /\ ~truncated => Gapless(taken[s] \o pending[s], read[s])

Inv ==
  /\ TypeOK /\ Threads /\ Places /\ Reported /\ NoLostWakeup
  /\ \A s \in Streams : Output(s)

-----------------------------------------------------------------------------
(* Chunks *)

\* A nonempty set of natural numbers has a least element.
LEMMA NatMinimum ==
  ASSUME NEW T, T \subseteq Nat, T # {}
  PROVE  \E x \in T : \A y \in T : x <= y
<1> DEFINE R == OpToRel(<, Nat)
<1>1. IsWellFoundedOn(R, Nat)
  BY NatLessThanWellFounded
<1>2. \A x, y \in Nat : y < x => <<y, x>> \in R
  BY DEF OpToRel
<1> HIDE DEF R
<1>3. PICK x \in T : \A y \in T : <<y, x>> \notin R
  BY <1>1, WFMin
<1>4. ASSUME NEW y \in T PROVE x <= y
  <2>1. x \in Nat /\ y \in Nat /\ ~(y < x)
    BY <1>2, <1>3
  <2> QED
    BY <2>1
<1> QED
  BY <1>4

\* Trimming drops chunks at the head, and says whether it dropped any.
LEMMA TrimFacts ==
  ASSUME NEW c \in Seq(Chunk)
  PROVE  \E k \in 1 .. Len(c) + 1 :
           /\ Trimmed(c).chunks = SubSeq(c, k, Len(c))
           /\ Trimmed(c).cut = (k > 1)
<1> DEFINE Fits(k) == Chars(SubSeq(c, k, Len(c))) <= PendingCap
           P(k) == Fits(k) /\ \A i \in 1 .. k - 1 : ~Fits(i)
           T == {k \in 1 .. Len(c) + 1 : Fits(k)}
           first == CHOOSE k \in 1 .. Len(c) + 1 : P(k)
<1>1. Len(c) \in Nat
  BY LenProperties
<1>2. Fits(Len(c) + 1)
  <2>1. SubSeq(c, Len(c) + 1, Len(c)) = <<>>
    BY <1>1, SubSeqEmpty
  <2>2. Chars(<<>>) = 0
    BY DEF Chars
  <2>3. PendingCap \in Nat /\ 0 <= PendingCap
    BY SessionAssumption
  <2>4. Chars(SubSeq(c, Len(c) + 1, Len(c))) <= PendingCap
    BY <2>1, <2>2, <2>3
  <2> QED
    BY <2>4
<1>3. Len(c) + 1 \in T /\ T \subseteq Nat
  <2>1. Len(c) + 1 \in 1 .. Len(c) + 1 /\ 1 .. Len(c) + 1 \subseteq Nat
    BY <1>1
  <2> HIDE DEF Fits
  <2> QED
    BY <1>2, <2>1
<1>4. PICK x \in T : \A y \in T : x <= y
  <2> HIDE DEF T
  <2> QED
    BY <1>3, NatMinimum
<1>5. x \in 1 .. Len(c) + 1 /\ P(x)
  <2> HIDE DEF Fits
  <2>1. x \in 1 .. Len(c) + 1 /\ Fits(x)
    BY <1>4
  <2>2. ASSUME NEW i \in 1 .. x - 1 PROVE ~Fits(i)
    <3>1. i \in 1 .. Len(c) + 1 /\ ~(x <= i)
      BY <1>1, <2>1
    <3> QED
      BY <1>4, <3>1
  <2> QED
    BY <2>1, <2>2
<1>6. first \in 1 .. Len(c) + 1
  <2> HIDE DEF P
  <2> QED
    BY <1>5
<1>7. Trimmed(c) = [chunks |-> SubSeq(c, first, Len(c)), cut |-> first > 1]
  BY DEF Trimmed
<1> HIDE DEF first
<1> QED
  BY <1>6, <1>7

\* Dropping chunks from the pending ones leaves the rest disjoint and in order.
LEMMA DropFacts ==
  ASSUME NEW t \in Seq(Chunk), NEW p \in Seq(Chunk), NEW n \in Nat,
         WellCut(t \o p, n), NEW k \in 1 .. Len(p) + 1
  PROVE  WellCut(t \o SubSeq(p, k, Len(p)), n) /\ SubSeq(p, k, Len(p)) \in Seq(Chunk)
<1> DEFINE q == SubSeq(p, k, Len(p))
<1>1. /\ Len(t) \in Nat /\ Len(p) \in Nat /\ Len(t \o p) = Len(t) + Len(p)
      /\ \A i \in 1 .. Len(t) + Len(p) :
           (t \o p)[i] = IF i <= Len(t) THEN t[i] ELSE p[i - Len(t)]
  BY ConcatProperties, LenProperties
<1>2. \A i \in k .. Len(p) : p[i] \in Chunk
  BY <1>1, ElementOfSeq
<1>3. /\ q \in Seq(Chunk) /\ Len(q) = Len(p) - k + 1
      /\ \A i \in 1 .. Len(p) - k + 1 : q[i] = p[k + i - 1]
  BY <1>1, <1>2, SubSeqProperties
<1> HIDE DEF q
<1>4. /\ Len(t \o q) = Len(t) + Len(q)
      /\ \A i \in 1 .. Len(t) + Len(q) :
           (t \o q)[i] = IF i <= Len(t) THEN t[i] ELSE q[i - Len(t)]
  BY <1>3, ConcatProperties
<1> DEFINE Old(i) == IF i <= Len(t) THEN i ELSE i + k - 1
<1>5. ASSUME NEW i \in 1 .. Len(t \o q)
      PROVE  Old(i) \in 1 .. Len(t \o p) /\ (t \o q)[i] = (t \o p)[Old(i)]
  <2>1. CASE i <= Len(t)
    <3>1. Old(i) = i /\ i \in 1 .. Len(t) + Len(p) /\ i \in 1 .. Len(t) + Len(q)
      BY <1>1, <1>3, <1>4, <2>1
    <3> QED
      BY <1>1, <1>4, <2>1, <3>1
  <2>2. CASE ~(i <= Len(t))
    <3>0. /\ Len(t) \in Nat /\ Len(p) \in Nat /\ Len(q) = Len(p) - k + 1
          /\ k \in Nat \ {0} /\ i \in 1 .. Len(t) + Len(q)
          /\ Len(t \o p) = Len(t) + Len(p)
      BY <1>1, <1>3, <1>4
    <3>1. /\ Old(i) = i + k - 1 /\ i + k - 1 \in 1 .. Len(t) + Len(p)
          /\ ~(i + k - 1 <= Len(t)) /\ i \in 1 .. Len(t) + Len(q)
          /\ i - Len(t) \in 1 .. Len(p) - k + 1
          /\ k + (i - Len(t)) - 1 = (i + k - 1) - Len(t)
      BY <2>2, <3>0
    <3>2. (t \o q)[i] = q[i - Len(t)] /\ (t \o p)[i + k - 1] = p[(i + k - 1) - Len(t)]
      BY <1>1, <1>4, <2>2, <3>1
    <3> QED
      BY <1>1, <1>3, <3>1, <3>2
  <2> QED
    BY <2>1, <2>2
<1>6. \A i, j \in 1 .. Len(t \o q) : i < j => Old(i) < Old(j)
  BY <1>1, <1>3, <1>4, SMTT(30)
<1> HIDE DEF Old
<1>7. WellCut(t \o q, n)
  BY <1>5, <1>6 DEF WellCut
<1> QED
  BY <1>3, <1>7 DEF q

\* A chunk of the m units after the n-th comes behind all others.
LEMMA AppendFacts ==
  ASSUME NEW a \in Seq(Chunk), NEW n \in Nat, NEW m \in Nat \ {0}, NEW x,
         x = [from |-> n + 1, to |-> n + m], WellCut(a, n)
  PROVE  WellCut(Append(a, x), n + m) /\ (Gapless(a, n) => Gapless(Append(a, x), n + m))
<1> DEFINE b == Append(a, x)
<1>1. x \in Chunk /\ x.from = n + 1 /\ x.to = n + m
  BY DEF Chunk
<1>2. /\ Len(a) \in Nat /\ Len(b) = Len(a) + 1 /\ b[Len(a) + 1] = x
      /\ \A i \in 1 .. Len(a) : b[i] = a[i] /\ a[i] \in Chunk
  BY <1>1, AppendProperties, LenProperties, ElementOfSeq
<1>3. \A i \in 1 .. Len(a) : a[i].from \in Nat /\ a[i].to \in Nat
  BY <1>2 DEF Chunk
<1>4. \A i \in 1 .. Len(b) : i \in 1 .. Len(a) \/ i = Len(a) + 1
  BY <1>2
<1> HIDE DEF b
<1>5. \A i \in 1 .. Len(b) : 0 < b[i].from /\ b[i].from <= b[i].to /\ b[i].to <= n + m
  <2>1. \A i \in 1 .. Len(a) : /\ 0 < b[i].from /\ b[i].from <= b[i].to
                              /\ b[i].to <= n /\ b[i].to \in Nat
    BY <1>2, <1>3 DEF WellCut
  <2>2. \A i \in 1 .. Len(a) : b[i].to <= n + m
    BY <2>1
  <2>3. 0 < x.from /\ x.from <= x.to /\ x.to <= n + m
    BY <1>1
  <2> QED
    BY <1>2, <1>4, <2>1, <2>2, <2>3
<1>6. ASSUME NEW i \in 1 .. Len(b), NEW j \in 1 .. Len(b), i < j
      PROVE  b[i].to < b[j].from
  <2>1. i \in 1 .. Len(a)
    BY <1>2, <1>6
  <2>2. CASE j \in 1 .. Len(a)
    BY <1>2, <1>6, <2>1, <2>2 DEF WellCut
  <2>3. CASE j = Len(a) + 1
    BY <1>1, <1>2, <1>3, <2>1, <2>3 DEF WellCut
  <2> QED
    BY <1>4, <2>2, <2>3
<1>7. ASSUME Gapless(a, n) PROVE Gapless(b, n + m)
  <2>1. ASSUME NEW i \in 1 .. Len(b)
        PROVE  b[i].from = IF i = 1 THEN 1 ELSE b[i - 1].to + 1
    <3>1. CASE i \in 1 .. Len(a)
      <4>1. i # 1 => i - 1 \in 1 .. Len(a)
        BY <1>2, <3>1
      <4> QED
        BY <1>2, <1>7, <3>1, <4>1 DEF Gapless
    <3>2. CASE i = Len(a) + 1 /\ a = <<>>
      BY <1>1, <1>2, <1>7, <3>2 DEF Gapless
    <3>3. CASE i = Len(a) + 1 /\ a # <<>>
      <4>1. Len(a) \in 1 .. Len(a) /\ i # 1 /\ i - 1 = Len(a)
        BY <1>2, <3>3, EmptySeq
      <4> QED
        BY <1>1, <1>2, <1>7, <3>3, <4>1 DEF Gapless
    <3> QED
      BY <1>4, <3>1, <3>2, <3>3
  <2>2. b # <<>> /\ b[Len(b)].to = n + m
    BY <1>1, <1>2 DEF b
  <2> QED
    BY <2>1, <2>2 DEF Gapless
<1> QED
  BY <1>5, <1>6, <1>7 DEF WellCut, b

\* Chunks that carry no units are no chunks.
LEMMA NoCharsNoChunks ==
  ASSUME NEW t \in Seq(Chunk), NEW p \in Seq(Chunk), NEW n \in Nat,
         WellCut(t \o p, n), Chars(p) = 0
  PROVE  p = <<>>
<1> SUFFICES ASSUME p # <<>> PROVE FALSE
  OBVIOUS
<1>1. /\ Len(t) \in Nat /\ Len(p) \in Nat \ {0} /\ Len(t \o p) = Len(t) + Len(p)
      /\ \A i \in 1 .. Len(t) + Len(p) :
           (t \o p)[i] = IF i <= Len(t) THEN t[i] ELSE p[i - Len(t)]
  BY ConcatProperties, LenProperties, EmptySeq
<1>2. \A i \in 1 .. Len(p) : /\ Len(t) + i \in 1 .. Len(t \o p)
                             /\ (t \o p)[Len(t) + i] = p[i]
  <2> TAKE i \in 1 .. Len(p)
  <2>0. Len(t) \in Nat /\ Len(p) \in Nat
    BY <1>1
  <2>1. Len(t) + i \in 1 .. Len(t) + Len(p) /\ ~(Len(t) + i <= Len(t))
        /\ (Len(t) + i) - Len(t) = i
    BY <2>0
  <2> QED
    BY <1>1, <2>1
<1>3. 1 \in 1 .. Len(p) /\ Len(p) \in 1 .. Len(p) /\ Head(p) = p[1]
  <2>1. Len(p) \in Nat \ {0} /\ Head(p) = p[1]
    BY LenProperties, EmptySeq
  <2> QED
    BY <2>1
<1>4. p[1] \in Chunk /\ p[Len(p)] \in Chunk
  BY <1>3, ElementOfSeq
<1>5. p[1].from <= p[1].to /\ p[Len(p)].from <= p[Len(p)].to
  BY <1>2, <1>3 DEF WellCut
<1>6. Len(p) # 1 => p[1].to < p[Len(p)].from
  <2>1. Len(p) # 1 => Len(t) + 1 < Len(t) + Len(p)
    <3>1. \A a \in Nat, b \in Nat \ {0} : b # 1 => a + 1 < a + b
      OBVIOUS
    <3> QED
      BY <1>1, <3>1
  <2> QED
    BY <1>2, <1>3, <2>1 DEF WellCut
<1>7. p[1].from <= p[Len(p)].to
  BY <1>4, <1>5, <1>6 DEF Chunk
<1>8. Chars(p) = p[Len(p)].to - p[1].from + 1
  BY <1>3 DEF Chars
<1> QED
  BY <1>4, <1>7, <1>8 DEF Chunk

-----------------------------------------------------------------------------
(* Init and the steps *)

\* The initial state satisfies the invariant.
LEMMA InitInv == Init => Inv
<1> SUFFICES ASSUME Init PROVE Inv
  OBVIOUS
<1> USE DEF Init
<1>1. TypeOK
  <2>1. pending \in [Streams -> Seq(Chunk)] /\ taken \in [Streams -> Seq(Chunk)]
    BY EmptySeq
  <2> QED
    BY <2>1 DEF TypeOK, Points
<1>2. \A s \in Streams : taken[s] \o pending[s] = <<>>
  BY EmptySeq, ConcatEmptySeq
<1>3. \A s \in Streams : Output(s)
  BY <1>2, EmptySeq DEF Output, WellCut, Gapless
<1>4. Threads /\ Places /\ Reported /\ NoLostWakeup
  BY DEF Threads, Places, Reported, NoLostWakeup
<1> QED
  BY <1>1, <1>3, <1>4 DEF Inv

\* The chunks of a stream.
LEMMA AllFacts ==
  ASSUME TypeOK, NEW s \in Streams
  PROVE  /\ taken[s] \in Seq(Chunk) /\ pending[s] \in Seq(Chunk) /\ read[s] \in Nat
         /\ taken[s] \o pending[s] \in Seq(Chunk)
<1>1. taken[s] \in Seq(Chunk) /\ pending[s] \in Seq(Chunk) /\ read[s] \in Nat
  BY DEF TypeOK
<1> QED
  BY <1>1, ConcatProperties

\* A reader appends the next chunk and trims; what is cut is flagged.
LEMMA ReadFacts ==
  ASSUME Inv, NEW s \in Streams, ReaderReads(s)
  PROVE  /\ pending' \in [Streams -> Seq(Chunk)] /\ read' \in [Streams -> Nat]
         /\ truncated' \in BOOLEAN /\ event' = TRUE
         /\ \A r \in Streams : Output(r)'
<1>1. TypeOK /\ (\A r \in Streams : Output(r))
  BY DEF Inv
<1>2. PICK n \in ReadSizes(s) : AppendOutput(s, n)
  BY DEF ReaderReads
<1>3. n \in Nat \ {0}
  <2>1. written[s] \in Nat /\ read[s] \in Nat /\ Block \in Nat \ {0}
    BY <1>1, SessionAssumption DEF TypeOK
  <2> QED
    BY <2>1 DEF ReadSizes
<1> DEFINE x == [from |-> read[s] + 1, to |-> read[s] + n]
           c == Append(pending[s], x)
<1>4. /\ pending' = [pending EXCEPT ![s] = Trimmed(c).chunks]
      /\ read' = [read EXCEPT ![s] = @ + n]
      /\ truncated' = (truncated \/ Trimmed(c).cut)
      /\ event' = TRUE /\ taken' = taken
  BY <1>2 DEF AppendOutput, ReaderReads, history
<1>5. taken[s] \in Seq(Chunk) /\ pending[s] \in Seq(Chunk) /\ read[s] \in Nat
      /\ taken[s] \o pending[s] \in Seq(Chunk)
  BY <1>1, AllFacts
<1>6. x \in Chunk
  BY <1>3, <1>5 DEF Chunk
<1>7. c \in Seq(Chunk) /\ taken[s] \o c = Append(taken[s] \o pending[s], x)
  <2>1. <<x>> \in Seq(Chunk) /\ c = pending[s] \o <<x>>
    BY <1>5, <1>6, AppendIsConcat
  <2>2. Append(taken[s] \o pending[s], x) = (taken[s] \o pending[s]) \o <<x>>
    BY <1>5, <1>6, AppendIsConcat
  <2>3. c \in Seq(Chunk)
    BY <1>5, <1>6, AppendProperties
  <2> HIDE DEF x, c
  <2>4. (taken[s] \o pending[s]) \o <<x>> = taken[s] \o (pending[s] \o <<x>>)
    <3>1. taken[s] \in Seq(Chunk) /\ pending[s] \in Seq(Chunk) /\ <<x>> \in Seq(Chunk)
      BY <1>5, <2>1
    <3>2. \A a, b, d \in Seq(Chunk) : (a \o b) \o d = a \o (b \o d)
      <4> HIDE DEF Chunk
      <4> QED
        BY ConcatAssociative
    <3> QED
      BY <3>1, <3>2, Zenon
  <2> QED
    BY <2>1, <2>2, <2>3, <2>4
<1>8. /\ WellCut(taken[s] \o c, read[s] + n)
      /\ ~truncated => Gapless(taken[s] \o c, read[s] + n)
  <2>1. WellCut(taken[s] \o pending[s], read[s])
        /\ (~truncated => Gapless(taken[s] \o pending[s], read[s]))
    BY <1>1 DEF Output
  <2>2. x = [from |-> read[s] + 1, to |-> read[s] + n]
    OBVIOUS
  <2> HIDE DEF x, c
  <2> QED
    BY <1>3, <1>5, <1>7, <2>1, <2>2, AppendFacts
<1> HIDE DEF x, c
<1>9. PICK k \in 1 .. Len(c) + 1 :
        Trimmed(c).chunks = SubSeq(c, k, Len(c)) /\ Trimmed(c).cut = (k > 1)
  BY <1>7, TrimFacts
<1>10. read[s] + n \in Nat
  BY <1>3, <1>5
<1>11. /\ WellCut(taken[s] \o Trimmed(c).chunks, read[s] + n)
       /\ Trimmed(c).chunks \in Seq(Chunk)
  BY <1>5, <1>7, <1>8, <1>9, <1>10, DropFacts, ZenonT(60)
<1>12. ~truncated' => Gapless(taken[s] \o Trimmed(c).chunks, read[s] + n)
  <2> SUFFICES ASSUME ~truncated' PROVE Gapless(taken[s] \o Trimmed(c).chunks, read[s] + n)
    OBVIOUS
  <2>1. ~truncated /\ k = 1
    <3>1. ~truncated /\ ~(k > 1)
      BY <1>4, <1>9
    <3>2. Len(c) \in Nat
      BY <1>7, LenProperties
    <3> QED
      BY <3>1, <3>2
  <2>2. Trimmed(c).chunks = c
    BY <1>7, <1>9, <2>1, SubSeqFull
  <2> QED
    BY <1>8, <2>1, <2>2
<1>13. pending' \in [Streams -> Seq(Chunk)] /\ read' \in [Streams -> Nat]
  BY <1>1, <1>4, <1>10, <1>11 DEF TypeOK
<1>14. truncated' \in BOOLEAN
  BY <1>4
<1>15. ASSUME NEW r \in Streams PROVE Output(r)'
  <2>1. CASE r = s
    <3>1. pending'[r] = Trimmed(c).chunks /\ read'[r] = read[s] + n /\ taken'[r] = taken[s]
      BY <1>1, <1>4, <2>1 DEF TypeOK
    <3> QED
      BY <1>11, <1>12, <3>1 DEF Output
  <2>2. CASE r # s
    <3>1. pending'[r] = pending[r] /\ read'[r] = read[r] /\ taken'[r] = taken[r]
      BY <1>1, <1>4, <2>2 DEF TypeOK
    <3> QED
      BY <1>1, <1>4, <3>1 DEF Output
  <2> QED
    BY <2>1, <2>2
<1> QED
  BY <1>4, <1>13, <1>14, <1>15

\* A poll moves what is pending behind what was taken.
LEMMA DrainFacts ==
  ASSUME Inv, PollDrains
  PROVE  /\ pending' \in [Streams -> Seq(Chunk)] /\ taken' \in [Streams -> Seq(Chunk)]
         /\ \A s \in Streams : Output(s)'
<1>1. TypeOK /\ (\A s \in Streams : Output(s))
  BY DEF Inv
<1>2. /\ taken' = [s \in Streams |-> taken[s] \o pending[s]]
      /\ pending' = [s \in Streams |-> <<>>]
      /\ read' = read /\ truncated' = truncated
  BY DEF PollDrains, session
<1>3. ASSUME NEW s \in Streams
      PROVE  /\ taken[s] \o pending[s] \in Seq(Chunk) /\ <<>> \in Seq(Chunk)
             /\ taken'[s] \o pending'[s] = taken[s] \o pending[s]
  <2>1. taken[s] \o pending[s] \in Seq(Chunk)
    BY <1>1, AllFacts
  <2> QED
    BY <1>2, <2>1, ConcatEmptySeq, EmptySeq
<1> QED
  BY <1>1, <1>2, <1>3 DEF Output

\* Every step keeps the types and the chunks in order.
LEMMA NextTypeOK == Inv /\ [Next]_vars => TypeOK' /\ \A s \in Streams : Output(s)'
<1> SUFFICES ASSUME Inv, [Next]_vars PROVE TypeOK' /\ \A s \in Streams : Output(s)'
  OBVIOUS
<1>1. TypeOK /\ (\A s \in Streams : Output(s)) /\ Threads /\ Places
  BY DEF Inv
<1>2. CASE UNCHANGED <<pending, taken, read, truncated>>
  <2>1. \A s \in Streams : Output(s)'
    BY <1>1, <1>2 DEF Output
  <2>2. TypeOK'
    <3> USE <1>1, <1>2 DEF TypeOK, Points
    <3>1. CASE \E s \in Streams : ChildWrites(s)
      BY <3>1 DEF ChildWrites, session, threads, caller, history
    <3>2. CASE ChildExits
      BY <3>2 DEF ChildExits, session, threads, caller, history
    <3>3. CASE \E s \in Streams : ReaderReads(s)
      <4>1. PICK s \in Streams : ReaderReads(s)
        BY <3>3
      <4>2. event' \in BOOLEAN
        BY <4>1, ReadFacts
      <4> QED
        BY <4>1, <4>2 DEF ReaderReads, child, threads, caller, history
    <3>4. CASE \E s \in Streams : ReaderEnds(s)
      BY <3>4 DEF ReaderEnds, child, caller, history
    <3>5. CASE WatcherMarks
      BY <3>5 DEF WatcherMarks, Ended, child, caller, history
    <3>6. CASE WatcherArchives
      BY <3>6 DEF WatcherArchives, Archived, child, session, caller, history
    <3>7. CASE TtlPasses
      BY <3>7 DEF TtlPasses, child, session, threads, caller, history
    <3>8. CASE ExecSpawns
      BY <3>8 DEF ExecSpawns, session, history
    <3>9. CASE ExecMarks
      <4>1. byExec' \in BOOLEAN /\ late' \in BOOLEAN
        BY <3>9, Zenon DEF ExecMarks
      <4> QED
        BY <3>9, <4>1 DEF ExecMarks, child, threads
    <3>10. CASE ExecPollFails
      <4>1. byExec' \in BOOLEAN
        BY <3>10, Zenon DEF ExecPollFails
      <4> QED
        BY <3>10, <4>1 DEF ExecPollFails, child, session, threads, history
    <3>11. CASE ExecPolls
      <4>1. event' \in BOOLEAN
        BY <3>11 DEF ExecPolls, PollBegins
      <4> QED
        BY <3>11, <4>1 DEF ExecPolls, PollBegins, child, threads, history
    <3>12. CASE PollWakes
      BY <3>12 DEF PollWakes, child, session, threads, history
    <3>13. CASE PollDrains
      <4>1. reported' \in {None, "completed", "failed", "killed"}
        BY <3>13 DEF PollDrains, Status
      <4> QED
        BY <3>13, <4>1 DEF PollDrains, child, session, threads
    <3>15. CASE ToolPoll
      <4>1. event' \in BOOLEAN
        BY <3>15 DEF ToolPoll, PollBegins
      <4> QED
        BY <3>15, <4>1
           DEF ToolPoll, Prune, Pruned, Closed, PollBegins, child, threads, history
    <3>16. CASE ToolLooks
      BY <3>16 DEF ToolLooks, Prune, Pruned, Closed, child, session, threads, caller, history
    <3>17. CASE KillChecks
      BY <3>17 DEF KillChecks, Prune, Pruned, Closed, child, session, threads, history
    <3>18. CASE KillSignals
      BY <3>18 DEF KillSignals, Signalled, session, threads, history
    <3>19. CASE KillRecords
      BY <3>19 DEF KillRecords, child, threads, history
    <3>20. CASE ToolRemoves
      BY <3>20 DEF ToolRemoves, RemoveFrom, child, session, threads, history
    <3>21. CASE ExecRemoves
      <4>1. byExec' \in BOOLEAN
        BY <3>21, Zenon DEF ExecRemoves
      <4> QED
        BY <3>21, <4>1 DEF ExecRemoves, RemoveFrom, child, session, threads, history
    <3>22. CASE RemoveKills
      BY <3>22 DEF RemoveKills, Signalled, threads, history
    <3>23. CASE RemoveCloses
      BY <3>23 DEF RemoveCloses, Closed, child, session, threads, history
    <3>24. CASE UNCHANGED vars
      BY <3>24 DEF vars, child, session, threads, caller, history
    <3> QED
      BY <3>1, <3>2, <3>3, <3>4, <3>5, <3>6, <3>7, <3>8, <3>9, <3>10, <3>11, <3>12,
         <3>13, <3>15, <3>16, <3>17, <3>18, <3>19, <3>20, <3>21, <3>22, <3>23, <3>24
         DEF Next, CallerStep, ReaderStep, WatcherStep
  <2> QED
    BY <2>1, <2>2
<1>3. ASSUME NEW s \in Streams, ReaderReads(s)
      PROVE  TypeOK' /\ \A r \in Streams : Output(r)'
  <2>1. /\ pending' \in [Streams -> Seq(Chunk)] /\ read' \in [Streams -> Nat]
        /\ truncated' \in BOOLEAN /\ event' \in BOOLEAN
        /\ \A r \in Streams : Output(r)'
    BY <1>3, ReadFacts
  <2> QED
    BY <1>1, <1>3, <2>1 DEF ReaderReads, child, threads, caller, history, TypeOK
<1>4. CASE PollDrains
  <2>1. /\ pending' \in [Streams -> Seq(Chunk)] /\ taken' \in [Streams -> Seq(Chunk)]
        /\ \A s \in Streams : Output(s)'
    BY <1>4, DrainFacts
  <2>2. reported' \in {None, "completed", "failed", "killed"} /\ pc' \in Points
    BY <1>1, <1>4 DEF PollDrains, Status, Points, TypeOK
  <2> QED
    BY <1>1, <1>4, <2>1, <2>2 DEF PollDrains, child, session, threads, TypeOK
<1>5. \/ UNCHANGED <<pending, taken, read, truncated>> \/ PollDrains
      \/ \E s \in Streams : ReaderReads(s)
  BY DEF Next, CallerStep, ReaderStep, WatcherStep, ChildWrites, ChildExits, ReaderEnds,
         WatcherMarks, WatcherArchives, TtlPasses, ExecSpawns, ExecMarks, ExecPollFails,
         ExecPolls, PollBegins, PollWakes, ToolPoll, ToolLooks, KillChecks, KillSignals,
         KillRecords, ToolRemoves, ExecRemoves, RemoveKills, RemoveCloses, vars,
         output, session, history
<1> QED
  BY <1>2, <1>3, <1>4, <1>5

\* Every step keeps Threads and Places: a removed session stays out of the tables, and
\* only the call that removed it, or the pruning, closes the descriptor.
LEMMA NextPlaces == Inv /\ [Next]_vars => Threads' /\ Places'
<1> SUFFICES ASSUME Inv, [Next]_vars PROVE Threads' /\ Places'
  OBVIOUS
<1>1. TypeOK /\ Threads /\ Places
  BY DEF Inv
<1>2. closes \in Nat /\ None \notin {"alive", "ok", "fail", "signal"}
  BY <1>1, SessionAssumption DEF TypeOK
<1>3. /\ Pruned = tables \/ (Pruned = {} /\ tables = {"finished"})
      /\ Prune => /\ tables' = Pruned
                  /\ closes' = closes \/ (tables # {} /\ tables' = {} /\ closes' = 1)
                  /\ closes' # closes => tables' = {}
  BY <1>1, <1>2 DEF Places, Pruned, Prune, Closed
<1> USE <1>1, <1>2 DEF Threads, Places
<1>4. CASE \E s \in Streams : ChildWrites(s)
  BY <1>4 DEF ChildWrites, session, threads, caller
<1>5. CASE ChildExits
  BY <1>5 DEF ChildExits, session, threads, caller
<1>6. CASE \E s \in Streams : ReaderStep(s)
  BY <1>6 DEF ReaderStep, ReaderReads, ReaderEnds, child, threads, caller
<1>7. CASE WatcherMarks
  BY <1>7 DEF WatcherMarks, child, caller
<1>8. CASE WatcherArchives
  BY <1>8 DEF WatcherArchives, Archived, child, session, caller
<1>9. CASE TtlPasses
  BY <1>9 DEF TtlPasses, child, session, threads, caller
<1>10. CASE ExecSpawns
  BY <1>10 DEF ExecSpawns, session
<1>11. CASE ExecMarks
  BY <1>11 DEF ExecMarks, child, threads
<1>12. CASE ExecPollFails
  BY <1>12 DEF ExecPollFails, child, session, threads
<1>13. CASE ExecPolls
  BY <1>13 DEF ExecPolls, PollBegins, child, threads
<1>14. CASE PollWakes
  BY <1>14 DEF PollWakes, child, session, threads
<1>15. CASE PollDrains
  BY <1>15 DEF PollDrains, child, session, threads
<1>16. CASE ToolPoll
  BY <1>3, <1>16 DEF ToolPoll, Known, Found, PollBegins, child, threads
<1>17. CASE ToolLooks
  BY <1>3, <1>17 DEF ToolLooks, Known, child, session, threads, caller
<1>18. CASE KillChecks
  BY <1>3, <1>18 DEF KillChecks, Known, Found, child, session, threads
<1>19. CASE KillSignals
  BY <1>19 DEF KillSignals, Signalled, session, threads
<1>20. CASE KillRecords
  BY <1>20 DEF KillRecords, child, threads
<1>21. CASE ToolRemoves
  BY <1>21 DEF ToolRemoves, Known, RemoveFrom, child, session, threads
<1>22. CASE ExecRemoves
  BY <1>22 DEF ExecRemoves, RemoveFrom, child, session, threads
<1>23. CASE RemoveKills
  BY <1>23 DEF RemoveKills, Signalled, threads
<1>24. CASE RemoveCloses
  BY <1>24 DEF RemoveCloses, Closed, child, session, threads
<1>25. CASE UNCHANGED vars
  BY <1>25 DEF vars, child, session, threads, caller
<1> QED
  BY <1>4, <1>5, <1>6, <1>7, <1>8, <1>9, <1>10, <1>11, <1>12, <1>13, <1>14, <1>15,
     <1>16, <1>17, <1>18, <1>19, <1>20, <1>21, <1>22, <1>23, <1>24, <1>25
     DEF Next, CallerStep, WatcherStep

\* Every step keeps Reported and NoLostWakeup.
LEMMA NextReported == Inv /\ [Next]_vars => Reported' /\ NoLostWakeup'
<1> SUFFICES ASSUME Inv, [Next]_vars PROVE Reported' /\ NoLostWakeup'
  OBVIOUS
<1>1. TypeOK /\ Threads /\ Reported /\ NoLostWakeup /\ (\A s \in Streams : Output(s))
  BY DEF Inv
<1> USE DEF Reported, NoLostWakeup
<1>2. CASE UNCHANGED <<exited, exitCode, reason, event, pending, reported, pc>>
  BY <1>1, <1>2 DEF Status
<1>3. ASSUME NEW s \in Streams, ReaderStep(s) PROVE Reported' /\ NoLostWakeup'
  <2>1. event' = TRUE
    BY <1>3 DEF ReaderStep, ReaderReads, AppendOutput, ReaderEnds
  <2>2. UNCHANGED <<exited, exitCode, reason, reported, pc>>
    BY <1>3 DEF ReaderStep, ReaderReads, ReaderEnds, caller, history
  <2> QED
    BY <1>1, <2>1, <2>2 DEF Status
<1>4. CASE WatcherMarks
  <2>1. ~exited
    BY <1>1, <1>4 DEF WatcherMarks, Threads
  <2> QED
    BY <1>1, <1>4, <2>1 DEF WatcherMarks, caller, history
<1>5. CASE ExecPolls \/ ToolPoll
  <2>1. /\ UNCHANGED <<exited, exitCode, reason, pending, reported>>
        /\ \/ pc' = "wait" /\ event' = FALSE /\ ShouldWait
           \/ pc' = "drain"
    BY <1>5 DEF ExecPolls, ToolPoll, PollBegins, output, history
  <2>2. ShouldWait => \A s \in Streams : pending[s] = <<>>
    <3> SUFFICES ASSUME ShouldWait, NEW s \in Streams PROVE pending[s] = <<>>
      OBVIOUS
    <3>1. /\ taken[s] \in Seq(Chunk) /\ pending[s] \in Seq(Chunk) /\ read[s] \in Nat
          /\ Chars(pending[s]) = 0 /\ WellCut(taken[s] \o pending[s], read[s])
      BY <1>1, AllFacts DEF ShouldWait, Output
    <3> QED
      BY <3>1, NoCharsNoChunks
  <2> QED
    BY <1>1, <2>1, <2>2 DEF ShouldWait, Status
<1>6. CASE PollDrains
  BY <1>1, <1>6 DEF PollDrains, session, Status
<1>7. CASE RemoveKills
  BY <1>1, <1>7 DEF RemoveKills, output, history, Status
<1>8. CASE KillChecks
  BY <1>1, <1>8 DEF KillChecks, session, output, history, Status
<1>9. CASE KillSignals
  BY <1>1, <1>9 DEF KillSignals, session, output, history, Status
<1>10. CASE KillRecords
  BY <1>1, <1>10 DEF KillRecords, output, history, Status
<1>11. CASE ExecMarks
  BY <1>1, <1>11 DEF ExecMarks, output, Status
<1>12. CASE ExecSpawns \/ ExecPollFails \/ PollWakes \/ ToolRemoves \/ RemoveCloses
  <2>1. UNCHANGED <<exited, exitCode, reason, event, pending, reported>>
        /\ pc' \notin {"kill", "killed", "wait"}
    BY <1>12 DEF ExecSpawns, ExecPollFails, PollWakes, ToolRemoves, RemoveCloses,
                 session, output, history
  <2> QED
    BY <1>1, <2>1 DEF Status
<1>13. \/ UNCHANGED <<exited, exitCode, reason, event, pending, reported, pc>>
       \/ \E s \in Streams : ReaderStep(s)
       \/ WatcherMarks \/ ExecPolls \/ ToolPoll \/ PollDrains \/ RemoveKills
       \/ KillChecks \/ KillSignals \/ KillRecords \/ ExecMarks
       \/ ExecSpawns \/ ExecPollFails \/ PollWakes \/ ToolRemoves \/ RemoveCloses
  BY DEF Next, CallerStep, WatcherStep, ChildWrites, ChildExits, WatcherArchives,
         TtlPasses, ToolLooks, ExecRemoves, vars, session, output, caller, history
<1> QED
  BY <1>2, <1>3, <1>4, <1>5, <1>6, <1>7, <1>8, <1>9, <1>10, <1>11, <1>12, <1>13

-----------------------------------------------------------------------------
(* The theorems *)

\* The invariant is inductive.
LEMMA NextInv == Inv /\ [Next]_vars => Inv'
BY NextTypeOK, NextPlaces, NextReported DEF Inv

\* The invariant holds of every behaviour.
THEOREM InvariantHolds == Spec => []Inv
BY InitInv, NextInv, PTL DEF Spec

\* A poll that waits has missed neither output nor the exit, whichever thread sets the
\* event when (lines 230-239).
THEOREM WaitsForWhatComes == Spec => []NoLostWakeup
<1>1. Inv => NoLostWakeup
  BY DEF Inv
<1> QED
  BY <1>1, InvariantHolds, PTL

\* What the polls return is what the readers read, in order, each unit once; where the
\* cap of the pending output cost a unit, `truncated` is set (lines 241-247, 419-443).
THEOREM CutsAreFlagged == Spec => []GapsAreFlagged
<1>1. Inv => GapsAreFlagged
  <2> SUFFICES ASSUME Inv, NEW s \in Streams
               PROVE  LET all == taken[s] \o pending[s]
                          Starts(i) == IF i = 1 THEN 1 ELSE all[i - 1].to + 1
                      IN  /\ \A i \in DOMAIN all :
                               IF truncated THEN all[i].from >= Starts(i)
                               ELSE all[i].from = Starts(i)
                          /\ ~truncated =>
                               read[s] = IF all = <<>> THEN 0 ELSE all[Len(all)].to
    BY DEF GapsAreFlagged
  <2> DEFINE all == taken[s] \o pending[s]
  <2>1. all \in Seq(Chunk) /\ WellCut(all, read[s]) /\ (~truncated => Gapless(all, read[s]))
    BY AllFacts DEF Inv, Output
  <2> HIDE DEF all
  <2>2. DOMAIN all = 1 .. Len(all) /\ Len(all) \in Nat
        /\ \A i \in 1 .. Len(all) : all[i].from \in Nat /\ all[i].to \in Nat
    <3>1. DOMAIN all = 1 .. Len(all) /\ Len(all) \in Nat
      BY <2>1, LenProperties
    <3>2. \A i \in 1 .. Len(all) : all[i] \in Chunk
      BY <2>1, ElementOfSeq
    <3> QED
      BY <3>1, <3>2 DEF Chunk
  <2>3. ASSUME NEW i \in 1 .. Len(all)
        PROVE  all[i].from >= IF i = 1 THEN 1 ELSE all[i - 1].to + 1
    <3>1. CASE i = 1
      BY <2>1, <2>2, <3>1 DEF WellCut
    <3>2. CASE i # 1
      <4>1. i - 1 \in 1 .. Len(all) /\ i - 1 < i
        BY <2>2, <3>2
      <4>2. all[i - 1].to < all[i].from
        BY <2>1, <4>1 DEF WellCut
      <4> QED
        BY <2>2, <3>2, <4>1, <4>2
    <3> QED
      BY <3>1, <3>2
  <2> QED
    BY <2>1, <2>2, <2>3 DEF Gapless, all
<1> QED
  BY <1>1, InvariantHolds, PTL

\* What a removal leaves behind is final: the descriptor is closed once at most, a
\* status that was reported is not revised, and no late thread brings the session back
\* (lines 336-347, 541-549, 574-581).
THEOREM RemovalLeavesNothing == Spec => RemovalIsFinal
<1>1. Inv => TypeOK /\ ClosedOnce
  BY DEF Inv, Places, ClosedOnce
<1>2. Inv /\ [Next]_vars => [reported # None => reported' = reported]_vars
  <2> SUFFICES ASSUME Inv, Next, reported # None PROVE reported' = reported
    OBVIOUS
  <2>1. CASE PollDrains
    BY <2>1 DEF Inv, Reported, PollDrains
  <2>2. CASE ~PollDrains
    BY <2>2 DEF Next, CallerStep, ReaderStep, WatcherStep, ChildWrites, ChildExits,
           ReaderReads, ReaderEnds, WatcherMarks, WatcherArchives, TtlPasses, ExecSpawns,
           ExecMarks, ExecPollFails, ExecPolls, PollBegins, PollWakes, ToolPoll,
           ToolLooks, KillChecks, KillSignals, KillRecords, ToolRemoves, ExecRemoves,
           RemoveKills, RemoveCloses, history
  <2> QED
    BY <2>1, <2>2
<1>3. Inv /\ [Next]_vars => [Started /\ tables = {} => tables' = {}]_vars
  <2> SUFFICES ASSUME Inv, Next, Started, tables = {} PROVE tables' = {}
    OBVIOUS
  <2>1. pc # "new" /\ Pruned = {} /\ Archived(tables) = {} /\ RemoveFrom(tables) = {}
    BY DEF Inv, Threads, Started, Pruned, Archived, RemoveFrom
  <2> QED
    BY <2>1 DEF Next, CallerStep, ReaderStep, WatcherStep, ChildWrites, ChildExits,
           ReaderReads, ReaderEnds, WatcherMarks, WatcherArchives, TtlPasses, ExecSpawns,
           ExecMarks, ExecPollFails, ExecPolls, PollBegins, PollWakes, PollDrains,
           ToolPoll, ToolLooks, KillChecks, KillSignals, KillRecords, ToolRemoves,
           ExecRemoves, RemoveKills, RemoveCloses, Prune
<1>4. Spec => [](TypeOK /\ ClosedOnce)
  BY <1>1, InvariantHolds, PTL
<1>5. Spec => FinalStatusStable
  BY <1>2, InvariantHolds, PTL DEF Spec, FinalStatusStable
<1>6. Spec => RemovedStaysRemoved
  BY <1>3, InvariantHolds, PTL DEF Spec, RemovedStaysRemoved
<1> QED
  BY <1>4, <1>5, <1>6 DEF RemovalIsFinal

==============================================================================
