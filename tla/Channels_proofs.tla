--------------------------- MODULE Channels_proofs ---------------------------
(***************************************************************************)
(* What holds of the channels whatever the services push, answer and       *)
(* refuse, however many messages, chats and lives of the process there     *)
(* are.  Each channel module has its own specification; each section below *)
(* proves about one of them.                                               *)
(***************************************************************************)
EXTENDS MCChannels, Enumeration_proofs,
        WellFoundedInduction, SequenceTheorems, FiniteSetTheorems, TLAPS

-----------------------------------------------------------------------------
(* Sequences *)

\* A sequence with one more or one less element.
LEMMA AppendFacts ==
  ASSUME NEW S, NEW s \in Seq(S), NEW e \in S
  PROVE  /\ Append(s, e) \in Seq(S) /\ Len(s) \in Nat
         /\ Len(Append(s, e)) = Len(s) + 1
         /\ \A k \in 1 .. Len(s) : Append(s, e)[k] = s[k]
         /\ Append(s, e)[Len(s) + 1] = e
BY AppendProperties, LenProperties

\* ... and one without its first element.
LEMMA TailFacts ==
  ASSUME NEW S, NEW s \in Seq(S), s # <<>>
  PROVE  /\ Tail(s) \in Seq(S) /\ Len(s) \in Nat \ {0}
         /\ Len(Tail(s)) = Len(s) - 1
         /\ \A k \in 1 .. Len(Tail(s)) : Tail(s)[k] = s[k + 1]
         /\ Head(s) = s[1] /\ s[1] \in S
BY HeadTailProperties, LenProperties, EmptySeq, ElementOfSeq

\* A sequence that begins with the elements of another one.
LEMMA PrefixFacts ==
  ASSUME NEW S, NEW s \in Seq(S), NEW t \in Seq(S), Len(s) <= Len(t),
         \A k \in 1 .. Len(s) : t[k] = s[k]
  PROVE  IsPrefix(s, t)
<1>1. Len(s) \in Nat /\ Len(t) \in Nat
  BY LenProperties
<1>2. \A k \in 1 .. Len(s) : s[k] \in S /\ t[k] \in S
  BY <1>1, ElementOfSeq
<1>3. /\ SubSeq(s, 1, Len(s)) \in Seq(S) /\ SubSeq(t, 1, Len(s)) \in Seq(S)
      /\ Len(SubSeq(s, 1, Len(s))) = Len(s) /\ Len(SubSeq(t, 1, Len(s))) = Len(s)
      /\ \A k \in 1 .. Len(s) : SubSeq(s, 1, Len(s))[k] = s[k] /\ SubSeq(t, 1, Len(s))[k] = t[k]
  BY <1>1, <1>2, SubSeqProperties
<1>4. SubSeq(s, 1, Len(s)) = SubSeq(t, 1, Len(s))
  BY <1>3, SeqEqual
<1> QED
  BY <1>4 DEF IsPrefix

\* The elements of a sequence with one more or one less.
LEMMA RangeFacts ==
  ASSUME NEW S, NEW s \in Seq(S)
  PROVE  /\ Range(s) = {s[k] : k \in 1 .. Len(s)}
         /\ \A e \in S : Range(Append(s, e)) = Range(s) \cup {e}
         /\ s # <<>> => Range(s) = {Head(s)} \cup Range(Tail(s))
         /\ \A e \in S : Range(<<e>> \o s) = {e} \cup Range(s)
<1>1. Range(s) = {s[k] : k \in 1 .. Len(s)}
  BY RangeEquality
<1>2. ASSUME NEW e \in S PROVE <<e>> \in Seq(S) /\ Range(<<e>>) = {e}
  BY <1>2 DEF Range
<1>3. ASSUME NEW e \in S PROVE Range(Append(s, e)) = Range(s) \cup {e}
  <2>1. Append(s, e) = s \o <<e>>
    BY AppendIsConcat
  <2>2. <<e>> \in Seq(S)
    BY <1>2
  <2>3. Range(s \o <<e>>) = Range(s) \cup Range(<<e>>)
    BY <2>2, RangeConcatenation
  <2> QED
    BY <1>2, <2>1, <2>3
<1>4. ASSUME NEW e \in S PROVE Range(<<e>> \o s) = {e} \cup Range(s)
  <2>0. <<e>> \in Seq(S)
    BY <1>2
  <2>1. Range(<<e>> \o s) = Range(<<e>>) \cup Range(s)
    BY <2>0, RangeConcatenation, ZenonT(60)
  <2> QED
    BY <1>2, <2>1
<1>5. ASSUME s # <<>> PROVE Range(s) = {Head(s)} \cup Range(Tail(s))
  <2>1. /\ Tail(s) \in Seq(S) /\ Len(s) \in Nat \ {0} /\ Len(Tail(s)) = Len(s) - 1
        /\ \A k \in 1 .. Len(Tail(s)) : Tail(s)[k] = s[k + 1]
        /\ Head(s) = s[1]
    BY <1>5, TailFacts
  <2>2. Range(Tail(s)) = {Tail(s)[k] : k \in 1 .. Len(Tail(s))}
    BY <2>1, RangeEquality
  <2>3. ASSUME NEW k \in 1 .. Len(s) PROVE s[k] \in {Head(s)} \cup Range(Tail(s))
    <3>1. CASE k = 1
      BY <2>1, <3>1
    <3>2. CASE k # 1
      <4>1. k - 1 \in 1 .. Len(Tail(s)) /\ (k - 1) + 1 = k
        BY <2>1, <3>2
      <4> QED
        BY <2>1, <2>2, <4>1
    <3> QED
      BY <3>1, <3>2
  <2>4. ASSUME NEW k \in 1 .. Len(Tail(s)) PROVE Tail(s)[k] \in Range(s)
    BY <1>1, <2>1
  <2>5. Head(s) \in Range(s)
    BY <1>1, <2>1
  <2> QED
    BY <1>1, <2>2, <2>3, <2>4, <2>5
<1> QED
  BY <1>1, <1>3, <1>4, <1>5

\* What a beginning of a sequence is, element by element.
LEMMA PrefixElements ==
  ASSUME NEW S, NEW s \in Seq(S), NEW t \in Seq(S)
  PROVE  IsPrefix(s, t) <=> Len(s) <= Len(t) /\ \A k \in 1 .. Len(s) : s[k] = t[k]
<1>1. Len(s) \in Nat /\ Len(t) \in Nat
  BY LenProperties
<1>2. ASSUME IsPrefix(s, t) PROVE Len(s) <= Len(t) /\ \A k \in 1 .. Len(s) : s[k] = t[k]
  <2>1. Len(s) <= Len(t) /\ SubSeq(s, 1, Len(s)) = SubSeq(t, 1, Len(s))
    BY <1>2 DEF IsPrefix
  <2>2. \A k \in 1 .. Len(s) : s[k] \in S /\ t[k] \in S
    BY <1>1, <2>1, ElementOfSeq
  <2>3. \A k \in 1 .. Len(s) : SubSeq(s, 1, Len(s))[k] = s[k] /\ SubSeq(t, 1, Len(s))[k] = t[k]
    BY <1>1, <2>2, SubSeqProperties
  <2> QED
    BY <2>1, <2>3
<1> QED
  BY <1>2, PrefixFacts

\* A sequence of numbers that increases, with one more that is above its elements.
LEMMA IncreasingAppend ==
  ASSUME NEW s \in Seq(Nat), NEW e \in Nat,
         \A j, k \in 1 .. Len(s) : j < k => s[j] < s[k],
         \A j \in 1 .. Len(s) : s[j] < e
  PROVE  \A j, k \in 1 .. Len(Append(s, e)) : j < k => Append(s, e)[j] < Append(s, e)[k]
<1>1. /\ Len(s) \in Nat /\ Len(Append(s, e)) = Len(s) + 1
      /\ \A k \in 1 .. Len(s) : Append(s, e)[k] = s[k]
      /\ Append(s, e)[Len(s) + 1] = e
  BY AppendFacts
<1>2. ASSUME NEW j \in 1 .. Len(s) + 1, NEW k \in 1 .. Len(s) + 1, j < k
      PROVE  Append(s, e)[j] < Append(s, e)[k]
  <2>1. j \in 1 .. Len(s)
    BY <1>1, <1>2
  <2>2. CASE k = Len(s) + 1
    BY <1>1, <2>1, <2>2
  <2>3. CASE k # Len(s) + 1
    <3>1. k \in 1 .. Len(s)
      BY <1>1, <2>3
    <3> QED
      BY <1>1, <1>2, <2>1, <3>1
  <2> QED
    BY <2>2, <2>3
<1> QED
  BY <1>1, <1>2

\* How often e is in s.
Count(s, e) == Cardinality({k \in DOMAIN s : s[k] = e})

\* One that is appended is counted once more.
LEMMA CountFacts ==
  ASSUME NEW S, NEW s \in Seq(S), NEW e \in S, NEW i
  PROVE  /\ Count(s, i) \in Nat
         /\ Count(Append(s, e), i) = Count(s, i) + IF e = i THEN 1 ELSE 0
<1> DEFINE t == Append(s, e)
           A == {k \in DOMAIN s : s[k] = i}
           B == {k \in DOMAIN t : t[k] = i}
<1>1. /\ Len(s) \in Nat /\ DOMAIN s = 1 .. Len(s) /\ DOMAIN t = 1 .. Len(s) + 1
      /\ \A k \in 1 .. Len(s) : t[k] = s[k]
      /\ t[Len(s) + 1] = e
  BY AppendFacts, LenProperties
<1>2. IsFiniteSet(A) /\ Cardinality(A) \in Nat
  <2>1. IsFiniteSet(1 .. Len(s))
    <3>1. 1 \in Int /\ Len(s) \in Int
      BY <1>1
    <3> QED
      BY <3>1, FS_Interval
  <2>2. A \in SUBSET (1 .. Len(s))
    BY <1>1
  <2> QED
    BY <2>1, <2>2, FS_Subset, FS_CardinalityType
<1>3. ASSUME e = i PROVE B = A \cup {Len(s) + 1} /\ Len(s) + 1 \notin A
  BY <1>1, <1>3
<1>4. ASSUME e # i PROVE B = A
  BY <1>1, <1>4
<1>5. Cardinality(B) = Cardinality(A) + IF e = i THEN 1 ELSE 0
  <2> HIDE DEF A, B
  <2>1. CASE e = i
    BY <1>2, <1>3, <2>1, FS_AddElement
  <2>2. CASE e # i
    BY <1>2, <1>4, <2>2
  <2> QED
    BY <2>1, <2>2
<1>6. Count(s, i) = Cardinality(A) /\ Count(t, i) = Cardinality(B)
  BY DEF Count
<1> HIDE DEF A, B
<1> QED
  BY <1>2, <1>5, <1>6

\* What is not in a sequence is in it no times.
LEMMA CountZero ==
  ASSUME NEW S, NEW s \in Seq(S), NEW i, \A k \in 1 .. Len(s) : s[k] # i
  PROVE  Count(s, i) = 0
<1>1. {k \in DOMAIN s : s[k] = i} = {}
  BY LenProperties
<1> QED
  BY <1>1, FS_EmptySet DEF Count

-----------------------------------------------------------------------------
(* PushIntake *)

PostRecord == [chat : PushChats, empty : BOOLEAN, wanted : BOOLEAN]

PushTypes ==
  /\ pusher \in PushAdapters \cup {"none"}
  /\ posted \in Seq(PostRecord) /\ Len(posted) <= MaxPosts
  /\ pushes \in [1 .. MaxPosts -> 0 .. MaxPushes]
  /\ handling \in [1 .. MaxPosts -> 0 .. MaxPushes]
  /\ wire \in {"off", "down", "up"} /\ pushLives \in 0 .. MaxPushLives
  /\ known \in Seq(Posts) /\ Len(known) <= KnownLimit
  /\ passed \in Seq(Posts) /\ frame \in [PushChats -> 0 .. Len(posted)]

\* Only what was written is pushed, only what was pushed is handled, and only Feishu's
\* handlers wait.
Handled ==
  /\ \A i \in 1 .. MaxPosts : handling[i] <= pushes[i]
  /\ \A i \in 1 .. MaxPosts : i \notin Posts => pushes[i] = 0
  /\ pusher # "feishu" => \A i \in 1 .. MaxPosts : handling[i] = 0
  /\ pusher = "wecom" => \A i \in Posts : posted[i].wanted => ~posted[i].empty

\* The messages are pushed first in the order of the log: m of them were.  The last
\* KnownLimit of those are remembered, which are the ones that may come again.
Remembered(m) ==
  /\ \A i \in 1 .. MaxPosts : pushes[i] > 0 <=> i <= m
  /\ Len(known) = IF m < KnownLimit THEN m ELSE KnownLimit
  /\ \A k \in 1 .. Len(known) : known[k] = m - Len(known) + k
  /\ \A k \in 1 .. Len(passed) : passed[k] <= m
  /\ \A j, k \in 1 .. Len(passed) : j < k => passed[j] < passed[k]

Window == pusher \in {"wecom", "qq"} => \E m \in 0 .. Len(posted) : Remembered(m)

PushInv == PushTypes /\ Handled /\ EachPushCounted /\ Window

-----------------------------------------------------------------------------
\* What the types say of the messages' numbers.
LEMMA PostFacts ==
  ASSUME PushTypes
  PROVE  /\ {MaxPosts, MaxPushes, MaxPushLives, KnownLimit} \subseteq Nat \ {0}
         /\ Len(posted) \in Nat
         /\ Len(known) \in Nat /\ Len(passed) \in Nat
         /\ \A i \in Posts : i \in Nat /\ i \in 1 .. MaxPosts /\ posted[i] \in PostRecord
         /\ \A k \in 1 .. Len(passed) : passed[k] \in Posts
         /\ \A k \in 1 .. Len(known) : known[k] \in Posts
         /\ Range(known) = {known[k] : k \in 1 .. Len(known)}
         /\ Range(passed) = {passed[k] : k \in 1 .. Len(passed)}
<1>1. /\ {MaxPosts, MaxPushes, MaxPushLives, KnownLimit} \subseteq Nat \ {0}
      /\ Len(posted) \in Nat
      /\ Len(known) \in Nat /\ Len(passed) \in Nat
  BY PushAssumption, LenProperties DEF PushTypes
<1>2. \A i \in Posts : i \in Nat /\ i \in 1 .. MaxPosts /\ posted[i] \in PostRecord
  <2>1. \A i \in Posts : i \in Nat /\ i \in 1 .. MaxPosts
    BY <1>1 DEF PushTypes, Posts
  <2>2. \A i \in Posts : posted[i] \in PostRecord
    BY ElementOfSeq DEF PushTypes, Posts
  <2> QED
    BY <2>1, <2>2
<1>3. \A k \in 1 .. Len(passed) : passed[k] \in Posts
  BY ElementOfSeq DEF PushTypes
<1>4. \A k \in 1 .. Len(known) : known[k] \in Posts
  BY ElementOfSeq DEF PushTypes
<1>5. DOMAIN known = 1 .. Len(known) /\ DOMAIN passed = 1 .. Len(passed)
  BY LenProperties DEF PushTypes
<1> QED
  BY <1>1, <1>2, <1>3, <1>4, <1>5 DEF Range

\* How often messages were pushed and are handled are numbers.
LEMMA PushNumbers ==
  ASSUME PushTypes
  PROVE  /\ \A i \in 1 .. MaxPosts : pushes[i] \in Nat /\ handling[i] \in Nat
         /\ MaxPosts \in Nat \ {0} /\ KnownLimit \in Nat \ {0}
<1>1. \A i \in 1 .. MaxPosts : pushes[i] \in 0 .. MaxPushes /\ handling[i] \in 0 .. MaxPushes
  BY DEF PushTypes
<1>2. MaxPushes \in Nat /\ MaxPosts \in Nat \ {0} /\ KnownLimit \in Nat \ {0}
  BY PushAssumption
<1> QED
  BY <1>1, <1>2

\* A message that is passed on is counted once more, if it is for the agent.
LEMMA PassOnFacts ==
  ASSUME PushTypes, NEW i \in Posts, PassOn(i)
  PROVE  /\ passed' \in Seq(Posts)
         /\ \A j \in Posts : /\ Times(j) \in Nat
                             /\ Times(j)' = Times(j) + IF j = i /\ posted[i].wanted THEN 1 ELSE 0
         /\ passed' = passed \/ passed' = Append(passed, i)
<1>0. passed \in Seq(Posts)
  BY DEF PushTypes
<1>1. CASE posted[i].wanted
  <2>1. passed' = Append(passed, i)
    BY <1>1 DEF PassOn
  <2>2. passed' \in Seq(Posts)
    BY <1>0, <2>1, AppendFacts
  <2>3. ASSUME NEW j \in Posts
        PROVE  /\ Times(j) \in Nat
               /\ Times(j)' = Times(j) + IF i = j THEN 1 ELSE 0
    <3>1. /\ Count(passed, j) \in Nat
          /\ Count(passed', j) = Count(passed, j) + IF i = j THEN 1 ELSE 0
      BY <1>0, <2>1, CountFacts
    <3>2. Times(j) = Count(passed, j) /\ Times(j)' = Count(passed', j)
      BY DEF Times, Count
    <3> QED
      BY <3>1, <3>2
  <2> QED
    BY <1>1, <2>1, <2>2, <2>3
<1>2. CASE ~posted[i].wanted
  <2>1. passed' = passed
    BY <1>2 DEF PassOn
  <2>2. ASSUME NEW j \in Posts
        PROVE  Times(j) \in Nat /\ Times(j)' = Times(j)
    <3>1. Count(passed, j) \in Nat
      BY <1>0, CountFacts
    <3>2. Times(j) = Count(passed, j) /\ Times(j)' = Count(passed', j)
      BY DEF Times, Count
    <3> QED
      BY <2>1, <3>1, <3>2
  <2> QED
    BY <1>0, <1>2, <2>1, <2>2
<1> QED
  BY <1>1, <1>2

\* The process forgets all it held.
LEMMA StopFacts ==
  ASSUME PushTypes, StopPush
  PROVE  /\ UNCHANGED <<pusher, posted, pushLives>> /\ wire' = "off"
         /\ known' = <<>> /\ passed' = <<>>
         /\ pushes' = [i \in 1 .. MaxPosts |-> 0] /\ handling' = [i \in 1 .. MaxPosts |-> 0]
         /\ frame' = [c \in PushChats |-> 0]
BY DEF StopPush, NothingKept

\* The window of known ids gets one more, and loses the oldest when it is full.
LEMMA RememberFacts ==
  ASSUME PushTypes, NEW i \in Posts, Remember(i)
  PROVE  /\ known' \in Seq(Posts)
         /\ Len(known') = IF Len(known) = KnownLimit THEN KnownLimit ELSE Len(known) + 1
         /\ \A k \in 1 .. Len(known') :
               known'[k] = IF k = Len(known') THEN i
                           ELSE IF Len(known) = KnownLimit THEN known[k + 1] ELSE known[k]
<1> DEFINE longer == Append(known, i)
<1>0. /\ known \in Seq(Posts) /\ Len(known) \in Nat /\ Len(known) <= KnownLimit
      /\ KnownLimit \in Nat \ {0}
  BY PostFacts DEF PushTypes
<1>1. /\ longer \in Seq(Posts) /\ Len(longer) = Len(known) + 1 /\ longer # <<>>
      /\ \A k \in 1 .. Len(known) : longer[k] = known[k]
      /\ longer[Len(known) + 1] = i
  <2>1. /\ longer \in Seq(Posts) /\ Len(longer) = Len(known) + 1
        /\ \A k \in 1 .. Len(known) : longer[k] = known[k]
        /\ longer[Len(known) + 1] = i
    BY <1>0, AppendFacts
  <2> QED
    BY <1>0, <2>1, EmptySeq
<1>2. known' = IF Len(longer) > KnownLimit THEN Tail(longer) ELSE longer
  BY DEF Remember
<1> HIDE DEF longer
<1>3. CASE Len(known) = KnownLimit
  <2>1. known' = Tail(longer)
    BY <1>0, <1>1, <1>2, <1>3
  <2>2. /\ known' \in Seq(Posts) /\ Len(known') = Len(known)
        /\ \A k \in 1 .. Len(known) : known'[k] = longer[k + 1]
    BY <1>0, <1>1, <2>1, TailFacts
  <2>3. \A k \in 1 .. Len(known) : k # Len(known) => k + 1 \in 1 .. Len(known)
    BY <1>0
  <2> QED
    BY <1>0, <1>1, <1>3, <2>2, <2>3
<1>4. CASE Len(known) # KnownLimit
  <2>1. known' = longer
    BY <1>0, <1>1, <1>2, <1>4
  <2> QED
    BY <1>0, <1>1, <1>4, <2>1
<1> QED
  BY <1>3, <1>4

\* Every step keeps the types.
LEMMA PushTypesStep ==
  ASSUME PushTypes, Handled, PushNext
  PROVE  PushTypes'
<1>0. /\ {MaxPosts, MaxPushes, MaxPushLives, KnownLimit} \subseteq Nat \ {0}
      /\ Len(posted) \in Nat
      /\ \A i \in Posts : i \in 1 .. MaxPosts /\ posted[i] \in PostRecord
  BY PostFacts
<1>1. CASE Post
  <2>1. PICK c \in PushChats, kind \in PostKinds :
           posted' = Append(posted, [chat |-> c, empty |-> kind = "empty", wanted |-> ForAgent(kind)])
    BY <1>1 DEF Post
  <2>2. ForAgent(kind) \in BOOLEAN
    BY <1>1, PushAssumption
    DEF Post, PushTypes, ForAgent, FeishuWants, DingTalkWants, WecomWants, QQWants
  <2>3. [chat |-> c, empty |-> kind = "empty", wanted |-> ForAgent(kind)] \in PostRecord
    BY <2>2 DEF PostRecord
  <2>4. posted' \in Seq(PostRecord) /\ Len(posted') = Len(posted) + 1
    BY <2>1, <2>3, AppendFacts DEF PushTypes
  <2>5. Len(posted') <= MaxPosts
    BY <1>0, <1>1, <2>4 DEF Post
  <2>6. Posts \subseteq Posts' /\ 0 .. Len(posted) \subseteq 0 .. Len(posted')
    BY <1>0, <2>4 DEF Posts
  <2>7. known \in Seq(Posts') /\ passed \in Seq(Posts')
    BY <2>6, SeqMonotonic DEF PushTypes
  <2> QED
    BY <1>1, <2>4, <2>5, <2>6, <2>7 DEF PushTypes, Post
<1>2. CASE StartPush
  <2>1. pushLives' \in 0 .. MaxPushLives
    BY <1>0, <1>2 DEF PushTypes, StartPush
  <2> QED
    BY <1>2, <2>1 DEF PushTypes, StartPush, Posts
<1>3. CASE Connect \/ Disconnect
  BY <1>3 DEF PushTypes, Connect, Disconnect, Posts
<1>4. CASE StopPush
  <2>1. <<>> \in Seq(Posts) /\ Len(<<>>) = 0
    BY EmptySeq
  <2>2. known' \in Seq(Posts) /\ Len(known') <= KnownLimit /\ passed' \in Seq(Posts)
    BY <1>0, <1>4, <2>1, StopFacts
  <2>3. /\ pushes' \in [1 .. MaxPosts -> 0 .. MaxPushes]
        /\ handling' \in [1 .. MaxPosts -> 0 .. MaxPushes]
        /\ frame' \in [PushChats -> 0 .. Len(posted)]
    BY <1>0, <1>4, StopFacts
  <2> QED
    BY <1>4, <2>2, <2>3, StopFacts DEF PushTypes, Posts
<1>5. ASSUME NEW i \in Posts, PushFeishu(i)
      PROVE  PushTypes'
  <2>1. handling[i] < MaxPushes /\ pushes[i] < MaxPushes
    BY <1>0, <1>5 DEF PushTypes, Handled, PushFeishu, MayPush
  <2>2. /\ pushes' = [pushes EXCEPT ![i] = pushes[i] + 1]
        /\ handling' \in {handling, [handling EXCEPT ![i] = handling[i] + 1]}
    BY <1>5 DEF PushFeishu
  <2>3. i \in 1 .. MaxPosts /\ handling[i] \in 0 .. MaxPushes /\ pushes[i] \in 0 .. MaxPushes
    BY <1>0 DEF PushTypes
  <2>4. handling[i] + 1 \in 0 .. MaxPushes /\ pushes[i] + 1 \in 0 .. MaxPushes
    <3>1. MaxPushes \in Nat
      BY <1>0
    <3> QED
      BY <2>1, <2>3, <3>1
  <2>5. pushes' \in [1 .. MaxPosts -> 0 .. MaxPushes] /\ handling' \in [1 .. MaxPosts -> 0 .. MaxPushes]
    BY <2>2, <2>4 DEF PushTypes
  <2> QED
    BY <1>5, <2>5 DEF PushTypes, PushFeishu, Posts
<1>6. ASSUME NEW i \in Posts, FinishFeishu(i)
      PROVE  PushTypes'
  <2>1. handling' \in [1 .. MaxPosts -> 0 .. MaxPushes]
    BY <1>0, <1>6 DEF PushTypes, FinishFeishu
  <2>2. passed' \in Seq(Posts)
    BY <1>6, PassOnFacts DEF FinishFeishu
  <2> QED
    BY <1>6, <2>1, <2>2 DEF PushTypes, FinishFeishu, Posts
<1>7. ASSUME NEW i \in Posts, PushDingTalk(i)
      PROVE  PushTypes'
  <2>1. pushes' \in [1 .. MaxPosts -> 0 .. MaxPushes]
    BY <1>0, <1>7 DEF PushTypes, PushDingTalk, MayPush
  <2>2. passed' \in Seq(Posts)
    BY <1>7, PassOnFacts DEF PushDingTalk
  <2> QED
    BY <1>7, <2>1, <2>2 DEF PushTypes, PushDingTalk, Posts
<1>8. ASSUME NEW i \in Posts, PushWecom(i)
      PROVE  PushTypes'
  <2>1. pushes' \in [1 .. MaxPosts -> 0 .. MaxPushes]
    BY <1>0, <1>8 DEF PushTypes, PushWecom, MayPush
  <2>2. CASE i \in Range(known)
    BY <1>8, <2>1, <2>2 DEF PushTypes, PushWecom, Posts
  <2>3. CASE i \notin Range(known)
    <3>0. Remember(i) /\ PassOn(i)
      BY <1>8, <2>3 DEF PushWecom
    <3>1. passed' \in Seq(Posts) /\ known' \in Seq(Posts) /\ Len(known') <= KnownLimit
      <4>1. passed' \in Seq(Posts)
        BY <3>0, PassOnFacts
      <4>2. /\ known' \in Seq(Posts)
            /\ Len(known') = IF Len(known) = KnownLimit THEN KnownLimit ELSE Len(known) + 1
        BY <3>0, RememberFacts
      <4>3. Len(known) \in Nat /\ Len(known) <= KnownLimit
        BY PostFacts DEF PushTypes
      <4> QED
        BY <1>0, <4>1, <4>2, <4>3
    <3>2. posted[i].chat \in PushChats /\ i \in 0 .. Len(posted)
      BY <1>0 DEF PostRecord, Posts
    <3>3. frame' \in [PushChats -> 0 .. Len(posted)]
      BY <1>8, <2>3, <3>2 DEF PushWecom, PushTypes
    <3> QED
      BY <1>8, <2>1, <3>1, <3>3 DEF PushTypes, PushWecom, Posts
  <2> QED
    BY <2>2, <2>3
<1>9. ASSUME NEW i \in Posts, PushQQ(i)
      PROVE  PushTypes'
  <2>1. pushes' \in [1 .. MaxPosts -> 0 .. MaxPushes]
    BY <1>0, <1>9 DEF PushTypes, PushQQ, MayPush
  <2>2. CASE i \in Range(known)
    BY <1>9, <2>1, <2>2 DEF PushTypes, PushQQ, Posts
  <2>3. CASE i \notin Range(known)
    <3>0. Remember(i) /\ PassOn(i)
      BY <1>9, <2>3 DEF PushQQ
    <3>1. passed' \in Seq(Posts) /\ known' \in Seq(Posts) /\ Len(known') <= KnownLimit
      <4>1. passed' \in Seq(Posts)
        BY <3>0, PassOnFacts
      <4>2. /\ known' \in Seq(Posts)
            /\ Len(known') = IF Len(known) = KnownLimit THEN KnownLimit ELSE Len(known) + 1
        BY <3>0, RememberFacts
      <4>3. Len(known) \in Nat /\ Len(known) <= KnownLimit
        BY PostFacts DEF PushTypes
      <4> QED
        BY <1>0, <4>1, <4>2, <4>3
    <3> QED
      BY <1>9, <2>1, <3>1 DEF PushTypes, PushQQ, Posts
  <2> QED
    BY <2>2, <2>3
<1> QED
  BY <1>1, <1>2, <1>3, <1>4, <1>5, <1>6, <1>7, <1>8, <1>9 DEF PushNext

\* Every step keeps what is known of the handlers.
LEMMA HandledStep ==
  ASSUME PushTypes, Handled, PushNext
  PROVE  Handled'
<1>0. /\ Len(posted) \in Nat /\ \A i \in Posts : i \in 1 .. MaxPosts
      /\ \A i \in 1 .. MaxPosts : pushes[i] \in Nat /\ handling[i] \in Nat
  BY PostFacts, PushNumbers
<1>1. CASE Post
  <2>1. PICK c \in PushChats, kind \in PostKinds :
           posted' = Append(posted, [chat |-> c, empty |-> kind = "empty", wanted |-> ForAgent(kind)])
    BY <1>1 DEF Post
  <2>2. /\ Len(posted') = Len(posted) + 1
        /\ \A i \in 1 .. Len(posted) : posted'[i] = posted[i]
        /\ posted'[Len(posted) + 1] = [chat |-> c, empty |-> kind = "empty", wanted |-> ForAgent(kind)]
    BY <2>1, AppendProperties DEF PushTypes
  <2>3. Posts' = Posts \cup {Len(posted) + 1}
    BY <1>0, <2>2 DEF Posts
  <2>4. UNCHANGED <<pusher, pushes, handling>>
    BY <1>1 DEF Post
  <2>5. ASSUME pusher' = "wecom", NEW i \in Posts', posted'[i].wanted
        PROVE  ~posted'[i].empty
    <3>1. CASE i \in Posts
      BY <2>2, <2>4, <2>5, <3>1 DEF Handled, Posts
    <3>2. CASE i = Len(posted) + 1
      <4>1. ForAgent(kind) /\ pusher = "wecom"
        BY <2>2, <2>4, <2>5, <3>2
      <4>2. kind # "empty"
        BY <4>1 DEF ForAgent, WecomWants
      <4>3. posted'[i].empty = (kind = "empty")
        BY <2>2, <3>2
      <4> QED
        BY <4>2, <4>3, Zenon
    <3> QED
      BY <2>3, <3>1, <3>2
  <2> QED
    BY <2>3, <2>4, <2>5 DEF Handled
<1>2. CASE StartPush \/ Connect \/ Disconnect
  BY <1>2 DEF Handled, StartPush, Connect, Disconnect, Posts
<1>3. CASE StopPush
  <2>1. /\ \A i \in 1 .. MaxPosts : pushes'[i] = 0 /\ handling'[i] = 0
        /\ UNCHANGED <<pusher, posted>>
    BY <1>3, StopFacts
  <2> QED
    BY <2>1 DEF Handled, Posts
<1>4. ASSUME NEW i \in Posts, PushFeishu(i)
      PROVE  Handled'
  <2>0. UNCHANGED <<pusher, posted>> /\ pusher = "feishu"
    BY <1>4 DEF PushFeishu
  <2>1. /\ \A j \in 1 .. MaxPosts : pushes'[j] = IF j = i THEN pushes[j] + 1 ELSE pushes[j]
        /\ \A j \in 1 .. MaxPosts :
              handling'[j] = handling[j] \/ (j = i /\ handling'[j] = handling[j] + 1)
    <3>1. pushes' = [pushes EXCEPT ![i] = @ + 1]
      BY <1>4 DEF PushFeishu
    <3>2. handling' = [handling EXCEPT ![i] = @ + 1] \/ handling' = handling
      BY <1>4 DEF PushFeishu
    <3>3. pushes \in [1 .. MaxPosts -> 0 .. MaxPushes] /\ handling \in [1 .. MaxPosts -> 0 .. MaxPushes]
      BY DEF PushTypes
    <3>4. \A j \in 1 .. MaxPosts : pushes'[j] = IF j = i THEN pushes[j] + 1 ELSE pushes[j]
      BY <3>1, <3>3
    <3>5. \A j \in 1 .. MaxPosts : handling'[j] = handling[j] \/ (j = i /\ handling'[j] = handling[j] + 1)
      BY <3>2, <3>3
    <3> QED
      BY <3>4, <3>5
  <2> QED
    BY <1>0, <2>0, <2>1 DEF Handled, Posts
<1>5. ASSUME NEW i \in Posts, FinishFeishu(i)
      PROVE  Handled'
  <2>1. /\ UNCHANGED <<pusher, posted, pushes>> /\ handling[i] > 0
        /\ \A j \in 1 .. MaxPosts : handling'[j] = IF j = i THEN handling[j] - 1 ELSE handling[j]
    BY <1>0, <1>5 DEF FinishFeishu, PushTypes
  <2>2. pusher = "feishu"
    BY <1>0, <2>1 DEF Handled
  <2> QED
    BY <1>0, <2>1, <2>2 DEF Handled, Posts
<1>6. ASSUME NEW i \in Posts, PushDingTalk(i) \/ PushWecom(i) \/ PushQQ(i)
      PROVE  Handled'
  <2>1. /\ UNCHANGED <<pusher, posted, handling>>
        /\ \A j \in 1 .. MaxPosts : pushes'[j] = IF j = i THEN pushes[j] + 1 ELSE pushes[j]
    BY <1>0, <1>6 DEF PushDingTalk, PushWecom, PushQQ, PushTypes
  <2> QED
    BY <1>0, <2>1 DEF Handled, Posts
<1> QED
  BY <1>1, <1>2, <1>3, <1>4, <1>5, <1>6 DEF PushNext

\* WeCom and QQ know a message that comes again, and take one that comes first, which is
\* the next of the log.
LEMMA FirstPush ==
  ASSUME PushTypes, NEW m \in 0 .. Len(posted), Remembered(m), NEW i \in Posts, MayPush(i)
  PROVE  /\ i \in Range(known) => i <= m /\ pushes[i] > 0
         /\ i \notin Range(known) => i = m + 1 /\ pushes[i] = 0
<1>0. /\ KnownLimit \in Nat \ {0} /\ MaxPosts \in Nat /\ Len(posted) \in Nat /\ Len(known) \in Nat
      /\ m \in Nat /\ i \in Nat /\ i \in 1 .. MaxPosts /\ i >= 1 /\ pushes[i] \in Nat
      /\ \A k \in 1 .. Len(known) : known[k] \in Nat
      /\ Range(known) = {known[k] : k \in 1 .. Len(known)}
  <2>1. Len(posted) \in Nat /\ Len(known) \in Nat /\ i \in 1 .. MaxPosts /\ i \in Nat
    BY PostFacts
  <2>2. \A k \in 1 .. Len(known) : known[k] \in Nat
    BY PostFacts
  <2>3. Range(known) = {known[k] : k \in 1 .. Len(known)}
    BY PostFacts
  <2> QED
    BY <2>1, <2>2, <2>3, PushNumbers
<1>1. /\ \A j \in 1 .. MaxPosts : pushes[j] > 0 <=> j <= m
      /\ Len(known) = IF m < KnownLimit THEN m ELSE KnownLimit
      /\ \A k \in 1 .. Len(known) : known[k] = m - Len(known) + k
  BY DEF Remembered
<1>2. ASSUME i \in Range(known) PROVE i <= m /\ pushes[i] > 0
  BY <1>0, <1>1, <1>2
<1>3. ASSUME i \notin Range(known), i <= m PROVE FALSE
  <2>1. pushes[i] # 0
    BY <1>0, <1>1, <1>3
  <2>2. m \in Posts /\ m \in 1 .. MaxPosts
    BY <1>0, <1>3, PostFacts DEF Posts
  <2>3. m < i + KnownLimit
    BY <1>1, <2>1, <2>2 DEF MayPush
  <2>4. i - m + Len(known) \in 1 .. Len(known)
    BY <1>0, <1>1, <1>3, <2>3
  <2>5. known[i - m + Len(known)] = i
    BY <1>0, <1>1, <2>4
  <2> QED
    BY <1>0, <1>3, <2>4, <2>5
<1>4. ASSUME i > m + 1 PROVE FALSE
  <2>1. m + 1 \in 1 .. i - 1 /\ m + 1 \in 1 .. MaxPosts
    BY <1>0, <1>4
  <2>2. pushes[m + 1] > 0
    BY <2>1 DEF MayPush
  <2> QED
    BY <1>0, <1>1, <2>1, <2>2
<1>5. ASSUME i \notin Range(known) PROVE i = m + 1 /\ pushes[i] = 0
  <2>1. i = m + 1
    BY <1>0, <1>3, <1>4, <1>5
  <2> QED
    BY <1>0, <1>1, <2>1
<1> QED
  BY <1>2, <1>5

\* A push by WeCom or QQ of a message that comes first moves the window on.
LEMMA WindowMoves ==
  ASSUME PushTypes, NEW m \in 0 .. Len(posted), Remembered(m), NEW i \in Posts, i = m + 1,
         Remember(i), PassOn(i), pushes' = [pushes EXCEPT ![i] = @ + 1]
  PROVE  Remembered(i)'
<1>0. /\ KnownLimit \in Nat \ {0} /\ Len(known) \in Nat /\ m \in Nat /\ i \in Nat
      /\ \A j \in 1 .. MaxPosts : pushes[j] \in Nat
      /\ MaxPosts \in Nat /\ i \in 1 .. MaxPosts
  BY PostFacts, PushNumbers
<1>1. \A j \in 1 .. MaxPosts : pushes'[j] > 0 <=> j <= i
  <2>1. \A j \in 1 .. MaxPosts : pushes'[j] = IF j = i THEN pushes[j] + 1 ELSE pushes[j]
    BY DEF PushTypes
  <2>2. \A j \in 1 .. MaxPosts : pushes[j] > 0 <=> j <= m
    BY DEF Remembered
  <2> QED
    BY <1>0, <2>1, <2>2
<1>2. /\ Len(known') = IF i < KnownLimit THEN i ELSE KnownLimit
      /\ \A k \in 1 .. Len(known') : known'[k] = i - Len(known') + k
  <2>1. /\ Len(known') = IF Len(known) = KnownLimit THEN KnownLimit ELSE Len(known) + 1
        /\ \A k \in 1 .. Len(known') :
              known'[k] = IF k = Len(known') THEN i
                          ELSE IF Len(known) = KnownLimit THEN known[k + 1] ELSE known[k]
    BY RememberFacts
  <2>2. /\ Len(known) = IF m < KnownLimit THEN m ELSE KnownLimit
        /\ \A k \in 1 .. Len(known) : known[k] = m - Len(known) + k
    BY DEF Remembered
  <2>3. CASE Len(known) = KnownLimit
    <3>1. \A k \in 1 .. Len(known') : k # Len(known') => k + 1 \in 1 .. Len(known)
      BY <1>0, <2>1, <2>3
    <3> QED
      <4>1. m >= KnownLimit /\ Len(known') = KnownLimit
        BY <1>0, <2>1, <2>2, <2>3
      <4>2. ASSUME NEW k \in 1 .. Len(known')
            PROVE  known'[k] = i - Len(known') + k
        <5>1. CASE k = Len(known')
          <6>1. known'[k] = i
            BY <2>1, <5>1
          <6>2. i - Len(known') + k = i
            BY <1>0, <4>1, <5>1
          <6> QED
            BY <6>1, <6>2
        <5>2. CASE k # Len(known')
          <6>1. known'[k] = known[k + 1] /\ k + 1 \in 1 .. Len(known) /\ k \in Nat
            BY <1>0, <2>1, <2>3, <3>1, <4>1, <5>2
          <6>2. known[k + 1] = m - Len(known) + (k + 1)
            BY <2>2, <6>1
          <6> QED
            BY <1>0, <2>3, <4>1, <6>1, <6>2
        <5> QED
          BY <5>1, <5>2
      <4> QED
        BY <1>0, <4>1, <4>2
  <2>4. CASE Len(known) # KnownLimit
    <3>1. \A k \in 1 .. Len(known') : k # Len(known') => k \in 1 .. Len(known)
      BY <1>0, <2>1, <2>4
    <3> QED
      BY <1>0, <2>1, <2>2, <2>4, <3>1
  <2> QED
    BY <2>3, <2>4
<1>3. /\ \A k \in 1 .. Len(passed') : passed'[k] <= i
      /\ \A j, k \in 1 .. Len(passed') : j < k => passed'[j] < passed'[k]
  <2>0. /\ passed \in Seq(Posts) /\ Len(passed) \in Nat /\ \A k \in 1 .. Len(passed) : passed[k] \in Nat
        /\ \A k \in 1 .. Len(passed) : passed[k] <= m
        /\ \A j, k \in 1 .. Len(passed) : j < k => passed[j] < passed[k]
    BY PostFacts DEF PushTypes, Remembered
  <2>1. CASE passed' = passed
    BY <1>0, <2>0, <2>1
  <2>2. CASE passed' = Append(passed, i)
    <3>1. /\ Len(passed') = Len(passed) + 1 /\ passed'[Len(passed) + 1] = i
          /\ \A k \in 1 .. Len(passed) : passed'[k] = passed[k]
      BY <2>0, <2>2, AppendFacts
    <3>2. \A k \in 1 .. Len(passed') : passed'[k] <= i
      BY <1>0, <2>0, <3>1
    <3>3. passed \in Seq(Nat)
      <4>1. Posts \subseteq Nat
        BY DEF Posts
      <4> QED
        BY <2>0, <4>1, SeqMonotonic
    <3>4. \A k \in 1 .. Len(passed) : passed[k] < i
      BY <1>0, <2>0
    <3>5. \A j, k \in 1 .. Len(passed') : j < k => passed'[j] < passed'[k]
      BY <1>0, <2>0, <2>2, <3>3, <3>4, IncreasingAppend
    <3> QED
      BY <3>2, <3>5
  <2> QED
    BY <2>1, <2>2, PassOnFacts
<1> QED
  BY <1>1, <1>2, <1>3 DEF Remembered

\* A push of a message that is known changes no more than its count.
LEMMA WindowStays ==
  ASSUME PushTypes, NEW m \in 0 .. Len(posted), Remembered(m), NEW i \in Posts, i <= m,
         UNCHANGED <<known, passed>>, pushes' = [pushes EXCEPT ![i] = @ + 1]
  PROVE  Remembered(m)'
<1>1. \A j \in 1 .. MaxPosts : pushes[j] \in Nat /\ pushes'[j] = IF j = i THEN pushes[j] + 1 ELSE pushes[j]
  BY PushNumbers DEF PushTypes
<1>2. \A j \in 1 .. MaxPosts : pushes[j] > 0 <=> j <= m
  BY DEF Remembered
<1>3. i \in Nat /\ i \in 1 .. MaxPosts /\ m \in Nat
  BY PostFacts
<1>4. \A j \in 1 .. MaxPosts : pushes'[j] > 0 <=> j <= m
  BY <1>1, <1>2, <1>3
<1> QED
  BY <1>4 DEF Remembered

\* Every step keeps the window of the messages that WeCom or QQ knows.
LEMMA WindowStep ==
  ASSUME PushTypes, Handled, Window, PushNext
  PROVE  Window'
<1>0. /\ Len(posted) \in Nat /\ KnownLimit \in Nat \ {0} /\ MaxPosts \in Nat
      /\ \A i \in Posts : i \in 1 .. MaxPosts /\ i \in 0 .. Len(posted)
      /\ pusher' = pusher
  <2>1. pusher' = pusher
    BY DEF PushNext, Post, StartPush, Connect, Disconnect, StopPush, PushFeishu, FinishFeishu,
           PushDingTalk, PushWecom, PushQQ
  <2> QED
    BY <2>1, PostFacts, PushNumbers, SMTT(30) DEF Posts
<1> SUFFICES ASSUME pusher \in {"wecom", "qq"}
             PROVE  \E m \in 0 .. Len(posted') : Remembered(m)'
  BY <1>0 DEF Window
<1>1. PICK m \in 0 .. Len(posted) : Remembered(m)
  BY DEF Window
<1>2. CASE Post
  <2>1. Len(posted') = Len(posted) + 1
    BY <1>2, AppendProperties DEF Post, PushTypes
  <2>2. m \in 0 .. Len(posted')
    BY <1>0, <2>1
  <2>3. Remembered(m)'
    BY <1>1, <1>2 DEF Post, Remembered
  <2> QED
    BY <2>2, <2>3
<1>3. CASE StartPush \/ Connect \/ Disconnect
  BY <1>1, <1>3 DEF StartPush, Connect, Disconnect, Remembered
<1>4. CASE StopPush
  <2>1. /\ \A i \in 1 .. MaxPosts : pushes'[i] = 0
        /\ known' = <<>> /\ passed' = <<>> /\ posted' = posted
    BY <1>4, StopFacts
  <2>2. Len(<<>>) = 0
    OBVIOUS
  <2>3. Remembered(0)'
    BY <1>0, <2>1, <2>2 DEF Remembered
  <2> QED
    BY <1>0, <2>1, <2>3
<1>5. ASSUME NEW i \in Posts, PushWecom(i) \/ PushQQ(i)
      PROVE  \E n \in 0 .. Len(posted') : Remembered(n)'
  <2>1. /\ MayPush(i) /\ pushes' = [pushes EXCEPT ![i] = @ + 1] /\ posted' = posted
        /\ i \in Range(known) => UNCHANGED <<known, passed>>
        /\ i \notin Range(known) => Remember(i) /\ PassOn(i)
    BY <1>5 DEF PushWecom, PushQQ
  <2>2. CASE i \in Range(known)
    <3>1. Remembered(m)'
      BY <1>1, <2>1, <2>2, FirstPush, WindowStays
    <3> QED
      BY <2>1, <3>1
  <2>3. CASE i \notin Range(known)
    <3>1. Remembered(i)'
      BY <1>1, <2>1, <2>3, FirstPush, WindowMoves
    <3> QED
      BY <1>0, <2>1, <3>1
  <2> QED
    BY <2>2, <2>3
<1>6. ~ \E i \in Posts : PushFeishu(i) \/ FinishFeishu(i) \/ PushDingTalk(i)
  BY <1>0, PushNumbers DEF PushFeishu, FinishFeishu, PushDingTalk, Handled
<1> QED
  BY <1>2, <1>3, <1>4, <1>5, <1>6 DEF PushNext

\* The numbers that match for message i.
Counted(i) ==
  /\ pusher \in {"feishu", "dingtalk"} => Times(i) + handling[i] = pushes[i]
  /\ pusher \in {"wecom", "qq"} => Times(i) = IF pushes[i] = 0 THEN 0 ELSE 1
  /\ pusher = "wecom" /\ i \in Range(passed) => frame[posted[i].chat] >= i

\* Nothing changes of what is counted.
LEMMA CountedStays ==
  ASSUME NEW i, Counted(i), posted'[i] = posted[i],
         UNCHANGED <<pusher, pushes, handling, passed, frame>>
  PROVE  Counted(i)'
BY DEF Counted, Times

\* Every step keeps pushes and publications in step, and a WeCom chat's frame no older
\* than what was published of it.
LEMMA CountedStep ==
  ASSUME PushTypes, Handled, EachPushCounted, Window, PushNext
  PROVE  EachPushCounted'
<1>0. /\ Len(posted) \in Nat
      /\ \A i \in Posts : i \in 1 .. MaxPosts /\ i \in Nat
      /\ \A i \in 1 .. MaxPosts : pushes[i] \in Nat /\ handling[i] \in Nat
      /\ passed \in Seq(Posts) /\ Range(passed) \subseteq Posts
  BY PostFacts, PushNumbers DEF PushTypes
<1>a. \A i \in Posts : posted[i].wanted => Counted(i)
  BY DEF EachPushCounted, Counted
<1> SUFFICES ASSUME NEW i \in Posts', posted'[i].wanted
             PROVE  Counted(i)'
  BY DEF EachPushCounted, Counted
<1>1. CASE Post
  <2>1. /\ UNCHANGED <<pusher, pushes, handling, passed, frame>>
        /\ Len(posted') = Len(posted) + 1
        /\ \A j \in 1 .. Len(posted) : posted'[j] = posted[j]
    BY <1>1, AppendProperties DEF Post, PushTypes
  <2>2. CASE i \in Posts
    BY <1>a, <2>1, <2>2, CountedStays DEF Posts
  <2>3. CASE i \notin Posts
    <3>1. i \in 1 .. MaxPosts
      <4>1. Len(posted) < MaxPosts /\ MaxPosts \in Nat
        BY <1>1, PushNumbers DEF Post
      <4> QED
        BY <1>0, <2>1, <4>1 DEF Posts
    <3>2. pushes[i] = 0 /\ handling[i] = 0
      BY <1>0, <2>3, <3>1 DEF Handled
    <3>3. \A k \in 1 .. Len(passed) : passed[k] # i
      BY <2>3, PostFacts
    <3>4. Count(passed, i) = 0
      BY <1>0, <3>3, CountZero
    <3>5. Times(i)' = 0
      BY <2>1, <3>4 DEF Times, Count
    <3>6. i \notin Range(passed)'
      BY <1>0, <2>1, <2>3
    <3> QED
      BY <2>1, <3>2, <3>5, <3>6 DEF Counted
  <2> QED
    BY <2>2, <2>3
<1>2. CASE StartPush \/ Connect \/ Disconnect
  <2>1. UNCHANGED <<posted, pusher, pushes, handling, passed, frame>>
    BY <1>2 DEF StartPush, Connect, Disconnect
  <2> QED
    BY <1>a, <2>1, CountedStays DEF Posts
<1>3. CASE StopPush
  <2>1. /\ \A j \in 1 .. MaxPosts : pushes'[j] = 0 /\ handling'[j] = 0
        /\ passed' = <<>> /\ posted' = posted
    BY <1>3, StopFacts
  <2>2. i \in 1 .. MaxPosts
    BY <1>0, <2>1 DEF Posts
  <2>3. {k \in DOMAIN passed' : passed'[k] = i} = {} /\ Range(passed') = {}
    BY <2>1 DEF Range
  <2>4. Times(i)' = 0
    BY <2>3, FS_EmptySet DEF Times
  <2> QED
    BY <2>1, <2>2, <2>3, <2>4 DEF Counted
<1>4. ASSUME NEW n \in Posts, PushFeishu(n)
      PROVE  Counted(i)'
  <2>1. /\ UNCHANGED <<pusher, posted, passed>> /\ pusher = "feishu"
        /\ pushes' = [pushes EXCEPT ![n] = @ + 1]
        /\ handling' = IF posted[n].wanted THEN [handling EXCEPT ![n] = @ + 1] ELSE handling
    BY <1>4 DEF PushFeishu
  <2>2. i \in Posts /\ posted[i].wanted
    BY <2>1 DEF Posts
  <2>3. Times(i)' = Times(i) /\ Times(i) \in Nat
    <3>1. Times(i) = Count(passed, i) /\ Times(i)' = Count(passed', i)
      BY DEF Times, Count
    <3> QED
      BY <1>0, <2>1, <2>2, <3>1, CountFacts
  <2>4. /\ pushes'[i] = IF i = n THEN pushes[i] + 1 ELSE pushes[i]
        /\ handling'[i] = IF i = n THEN handling[i] + 1 ELSE handling[i]
    BY <1>0, <2>1, <2>2 DEF PushTypes
  <2>5. Times(i) + handling[i] = pushes[i]
    BY <1>a, <2>1, <2>2 DEF Counted
  <2>6. Times(i)' + handling'[i] = pushes'[i]
    BY <1>0, <2>2, <2>3, <2>4, <2>5
  <2> QED
    BY <2>1, <2>6 DEF Counted
<1>5. ASSUME NEW n \in Posts, FinishFeishu(n)
      PROVE  Counted(i)'
  <2>1. /\ UNCHANGED <<pusher, posted, pushes>> /\ handling[n] > 0 /\ PassOn(n)
        /\ handling' = [handling EXCEPT ![n] = @ - 1]
    BY <1>5 DEF FinishFeishu
  <2>2. i \in Posts /\ posted[i].wanted
    BY <2>1 DEF Posts
  <2>3. pusher = "feishu"
    BY <1>0, <2>1 DEF Handled
  <2>4. Times(i) \in Nat /\ Times(i)' = Times(i) + IF i = n THEN 1 ELSE 0
    BY <2>1, <2>2, PassOnFacts
  <2>5. handling'[i] = IF i = n THEN handling[i] - 1 ELSE handling[i]
    BY <1>0, <2>1, <2>2 DEF PushTypes
  <2>6. Times(i) + handling[i] = pushes[i]
    BY <1>a, <2>2, <2>3 DEF Counted
  <2>7. Times(i)' + handling'[i] = pushes'[i]
    BY <1>0, <2>1, <2>2, <2>4, <2>5, <2>6
  <2> QED
    BY <2>1, <2>3, <2>7 DEF Counted
<1>6. ASSUME NEW n \in Posts, PushDingTalk(n)
      PROVE  Counted(i)'
  <2>1. /\ UNCHANGED <<pusher, posted, handling>> /\ pusher = "dingtalk" /\ PassOn(n)
        /\ pushes' = [pushes EXCEPT ![n] = @ + 1]
    BY <1>6 DEF PushDingTalk
  <2>2. i \in Posts /\ posted[i].wanted
    BY <2>1 DEF Posts
  <2>4. Times(i) \in Nat /\ Times(i)' = Times(i) + IF i = n THEN 1 ELSE 0
    BY <2>1, <2>2, PassOnFacts
  <2>5. pushes'[i] = IF i = n THEN pushes[i] + 1 ELSE pushes[i]
    BY <1>0, <2>1, <2>2 DEF PushTypes
  <2>6. Times(i) + handling[i] = pushes[i]
    BY <1>a, <2>1, <2>2 DEF Counted
  <2>7. Times(i)' + handling'[i] = pushes'[i]
    BY <1>0, <2>1, <2>2, <2>4, <2>5, <2>6
  <2> QED
    BY <2>1, <2>7 DEF Counted
<1>7. ASSUME NEW n \in Posts, PushWecom(n) \/ PushQQ(n)
      PROVE  Counted(i)'
  <2>1. /\ UNCHANGED <<pusher, posted>> /\ pusher \in {"wecom", "qq"} /\ MayPush(n)
        /\ pushes' = [pushes EXCEPT ![n] = @ + 1]
        /\ n \in Range(known) => UNCHANGED <<passed, frame>>
        /\ n \notin Range(known) => PassOn(n)
        /\ n \notin Range(known) /\ pusher = "wecom"
              => frame' = IF posted[n].empty THEN frame ELSE [frame EXCEPT ![posted[n].chat] = n]
    BY <1>7 DEF PushWecom, PushQQ
  <2>2. i \in Posts /\ posted[i].wanted /\ Counted(i)
    BY <1>a, <2>1 DEF Posts
  <2>3. PICK m \in 0 .. Len(posted) : Remembered(m)
    BY <2>1 DEF Window
  <2>4. pushes'[i] = IF i = n THEN pushes[i] + 1 ELSE pushes[i]
    BY <1>0, <2>1, <2>2 DEF PushTypes
  <2>5. CASE n \in Range(known)
    <3>1. pushes[n] > 0
      BY <2>1, <2>3, <2>5, FirstPush
    <3>2. pushes'[i] = 0 <=> pushes[i] = 0
      BY <1>0, <2>2, <2>4, <3>1
    <3>3. Times(i)' = Times(i) /\ UNCHANGED <<pusher, passed, frame, posted>>
      BY <2>1, <2>5 DEF Times
    <3> QED
      BY <2>1, <2>2, <3>2, <3>3 DEF Counted
  <2>6. CASE n \notin Range(known)
    <3>1. n = m + 1 /\ pushes[n] = 0
      BY <2>1, <2>3, <2>6, FirstPush
    <3>2. /\ Times(i) \in Nat /\ Times(i)' = Times(i) + IF i = n THEN 1 ELSE 0
          /\ passed' = passed \/ passed' = Append(passed, n)
      BY <2>1, <2>2, <2>6, PassOnFacts
    <3>3. Times(i) = IF pushes[i] = 0 THEN 0 ELSE 1
      BY <2>1, <2>2 DEF Counted
    <3>4. Times(i)' = IF pushes'[i] = 0 THEN 0 ELSE 1
      BY <1>0, <2>2, <2>4, <3>1, <3>2, <3>3
    <3>5. ASSUME pusher = "wecom", i \in Range(passed')
          PROVE  frame'[posted[i].chat] >= i
      <4>0. /\ \A c \in PushChats : frame[c] \in Nat
            /\ posted[i].chat \in PushChats /\ n \in Nat /\ i \in Nat /\ m \in Nat
        <5>1. \A c \in PushChats : frame[c] \in 0 .. Len(posted)
          BY DEF PushTypes
        <5>2. posted[i] \in PostRecord
          BY <2>2, PostFacts
        <5>3. posted[i].chat \in PushChats
          BY <5>2 DEF PostRecord
        <5> QED
          BY <1>0, <2>2, <5>1, <5>3
      <4>1. /\ frame' = frame \/ frame' = [frame EXCEPT ![posted[n].chat] = n]
            /\ ~posted[n].empty => frame' = [frame EXCEPT ![posted[n].chat] = n]
        BY <2>1, <2>6, <3>5
      <4>2. CASE i = n
        <5>1. ~posted[n].empty
          BY <2>2, <3>5, <4>2 DEF Handled
        <5>2. frame'[posted[i].chat] = n
          BY <4>0, <4>1, <4>2, <5>1 DEF PushTypes
        <5> QED
          BY <4>0, <4>2, <5>2
      <4>3. CASE i # n
        <5>1. Range(passed') \subseteq Range(passed) \cup {n}
          <6>1. /\ Len(Append(passed, n)) = Len(passed) + 1 /\ Len(passed) \in Nat
                /\ \A k \in 1 .. Len(passed) : Append(passed, n)[k] = passed[k]
                /\ Append(passed, n)[Len(passed) + 1] = n
                /\ Append(passed, n) \in Seq(Posts)
            BY <1>0, AppendFacts
          <6>2. /\ DOMAIN Append(passed, n) = 1 .. Len(passed) + 1
                /\ DOMAIN passed = 1 .. Len(passed)
            BY <1>0, <6>1, LenProperties
          <6>3. Range(Append(passed, n)) \subseteq Range(passed) \cup {n}
            BY <6>1, <6>2 DEF Range
          <6> QED
            BY <3>2, <6>3
        <5>2. i \in Range(passed)
          BY <3>5, <4>3, <5>1
        <5>3. frame[posted[i].chat] >= i
          BY <2>2, <3>5, <5>2 DEF Counted
        <5>4. i <= m
          <6>1. \A k \in 1 .. Len(passed) : passed[k] <= m
            BY <2>3 DEF Remembered
          <6> QED
            BY <5>2, <6>1, PostFacts
        <5>5. frame'[posted[i].chat] \in {n, frame[posted[i].chat]}
          BY <4>0, <4>1 DEF PushTypes
        <5> QED
          BY <3>1, <4>0, <5>3, <5>4, <5>5
      <4> QED
        BY <4>2, <4>3
    <3> QED
      BY <2>1, <3>4, <3>5 DEF Counted
  <2> QED
    BY <2>5, <2>6
<1> QED
  BY <1>1, <1>2, <1>3, <1>4, <1>5, <1>6, <1>7 DEF PushNext

\* The invariant of the channels that are pushed to holds of every behaviour.
THEOREM PushInvariant == PushSpec => []PushInv
<1>1. PushInit => PushInv
  <2> SUFFICES ASSUME PushInit PROVE PushInv
    OBVIOUS
  <2>0. /\ {MaxPosts, MaxPushes, MaxPushLives, KnownLimit} \subseteq Nat \ {0}
        /\ Len(<<>>) = 0 /\ \A S : <<>> \in Seq(S)
    BY PushAssumption, EmptySeq
  <2>1. /\ posted = <<>> /\ known = <<>> /\ passed = <<>> /\ wire = "off" /\ pushLives = 0
        /\ pushes = [i \in 1 .. MaxPosts |-> 0] /\ handling = [i \in 1 .. MaxPosts |-> 0]
        /\ frame = [c \in PushChats |-> 0] /\ pusher \in PushAdapters \cup {"none"}
    BY DEF PushInit, NothingKept
  <2>2. /\ pushes \in [1 .. MaxPosts -> 0 .. MaxPushes]
        /\ handling \in [1 .. MaxPosts -> 0 .. MaxPushes]
        /\ frame \in [PushChats -> 0 .. Len(posted)]
    BY <2>0, <2>1
  <2>3. PushTypes
    BY <2>0, <2>1, <2>2 DEF PushTypes
  <2>4. Posts = {} /\ \A i \in 1 .. MaxPosts : pushes[i] = 0 /\ handling[i] = 0
    BY <2>0, <2>1 DEF Posts
  <2>5. Handled /\ EachPushCounted
    BY <2>4 DEF Handled, EachPushCounted
  <2>6. Remembered(0) /\ 0 \in 0 .. Len(posted)
    BY <2>0, <2>1, <2>4 DEF Remembered
  <2> QED
    BY <2>3, <2>5, <2>6 DEF PushInv, Window
<1>2. PushInv /\ [PushNext]_pushVars => PushInv'
  <2> SUFFICES ASSUME PushInv, [PushNext]_pushVars PROVE PushInv'
    OBVIOUS
  <2>1. CASE PushNext
    BY <2>1, PushTypesStep, HandledStep, CountedStep, WindowStep DEF PushInv
  <2>2. CASE UNCHANGED pushVars
    BY <2>2 DEF PushInv, PushTypes, Handled, EachPushCounted, Times, Window, Remembered, Posts, pushVars
  <2> QED
    BY <2>1, <2>2
<1> QED
  BY <1>1, <1>2, PTL DEF PushSpec

\* Whatever the services push again and however the handlers overtake each other, pushes
\* and publications match, and a WeCom chat can be answered.
THEOREM PushesAreCounted == PushSpec => []EachPushCounted
BY PushInvariant, PTL DEF PushInv

\* What PushKeepsOrder takes for taken.
PushTaken ==
  IF pusher \notin {"wecom", "qq"} THEN <<>>
  ELSE [k \in DOMAIN passed |-> [chat |-> posted[passed[k]].chat, at |-> passed[k]]]

\* What a step does to what was published, and that a written message stays what it is.
LEMMA PassedSteps ==
  ASSUME PushTypes, PushNext
  PROVE  /\ pusher' = pusher
         /\ \/ passed' = <<>>
            \/ /\ \A i \in Posts : posted'[i] = posted[i]
               /\ passed' = passed \/ \E i \in Posts : passed' = Append(passed, i)
<1>1. CASE Post
  BY <1>1, AppendProperties DEF Post, PushTypes, Posts
<1>2. CASE StopPush
  BY <1>2, StopFacts
<1>3. CASE StartPush \/ Connect \/ Disconnect
  BY <1>3 DEF StartPush, Connect, Disconnect
<1>4. CASE \E i \in Posts : PushFeishu(i) \/ FinishFeishu(i) \/ PushDingTalk(i) \/ PushWecom(i) \/ PushQQ(i)
  <2>1. PICK i \in Posts : PushFeishu(i) \/ FinishFeishu(i) \/ PushDingTalk(i) \/ PushWecom(i) \/ PushQQ(i)
    BY <1>4
  <2>2. pusher' = pusher /\ posted' = posted /\ (passed' = passed \/ PassOn(i))
    BY <2>1 DEF PushFeishu, FinishFeishu, PushDingTalk, PushWecom, PushQQ
  <2> QED
    BY <2>2 DEF PassOn
<1> QED
  BY <1>1, <1>2, <1>3, <1>4 DEF PushNext

\* The same for what is taken from WeCom and QQ.
LEMMA PushStepIsInboxStep ==
  ASSUME PushInv, PushInv', [PushNext]_pushVars
  PROVE  [PushInbox!Take \/ PushInbox!Forget]_PushTaken
<1> DEFINE T == [chat : PushChats, at : Nat]
<1>1. /\ passed \in Seq(Posts) /\ Len(passed) \in Nat /\ DOMAIN passed = 1 .. Len(passed)
      /\ \A k \in 1 .. Len(passed) : passed[k] \in Nat /\ passed[k] \in Posts
                                   /\ posted[passed[k]].chat \in PushChats
  <2>1. PushTypes
    BY DEF PushInv
  <2>2. passed \in Seq(Posts) /\ Len(passed) \in Nat /\ DOMAIN passed = 1 .. Len(passed)
    BY <2>1, PostFacts, LenProperties DEF PushTypes
  <2>3. \A k \in 1 .. Len(passed) : passed[k] \in Posts
    BY <2>1, PostFacts
  <2>4. \A i \in Posts : i \in Nat /\ posted[i].chat \in PushChats
    BY <2>1, PostFacts DEF PostRecord
  <2> QED
    BY <2>2, <2>3, <2>4
<1>2. /\ passed' \in Seq(Posts') /\ Len(passed') \in Nat /\ DOMAIN passed' = 1 .. Len(passed')
      /\ \A k \in 1 .. Len(passed') : passed'[k] \in Nat /\ posted'[passed'[k]].chat \in PushChats
  <2>1. /\ passed' \in Seq(Posts') /\ posted' \in Seq(PostRecord)
    BY DEF PushInv, PushTypes
  <2>2. Len(passed') \in Nat /\ DOMAIN passed' = 1 .. Len(passed')
    BY <2>1, LenProperties
  <2>3. \A k \in 1 .. Len(passed') : passed'[k] \in Posts'
    BY <2>1, ElementOfSeq
  <2>4. \A i \in Posts' : i \in Nat /\ posted'[i].chat \in PushChats
    <3>1. \A i \in Posts' : i \in Nat /\ posted'[i] \in PostRecord
      BY <2>1, ElementOfSeq DEF Posts
    <3>2. \A r \in PostRecord : r.chat \in PushChats
      BY DEF PostRecord
    <3> QED
      BY <3>1, <3>2
  <2> QED
    BY <2>1, <2>2, <2>3, <2>4
<1>3. CASE pusher \notin {"wecom", "qq"} /\ pusher' = pusher
  BY <1>3 DEF PushTaken
<1>4. CASE PushNext /\ pusher \in {"wecom", "qq"}
  <2>0. pusher' = pusher
    BY <1>4, PassedSteps DEF PushInv
  <2>1. /\ PushTaken \in Seq(T) /\ Len(PushTaken) = Len(passed)
        /\ \A k \in 1 .. Len(passed) :
              PushTaken[k] = [chat |-> posted[passed[k]].chat, at |-> passed[k]]
    BY <1>1, <1>4, IsASeq DEF PushTaken
  <2>2. /\ PushTaken' \in Seq(T) /\ Len(PushTaken') = Len(passed')
        /\ \A k \in 1 .. Len(passed') :
              PushTaken'[k] = [chat |-> posted'[passed'[k]].chat, at |-> passed'[k]]
    BY <1>2, <1>4, <2>0, IsASeq DEF PushTaken
  <2>3. \A j, k \in 1 .. Len(passed') : j < k => passed'[j] < passed'[k]
    BY <1>4, <2>0 DEF PushInv, Window, Remembered
  <2>4. PushInbox!InChatOrder(PushTaken')
    <3>1. DOMAIN PushTaken' = 1 .. Len(passed')
      BY <2>2, LenProperties
    <3> QED
      BY <2>2, <2>3, <3>1 DEF PushInbox!InChatOrder
  <2>5. CASE passed' = <<>>
    <3>1. PushTaken' = <<>>
      BY <2>2, <2>5, EmptySeq
    <3> QED
      BY <3>1 DEF PushInbox!Forget, PushTaken
  <2>6. CASE /\ \A i \in Posts : posted'[i] = posted[i]
             /\ passed' = passed \/ \E i \in Posts : passed' = Append(passed, i)
    <3>1. /\ Len(passed) <= Len(passed')
          /\ \A k \in 1 .. Len(passed) : passed'[k] = passed[k] /\ k \in 1 .. Len(passed')
      BY <1>1, <2>6, AppendFacts
    <3>2. \A k \in 1 .. Len(PushTaken) : PushTaken'[k] = PushTaken[k]
      <4>1. ASSUME NEW k \in 1 .. Len(passed)
            PROVE  PushTaken'[k] = PushTaken[k]
        <5>1. /\ PushTaken'[k] = [chat |-> posted'[passed'[k]].chat, at |-> passed'[k]]
              /\ PushTaken[k] = [chat |-> posted[passed[k]].chat, at |-> passed[k]]
          BY <2>1, <2>2, <3>1
        <5>2. passed'[k] = passed[k] /\ posted'[passed[k]] = posted[passed[k]]
          BY <1>1, <2>6, <3>1
        <5> QED
          BY <5>1, <5>2
      <4> QED
        BY <2>1, <4>1
    <3>3. Len(PushTaken) <= Len(PushTaken')
      BY <2>1, <2>2, <3>1
    <3>4. IsPrefix(PushTaken, PushTaken')
      <4> HIDE DEF T
      <4> QED
        BY <2>1, <2>2, <3>2, <3>3, PrefixFacts
    <3> QED
      BY <2>4, <3>4 DEF PushInbox!Take, PushInbox!IsPrefix, IsPrefix, PushTaken
  <2> QED
    BY <1>4, <2>5, <2>6, PassedSteps DEF PushInv
<1>5. CASE UNCHANGED pushVars
  BY <1>5 DEF pushVars, PushTaken
<1> QED
  BY <1>3, <1>4, <1>5, PassedSteps DEF PushInv

\* In one life WeCom and QQ publish no message twice, and those of a chat in order.
THEOREM PushRefinesInbox == PushSpec => PushKeepsOrder
<1>1. PushInit => PushTaken = <<>>
  BY DEF PushInit, PushTaken
<1>2. PushInv /\ PushInv' /\ [PushNext]_pushVars
        => [PushInbox!Take \/ PushInbox!Forget]_PushTaken
  BY PushStepIsInboxStep
<1> QED
  BY <1>1, <1>2, PushInvariant, PTL
  DEF PushSpec, PushKeepsOrder, PushInbox!InboxSpec, PushInbox!InboxInit, PushTaken

-----------------------------------------------------------------------------
(* FeishuMedia *)

Stages == {"sent", "reacted", "fetching", "writing", "published", "dropped"}

MediaTypes ==
  /\ stage \in [FeishuMessages -> Stages]
  /\ names \in [FeishuMessages -> Seq(FileNames)]
  /\ stored \in [FeishuMessages -> Seq(MediaPaths \cup {Failed})]
  /\ path \in [FeishuMessages -> MediaPaths \cup {Failed}]
  /\ inbox \in [MediaPaths -> (FeishuMessages \X Nat) \cup {NoFile}]
  /\ raced \subseteq MediaPaths \X FeishuMessages

\* A message writes under its attachment's name, with the head of its id or without.
MayName(m, k) == {<<names[m][k], Plain>>, <<names[m][k], HeadOf[m]>>}

\* How far message m is.
Progress(m) ==
  /\ stage[m] \in {"sent", "reacted"} => names[m] = <<>>
  /\ Len(stored[m]) <= Len(names[m])
  /\ stage[m] = "published" => Len(stored[m]) = Len(names[m])
  /\ stage[m] = "dropped" => names[m] = <<>>
  /\ stage[m] # "writing" => path[m] = Failed
  /\ stage[m] = "writing" => /\ Len(stored[m]) < Len(names[m])
                             /\ path[m] \in MayName(m, Len(stored[m]) + 1)

\* What message m says of its attachments is true.
Said(m) ==
  \A k \in 1 .. Len(stored[m]) :
     stored[m][k] # Failed => /\ stored[m][k] \in MayName(m, k)
                              /\ Keeps(m, k, stored[m][k])

\* A race is known as one, when two threads have found a path free, and when one has
\* written before the other; and a thread with the longer name found the other taken.
Races ==
  /\ \A m, o \in FeishuMessages :
        m # o /\ path[m] # Failed /\ path[m] = path[o] => <<path[m], m>> \in raced
  /\ \A m \in FeishuMessages, n \in FileNames :
        path[m] = <<n, Plain>> /\ inbox[<<n, Plain>>] # NoFile =>
          {<<n, Plain>>} \X {m, inbox[<<n, Plain>>][1]} \subseteq raced
  /\ \A m \in FeishuMessages, n \in FileNames, h \in Heads :
        path[m] = <<n, h>> => inbox[<<n, Plain>>] # NoFile

\* Each file is what some message says is there.
FilesSaid ==
  \A p \in MediaPaths : \A m, k :
     inbox[p] = <<m, k>> =>
       m \in FeishuMessages /\ k \in 1 .. Len(stored[m]) /\ stored[m][k] = p

MediaInv ==
  /\ MediaTypes /\ Races /\ FilesSaid
  /\ \A m \in FeishuMessages : Progress(m) /\ Said(m)

-----------------------------------------------------------------------------
\* Paths, failures and files are told apart.
LEMMA PathFacts ==
  /\ Plain \notin Heads /\ \A m \in FeishuMessages : HeadOf[m] \in Heads
  /\ Failed \notin MediaPaths
  /\ \A m, k : NoFile # <<m, k>>
  /\ \A n \in FileNames : \A h \in Heads \cup {Plain} : <<n, h>> \in MediaPaths
  /\ \A p \in MediaPaths : \E n \in FileNames, h \in Heads \cup {Plain} : p = <<n, h>>
BY MediaAssumption DEF Heads, Failed, NoFile, MediaPaths

\* What the types say of one message.
LEMMA MessageFacts ==
  ASSUME MediaTypes, NEW m \in FeishuMessages
  PROVE  /\ names[m] \in Seq(FileNames) /\ Len(names[m]) \in Nat
         /\ stored[m] \in Seq(MediaPaths \cup {Failed}) /\ Len(stored[m]) \in Nat
         /\ DOMAIN stored[m] = 1 .. Len(stored[m])
         /\ \A k \in 1 .. Len(names[m]) : names[m][k] \in FileNames /\ MayName(m, k) \subseteq MediaPaths
<1>1. names[m] \in Seq(FileNames) /\ stored[m] \in Seq(MediaPaths \cup {Failed})
  BY DEF MediaTypes
<1>2. \A k \in 1 .. Len(names[m]) : names[m][k] \in FileNames
  BY <1>1, ElementOfSeq
<1>3. \A k \in 1 .. Len(names[m]) : MayName(m, k) \subseteq MediaPaths
  BY <1>2, PathFacts DEF MayName
<1> QED
  BY <1>1, <1>2, <1>3, LenProperties

\* What was true of a stored attachment stays so when other paths are written.
LEMMA KeepsStays ==
  ASSUME NEW m, NEW k, NEW p, Keeps(m, k, p), inbox'[p] = inbox[p], raced \subseteq raced',
         inbox[<<p[1], Plain>>] # NoFile => inbox'[<<p[1], Plain>>] # NoFile
  PROVE  Keeps(m, k, p)'
BY DEF Keeps

\* A message of which nothing new is said.
LEMMA SaidStays ==
  ASSUME MediaTypes, NEW m \in FeishuMessages, Said(m), stored'[m] = stored[m],
         names'[m] = names[m] \/ stored[m] = <<>>, inbox' = inbox, raced \subseteq raced'
  PROVE  Said(m)'
<1>1. CASE stored[m] = <<>>
  BY <1>1 DEF Said
<1>2. CASE names'[m] = names[m]
  <2>1. ASSUME NEW k \in 1 .. Len(stored'[m]), stored'[m][k] # Failed
        PROVE  stored'[m][k] \in MayName(m, k)' /\ Keeps(m, k, stored[m][k])'
    <3>1. stored[m][k] \in MayName(m, k) /\ Keeps(m, k, stored[m][k])
      BY <2>1 DEF Said
    <3>2. Keeps(m, k, stored[m][k])'
      BY <3>1 DEF Keeps
    <3> QED
      BY <1>2, <3>1, <3>2 DEF MayName
  <2> QED
    BY <2>1 DEF Said, Keeps
<1> QED
  BY <1>1, <1>2

\* A message that does not move, while others write no path.
LEMMA ProgressStays ==
  ASSUME NEW m \in FeishuMessages, Progress(m), stage'[m] = stage[m], names'[m] = names[m],
         stored'[m] = stored[m], path'[m] = path[m]
  PROVE  Progress(m)'
BY DEF Progress, MayName

\* Whatever kind a message is of, its handler finds a sequence of attachments.
LEMMA HandlerFacts ==
  ASSUME NEW a \in FeishuMessages,
         HandleText(a) \/ HandlePost(a) \/ HandleImage(a) \/ HandleFile(a) \/ HandleAudio(a)
  PROVE  \E text \in BOOLEAN, attached \in Seq(FileNames) : Handles(a, text, attached)
<1>0. <<>> \in Seq(FileNames) /\ \A n \in FileNames : <<n>> \in Seq(FileNames)
  BY EmptySeq
<1>1. CASE HandleText(a)
  BY <1>0, <1>1 DEF HandleText
<1>2. CASE HandlePost(a)
  <2>1. PICK post \in PostPayloads(a) : Handles(a, post.text, post.images)
    BY <1>2 DEF HandlePost
  <2>2. post.text \in BOOLEAN /\ \E n \in 0 .. MaxKeys[a] : post.images \in [1 .. n -> FileNames]
    BY <2>1 DEF PostPayloads
  <2>3. post.images \in Seq(FileNames)
    BY <2>2, MediaAssumption, IsASeq
  <2> QED
    BY <2>1, <2>2, <2>3
<1>3. CASE HandleImage(a) \/ HandleFile(a) \/ HandleAudio(a)
  BY <1>0, <1>3 DEF HandleImage, HandleFile, HandleAudio
<1> QED
  BY <1>1, <1>2, <1>3

\* The path that a thread chooses is one of its attachment's.
LEMMA ChoiceFacts ==
  ASSUME MediaTypes, NEW a \in FeishuMessages, Progress(a), ChoosePath(a)
  PROVE  /\ stage[a] = "fetching" /\ Len(stored[a]) < Len(names[a])
         /\ Choice(a) \in MayName(a, Len(stored[a]) + 1) /\ Choice(a) \in MediaPaths
         /\ \A n \in FileNames : Choice(a) = <<n, Plain>> => inbox[<<n, Plain>>] = NoFile
         /\ \A n \in FileNames, h \in Heads :
               Choice(a) = <<n, h>> => inbox[<<n, Plain>>] # NoFile
<1>1. stage[a] = "fetching" /\ Len(stored[a]) < Len(names[a])
  BY DEF ChoosePath, Fetching
<1>2. Len(stored[a]) + 1 \in 1 .. Len(names[a])
  BY <1>1, MessageFacts
<1>3. Choice(a) \in MayName(a, Len(stored[a]) + 1)
  BY DEF Choice, MayName, Next1
<1>4. Choice(a) \in MediaPaths
  BY <1>2, <1>3, MessageFacts
<1>5. \A n \in FileNames : Choice(a) = <<n, Plain>> => inbox[<<n, Plain>>] = NoFile
  BY PathFacts DEF Choice
<1>6. \A n \in FileNames, h \in Heads : Choice(a) = <<n, h>> => inbox[<<n, Plain>>] # NoFile
  BY PathFacts DEF Choice
<1> QED
  BY <1>1, <1>3, <1>4, <1>5, <1>6

\* Every step keeps the types.
LEMMA MediaTypesStep ==
  ASSUME MediaInv, MediaNext
  PROVE  MediaTypes'
<1>0. MediaTypes /\ \A m \in FeishuMessages : Progress(m)
  BY DEF MediaInv
<1>1. PICK a \in FeishuMessages :
         \/ React(a) \/ TurnDown(a)
         \/ HandleText(a) \/ HandlePost(a) \/ HandleImage(a) \/ HandleFile(a) \/ HandleAudio(a)
         \/ DownloadFails(a) \/ ChoosePath(a) \/ WriteMedia(a) \/ PublishMedia(a)
  BY DEF MediaNext
<1>2. stage' \in [FeishuMessages -> Stages]
  <2>1. \E x \in Stages : stage' = [stage EXCEPT ![a] = x]
    BY <1>1 DEF Stages, React, TurnDown, HandleText, HandlePost, HandleImage, HandleFile, HandleAudio,
                Handles, DownloadFails, ChoosePath, WriteMedia, PublishMedia
  <2> QED
    BY <1>0, <2>1 DEF MediaTypes
<1>3. names' \in [FeishuMessages -> Seq(FileNames)]
  <2>1. names' = names \/ \E s \in Seq(FileNames) : names' = [names EXCEPT ![a] = s]
    BY <1>1, HandlerFacts DEF Handles, React, TurnDown, DownloadFails, ChoosePath, WriteMedia, PublishMedia
  <2> QED
    BY <1>0, <2>1 DEF MediaTypes
<1>4. CASE DownloadFails(a)
  <2>1. Append(stored[a], Failed) \in Seq(MediaPaths \cup {Failed})
    BY <1>0, MessageFacts, AppendFacts
  <2>2. stored' \in [FeishuMessages -> Seq(MediaPaths \cup {Failed})]
    BY <1>0, <1>4, <2>1 DEF DownloadFails, MediaTypes
  <2>3. path' \in [FeishuMessages -> MediaPaths \cup {Failed}]
    BY <1>0, <1>4 DEF DownloadFails, MediaTypes
  <2> QED
    BY <1>0, <1>2, <1>3, <1>4, <2>2, <2>3 DEF DownloadFails, MediaTypes
<1>5. CASE ChoosePath(a)
  <2>1. Choice(a) \in MediaPaths
    BY <1>0, <1>5, ChoiceFacts
  <2>2. path' \in [FeishuMessages -> MediaPaths \cup {Failed}]
    BY <1>0, <1>5, <2>1 DEF ChoosePath, MediaTypes
  <2>3. raced' \subseteq MediaPaths \X FeishuMessages
    BY <1>0, <1>5, <2>1 DEF ChoosePath, MediaTypes
  <2> QED
    BY <1>0, <1>2, <1>3, <1>5, <2>2, <2>3 DEF ChoosePath, MediaTypes
<1>6. CASE WriteMedia(a)
  <2>0. stage[a] = "writing"
    BY <1>6 DEF WriteMedia
  <2>1. Len(stored[a]) + 1 \in 1 .. Len(names[a])
    BY <1>0, <2>0, MessageFacts DEF Progress
  <2>2. path[a] \in MediaPaths
    BY <1>0, <2>0, <2>1, MessageFacts DEF Progress
  <2>3. Append(stored[a], path[a]) \in Seq(MediaPaths \cup {Failed})
    BY <1>0, <2>2, MessageFacts, AppendFacts
  <2>4. stored' \in [FeishuMessages -> Seq(MediaPaths \cup {Failed})]
    BY <1>0, <1>6, <2>3 DEF WriteMedia, MediaTypes
  <2>5. path' \in [FeishuMessages -> MediaPaths \cup {Failed}]
    BY <1>0, <1>6 DEF WriteMedia, MediaTypes
  <2>6. <<a, Len(stored[a]) + 1>> \in FeishuMessages \X Nat
    BY <1>0, MessageFacts
  <2>7. inbox' \in [MediaPaths -> (FeishuMessages \X Nat) \cup {NoFile}]
    BY <1>0, <1>6, <2>6 DEF WriteMedia, MediaTypes
  <2> QED
    BY <1>0, <1>2, <1>3, <1>6, <2>4, <2>5, <2>7 DEF WriteMedia, MediaTypes
<1>7. CASE ~DownloadFails(a) /\ ~ChoosePath(a) /\ ~WriteMedia(a)
  <2>1. UNCHANGED <<stored, path, inbox, raced>>
    BY <1>1, <1>7, HandlerFacts DEF Handles, React, TurnDown, PublishMedia
  <2> QED
    BY <1>0, <1>2, <1>3, <2>1 DEF MediaTypes
<1> QED
  BY <1>4, <1>5, <1>6, <1>7

\* A message that does not act stays where it is, and says the same.
LEMMA OthersStay ==
  ASSUME MediaTypes, NEW a \in FeishuMessages, NEW m \in FeishuMessages, m # a,
         \/ React(a) \/ TurnDown(a)
         \/ HandleText(a) \/ HandlePost(a) \/ HandleImage(a) \/ HandleFile(a) \/ HandleAudio(a)
         \/ DownloadFails(a) \/ ChoosePath(a) \/ WriteMedia(a) \/ PublishMedia(a)
  PROVE  /\ stage'[m] = stage[m] /\ names'[m] = names[m]
         /\ stored'[m] = stored[m] /\ path'[m] = path[m]
<1>1. (\E x \in Stages : stage' = [stage EXCEPT ![a] = x]) /\ (names' = names \/ \E x : names' = [names EXCEPT ![a] = x])
  BY DEF Stages, React, TurnDown, HandleText, HandlePost, HandleImage, HandleFile, HandleAudio,
         Handles, DownloadFails, ChoosePath, WriteMedia, PublishMedia
<1>2. (stored' = stored \/ \E x : stored' = [stored EXCEPT ![a] = x]) /\ (path' = path \/ \E x : path' = [path EXCEPT ![a] = x])
  BY DEF React, TurnDown, HandleText, HandlePost, HandleImage, HandleFile, HandleAudio,
         Handles, DownloadFails, ChoosePath, WriteMedia, PublishMedia
<1> QED
  BY <1>1, <1>2 DEF MediaTypes

\* Every message stays in its bounds.
LEMMA ProgressStep ==
  ASSUME MediaInv, MediaNext, NEW m \in FeishuMessages
  PROVE  Progress(m)'
<1>0. MediaTypes /\ Progress(m)
  BY DEF MediaInv
<1>1. PICK a \in FeishuMessages :
         \/ React(a) \/ TurnDown(a)
         \/ HandleText(a) \/ HandlePost(a) \/ HandleImage(a) \/ HandleFile(a) \/ HandleAudio(a)
         \/ DownloadFails(a) \/ ChoosePath(a) \/ WriteMedia(a) \/ PublishMedia(a)
  BY DEF MediaNext
<1>2. CASE m # a
  BY <1>0, <1>1, <1>2, OthersStay, ProgressStays
<1>3. CASE m = a
  <2>0. /\ names[m] \in Seq(FileNames) /\ Len(names[m]) \in Nat
        /\ stored[m] \in Seq(MediaPaths \cup {Failed}) /\ Len(stored[m]) \in Nat
    BY <1>0, MessageFacts
  <2>1. CASE React(m) \/ TurnDown(m)
    <3>1. /\ stage[m] = "sent" /\ stage'[m] \in {"reacted", "dropped"}
          /\ UNCHANGED <<names, stored, path>>
      BY <1>0, <2>1 DEF React, TurnDown, MediaTypes
    <3> QED
      BY <1>0, <3>1 DEF Progress
  <2>2. CASE HandleText(m) \/ HandlePost(m) \/ HandleImage(m) \/ HandleFile(m) \/ HandleAudio(m)
    <3>1. PICK text \in BOOLEAN, attached \in Seq(FileNames) : Handles(m, text, attached)
      BY <2>2, HandlerFacts
    <3>2. /\ stage[m] = "reacted" /\ stage'[m] = "fetching" /\ names'[m] = attached
          /\ UNCHANGED <<stored, path>>
      BY <1>0, <3>1 DEF Handles, MediaTypes
    <3>3. Len(stored[m]) = 0 /\ Len(attached) \in Nat
      <4>1. names[m] = <<>>
        BY <1>0, <3>2 DEF Progress
      <4>2. Len(names[m]) = 0
        BY <4>1
      <4> QED
        BY <1>0, <2>0, <4>2, LenProperties DEF Progress
    <3> QED
      BY <1>0, <3>2, <3>3 DEF Progress
  <2>3. CASE DownloadFails(m)
    <3>1. /\ stage'[m] = "fetching" /\ path'[m] = Failed /\ names' = names
          /\ stored'[m] = Append(stored[m], Failed)
          /\ Len(stored[m]) < Len(names[m])
      BY <1>0, <2>3 DEF DownloadFails, Fetching, MediaTypes, Progress
    <3>2. Len(stored'[m]) = Len(stored[m]) + 1
      BY <2>0, <3>1, AppendFacts
    <3> QED
      BY <2>0, <3>1, <3>2 DEF Progress
  <2>4. CASE ChoosePath(m)
    <3>1. stage'[m] = "writing" /\ path'[m] = Choice(m) /\ UNCHANGED <<names, stored>>
      BY <1>0, <2>4 DEF ChoosePath, MediaTypes
    <3>2. Choice(m) \in MayName(m, Len(stored[m]) + 1) /\ Len(stored[m]) < Len(names[m])
      BY <1>0, <2>4, ChoiceFacts
    <3> QED
      BY <1>0, <3>1, <3>2 DEF Progress, MayName
  <2>5. CASE WriteMedia(m)
    <3>1. /\ stage'[m] = "fetching" /\ path'[m] = Failed /\ names' = names
          /\ stored'[m] = Append(stored[m], path[m])
          /\ Len(stored[m]) < Len(names[m])
      BY <1>0, <2>5 DEF WriteMedia, MediaTypes, Progress
    <3>2. Len(stored'[m]) = Len(stored[m]) + 1
      BY <2>0, <3>1, LenProperties, AppendProperties
    <3> QED
      BY <2>0, <3>1, <3>2 DEF Progress
  <2>6. CASE PublishMedia(m)
    <3>1. /\ stage[m] = "fetching" /\ ~(Len(stored[m]) < Len(names[m]))
          /\ stage'[m] \in {"published", "dropped"}
          /\ stage'[m] = "dropped" => stored[m] = <<>>
          /\ UNCHANGED <<names, stored, path>>
      BY <1>0, <2>6 DEF PublishMedia, Fetching, MediaTypes
    <3>2. Len(stored[m]) = Len(names[m])
      BY <1>0, <2>0, <3>1 DEF Progress
    <3>3. stored[m] = <<>> => names[m] = <<>>
      BY <2>0, <3>2, EmptySeq
    <3> QED
      BY <1>0, <3>1, <3>2, <3>3 DEF Progress
  <2> QED
    BY <1>1, <1>3, <2>1, <2>2, <2>3, <2>4, <2>5, <2>6
<1> QED
  BY <1>2, <1>3

\* What every message says stays true, or is known for a race.
LEMMA SaidStep ==
  ASSUME MediaInv, MediaNext, NEW m \in FeishuMessages
  PROVE  Said(m)'
<1>0. MediaTypes /\ Races /\ Said(m) /\ \A o \in FeishuMessages : Progress(o)
  BY DEF MediaInv
<1>1. PICK a \in FeishuMessages :
         \/ React(a) \/ TurnDown(a)
         \/ HandleText(a) \/ HandlePost(a) \/ HandleImage(a) \/ HandleFile(a) \/ HandleAudio(a)
         \/ DownloadFails(a) \/ ChoosePath(a) \/ WriteMedia(a) \/ PublishMedia(a)
  BY DEF MediaNext
<1>2. /\ stored[m] \in Seq(MediaPaths \cup {Failed}) /\ Len(stored[m]) \in Nat
      /\ Len(names[m]) \in Nat
  BY <1>0, MessageFacts
<1>3. CASE React(a) \/ TurnDown(a) \/ ChoosePath(a) \/ PublishMedia(a)
  <2>1. UNCHANGED <<stored, names, inbox>> /\ raced \subseteq raced'
    BY <1>3 DEF React, TurnDown, ChoosePath, PublishMedia
  <2> QED
    BY <1>0, <2>1, SaidStays
<1>4. CASE HandleText(a) \/ HandlePost(a) \/ HandleImage(a) \/ HandleFile(a) \/ HandleAudio(a)
  <2>1. PICK text \in BOOLEAN, attached \in Seq(FileNames) : Handles(a, text, attached)
    BY <1>4, HandlerFacts
  <2>2. UNCHANGED <<stored, inbox, raced>> /\ stage[a] = "reacted"
    BY <2>1 DEF Handles
  <2>3. CASE m = a
    <3>1. names[m] = <<>> /\ Len(stored[m]) <= Len(names[m])
      BY <1>0, <2>2, <2>3 DEF Progress
    <3>2. Len(names[m]) = 0
      BY <3>1
    <3>3. stored[m] = <<>>
      BY <1>2, <3>1, <3>2, EmptySeq
    <3> QED
      BY <1>0, <2>2, <3>3, SaidStays
  <2>4. CASE m # a
    BY <1>0, <1>4, <2>2, <2>4, OthersStay, SaidStays
  <2> QED
    BY <2>3, <2>4
<1>5. CASE DownloadFails(a)
  <2>0. UNCHANGED <<names, inbox, raced>>
    BY <1>5 DEF DownloadFails
  <2>1. CASE m # a
    BY <1>0, <1>5, <2>0, <2>1, OthersStay, SaidStays
  <2>2. CASE m = a
    <3>1. stored'[m] = Append(stored[m], Failed)
      BY <1>0, <1>5, <2>2 DEF DownloadFails, MediaTypes
    <3>2. /\ Len(stored'[m]) = Len(stored[m]) + 1 /\ stored'[m][Len(stored[m]) + 1] = Failed
          /\ \A k \in 1 .. Len(stored[m]) : stored'[m][k] = stored[m][k]
      BY <1>2, <3>1, AppendFacts
    <3>3. ASSUME NEW k \in 1 .. Len(stored'[m]), stored'[m][k] # Failed
          PROVE  stored'[m][k] \in MayName(m, k)' /\ Keeps(m, k, stored[m][k])' /\ stored'[m][k] = stored[m][k]
      <4>1. k \in 1 .. Len(stored[m]) /\ k \in Nat
        BY <1>2, <3>2, <3>3
      <4>2. stored[m][k] \in MayName(m, k) /\ Keeps(m, k, stored[m][k])
        BY <1>0, <3>2, <3>3, <4>1 DEF Said
      <4>3. PICK p : p = stored[m][k]
        OBVIOUS
      <4>4. Keeps(m, k, p)'
        BY <2>0, <4>2, <4>3 DEF Keeps
      <4>5. Keeps(m, k, stored[m][k])'
        BY <3>2, <4>1, <4>3, <4>4 DEF Keeps
      <4> QED
        BY <2>0, <3>2, <4>1, <4>2, <4>5 DEF MayName
    <3> QED
      BY <3>3 DEF Said, Keeps
  <2> QED
    BY <2>1, <2>2
<1>6. CASE WriteMedia(a)
  <2>0. /\ stage[a] = "writing" /\ UNCHANGED <<names, raced>>
        /\ stored' = [stored EXCEPT ![a] = Append(@, path[a])]
        /\ inbox' = [inbox EXCEPT ![path[a]] = <<a, Len(stored[a]) + 1>>]
    BY <1>6 DEF WriteMedia
  <2>1. /\ path[a] \in MayName(a, Len(stored[a]) + 1) /\ Len(stored[a]) < Len(names[a])
        /\ Len(stored[a]) \in Nat /\ Len(names[a]) \in Nat
    BY <1>0, <2>0, MessageFacts DEF Progress
  <2>2. names[a][Len(stored[a]) + 1] \in FileNames /\ path[a] \in MediaPaths /\ path[a] # Failed
    <3>1. Len(stored[a]) + 1 \in 1 .. Len(names[a])
      BY <2>1
    <3> QED
      BY <1>0, <2>1, <3>1, MessageFacts, PathFacts
  <2>3. /\ \A p \in MediaPaths : p # path[a] => inbox'[p] = inbox[p]
        /\ inbox'[path[a]] = <<a, Len(stored[a]) + 1>> /\ inbox'[path[a]] # NoFile
    BY <1>0, <2>0, <2>2, PathFacts DEF MediaTypes
  <2>4. /\ Len(stored'[m]) \in Nat /\ Len(stored[m]) <= Len(stored'[m])
        /\ \A j \in 1 .. Len(stored[m]) : stored'[m][j] = stored[m][j]
        /\ m # a => Len(stored'[m]) = Len(stored[m])
        /\ m = a => Len(stored'[m]) = Len(stored[m]) + 1 /\ stored'[m][Len(stored[m]) + 1] = path[a]
    <3>1. CASE m # a
      BY <1>0, <1>2, <2>0, <3>1 DEF MediaTypes
    <3>2. CASE m = a
      <4>1. stored'[m] = Append(stored[m], path[a])
        BY <1>0, <2>0, <3>2 DEF MediaTypes
      <4> QED
        BY <1>2, <2>2, <3>2, <4>1, AppendFacts
    <3> QED
      BY <3>1, <3>2
  <2>5. ASSUME NEW k \in 1 .. Len(stored[m]), stored[m][k] # Failed
        PROVE  Keeps(m, k, stored[m][k])'
    <3>1. PICK p \in MediaPaths : p = stored[m][k] /\ p \in MayName(m, k) /\ Keeps(m, k, p)
      <4>1. k \in 1 .. Len(names[m])
        BY <1>0, <1>2 DEF Progress
      <4> QED
        BY <1>0, <2>5, <4>1, MessageFacts DEF Said
    <3>2. PICK n \in FileNames, h \in Heads \cup {Plain} : p = <<n, h>>
      BY PathFacts
    <3>3. <<n, Plain>> \in MediaPaths
      BY PathFacts
    <3>4. inbox[<<n, Plain>>] # NoFile => inbox'[<<n, Plain>>] # NoFile
      BY <2>3, <3>3
    <3>5. Keeps(m, k, p)'
      <4>1. CASE p # path[a]
        <5>1. inbox'[p] = inbox[p] /\ raced \subseteq raced'
          BY <2>0, <2>3, <4>1
        <5> QED
          BY <3>1, <3>2, <3>4, <5>1, KeepsStays
      <4>2. CASE p = path[a] /\ h = Plain
        <5>1. inbox[p] # NoFile
          BY <3>1, PathFacts DEF Keeps
        <5>2. {p} \X {a, inbox[p][1]} \subseteq raced
          BY <1>0, <3>2, <4>2, <5>1 DEF Races
        <5>3. inbox[p] = <<m, k>> \/ <<p, m>> \in raced
          BY <3>1, <3>2, <4>2 DEF Keeps
        <5>4. {p} \X {m, a} \subseteq raced
          BY <5>2, <5>3
        <5> QED
          BY <2>0, <2>3, <3>2, <4>2, <5>4 DEF Keeps
      <4>3. CASE p = path[a] /\ h \in Heads
        <5>1. inbox'[<<n, Plain>>] # NoFile
          BY <1>0, <3>2, <3>4, <4>3 DEF Races
        <5>2. h = HeadOf[m] /\ h = HeadOf[a]
          BY <2>1, <3>1, <3>2, <4>3, PathFacts DEF MayName
        <5> QED
          BY <2>3, <3>2, <4>3, <5>1, <5>2, PathFacts DEF Keeps
      <4> QED
        BY <3>2, <4>1, <4>2, <4>3
    <3> QED
      BY <2>4, <3>1, <3>5 DEF Keeps
  <2>6. ASSUME NEW k \in 1 .. Len(stored'[m]), stored'[m][k] # Failed
        PROVE  stored'[m][k] \in MayName(m, k)' /\ Keeps(m, k, stored[m][k])'
    <3>1. CASE k \in 1 .. Len(stored[m])
      <4>1. stored[m][k] # Failed /\ stored'[m][k] = stored[m][k]
        BY <2>4, <2>6, <3>1
      <4>2. stored[m][k] \in MayName(m, k)
        BY <1>0, <3>1, <4>1 DEF Said
      <4> QED
        BY <2>0, <2>5, <3>1, <4>1, <4>2 DEF MayName
    <3>2. CASE k \notin 1 .. Len(stored[m])
      <4>1. m = a /\ k = Len(stored[m]) + 1 /\ stored'[m][k] = path[a]
        BY <1>2, <2>4, <3>2
      <4>2. stored'[m][k] \in MayName(m, k)'
        BY <2>0, <2>1, <4>1 DEF MayName
      <4>3. inbox'[stored'[m][k]] = <<m, k>>
        BY <2>3, <4>1
      <4> QED
        BY <4>2, <4>3 DEF Keeps
    <3> QED
      BY <3>1, <3>2
  <2> QED
    BY <2>6 DEF Said, Keeps
<1> QED
  BY <1>1, <1>3, <1>4, <1>5, <1>6

\* Two threads that found the same path free are known for it.
LEMMA RacesStep ==
  ASSUME MediaInv, MediaNext
  PROVE  Races'
<1>0. MediaTypes /\ Races /\ \A o \in FeishuMessages : Progress(o)
  BY DEF MediaInv
<1>1. PICK a \in FeishuMessages :
         \/ React(a) \/ TurnDown(a)
         \/ HandleText(a) \/ HandlePost(a) \/ HandleImage(a) \/ HandleFile(a) \/ HandleAudio(a)
         \/ DownloadFails(a) \/ ChoosePath(a) \/ WriteMedia(a) \/ PublishMedia(a)
  BY DEF MediaNext
<1>2. CASE DownloadFails(a)
  <2>1. UNCHANGED <<inbox, raced>> /\ \A m \in FeishuMessages : path'[m] = IF m = a THEN Failed ELSE path[m]
    BY <1>0, <1>2 DEF DownloadFails, MediaTypes
  <2> QED
    BY <1>0, <2>1, PathFacts DEF Races
<1>3. CASE ChoosePath(a)
  <2>1. /\ \A m \in FeishuMessages : path'[m] = IF m = a THEN Choice(a) ELSE path[m]
        /\ inbox' = inbox /\ raced \subseteq raced'
        /\ \A o \in FeishuMessages \ {a} :
              path[o] = Choice(a) => {Choice(a)} \X {o, a} \subseteq raced'
    BY <1>0, <1>3 DEF ChoosePath, MediaTypes
  <2>2. /\ \A n \in FileNames : Choice(a) = <<n, Plain>> => inbox[<<n, Plain>>] = NoFile
        /\ \A n \in FileNames, h \in Heads :
              Choice(a) = <<n, h>> => inbox[<<n, Plain>>] # NoFile
    BY <1>0, <1>3, ChoiceFacts
  <2>3. ASSUME NEW m \in FeishuMessages, NEW o \in FeishuMessages, m # o, path'[m] # Failed,
               path'[m] = path'[o]
        PROVE  <<path'[m], m>> \in raced'
    BY <1>0, <2>1, <2>3 DEF Races
  <2>4. ASSUME NEW m \in FeishuMessages, NEW n \in FileNames, path'[m] = <<n, Plain>>,
               inbox'[<<n, Plain>>] # NoFile
        PROVE  {<<n, Plain>>} \X {m, inbox'[<<n, Plain>>][1]} \subseteq raced'
    BY <1>0, <2>1, <2>2, <2>4 DEF Races
  <2>5. ASSUME NEW m \in FeishuMessages, NEW n \in FileNames, NEW h \in Heads,
               path'[m] = <<n, h>>
        PROVE  inbox'[<<n, Plain>>] # NoFile
    BY <1>0, <2>1, <2>2, <2>5 DEF Races
  <2> QED
    BY <2>3, <2>4, <2>5 DEF Races
<1>4. CASE WriteMedia(a)
  <2>1. /\ raced' = raced /\ stage[a] = "writing"
        /\ \A m \in FeishuMessages : path'[m] = IF m = a THEN Failed ELSE path[m]
        /\ \A p \in MediaPaths : inbox'[p] = IF p = path[a] THEN <<a, Len(stored[a]) + 1>>
                                              ELSE inbox[p]
    BY <1>0, <1>4 DEF WriteMedia, MediaTypes
  <2>2. ASSUME NEW m \in FeishuMessages, NEW o \in FeishuMessages, m # o, path'[m] # Failed,
               path'[m] = path'[o]
        PROVE  <<path'[m], m>> \in raced'
    BY <1>0, <2>1, <2>2 DEF Races
  <2>3. ASSUME NEW m \in FeishuMessages, NEW n \in FileNames, path'[m] = <<n, Plain>>,
               inbox'[<<n, Plain>>] # NoFile
        PROVE  {<<n, Plain>>} \X {m, inbox'[<<n, Plain>>][1]} \subseteq raced'
    <3>1. <<n, Plain>> \in MediaPaths /\ <<n, Plain>> # Failed
      BY PathFacts
    <3>2. m # a /\ path[m] = <<n, Plain>>
      BY <2>1, <2>3, <3>1
    <3>3. CASE path[a] = <<n, Plain>>
      BY <1>0, <2>1, <3>1, <3>2, <3>3 DEF Races
    <3>4. CASE path[a] # <<n, Plain>>
      BY <1>0, <2>1, <2>3, <3>1, <3>2, <3>4 DEF Races
    <3> QED
      BY <3>3, <3>4
  <2>4. ASSUME NEW m \in FeishuMessages, NEW n \in FileNames, NEW h \in Heads,
               path'[m] = <<n, h>>
        PROVE  inbox'[<<n, Plain>>] # NoFile
    <3>1. <<n, Plain>> \in MediaPaths /\ <<n, h>> # Failed
      BY PathFacts
    <3>2. m # a /\ path[m] = <<n, h>>
      BY <2>1, <2>4, <3>1
    <3> QED
      BY <1>0, <2>1, <3>1, <3>2, PathFacts DEF Races
  <2> QED
    BY <2>2, <2>3, <2>4 DEF Races
<1>5. CASE ~DownloadFails(a) /\ ~ChoosePath(a) /\ ~WriteMedia(a)
  <2>1. UNCHANGED <<path, inbox, raced>>
    BY <1>1, <1>5, HandlerFacts DEF Handles, React, TurnDown, PublishMedia
  <2> QED
    BY <1>0, <2>1 DEF Races
<1> QED
  BY <1>2, <1>3, <1>4, <1>5

\* A file stays what its message says, until another is written over it.
LEMMA FilesSaidStep ==
  ASSUME MediaInv, MediaNext
  PROVE  FilesSaid'
<1>0. MediaTypes /\ FilesSaid /\ \A o \in FeishuMessages : Progress(o)
  BY DEF MediaInv
<1>1. PICK a \in FeishuMessages :
         \/ React(a) \/ TurnDown(a)
         \/ HandleText(a) \/ HandlePost(a) \/ HandleImage(a) \/ HandleFile(a) \/ HandleAudio(a)
         \/ DownloadFails(a) \/ ChoosePath(a) \/ WriteMedia(a) \/ PublishMedia(a)
  BY DEF MediaNext
<1>2. ASSUME NEW x \in MediaPaths \cup {Failed}, stored' = [stored EXCEPT ![a] = Append(@, x)]
      PROVE  /\ \A m \in FeishuMessages : \A k \in 1 .. Len(stored[m]) :
                   k \in 1 .. Len(stored'[m]) /\ stored'[m][k] = stored[m][k]
             /\ Len(stored[a]) + 1 \in 1 .. Len(stored'[a])
             /\ stored'[a][Len(stored[a]) + 1] = x
  <2>1. stored[a] \in Seq(MediaPaths \cup {Failed}) /\ stored'[a] = Append(stored[a], x)
    BY <1>0, <1>2 DEF MediaTypes
  <2>2. \A m \in FeishuMessages \ {a} : stored'[m] = stored[m]
    BY <1>0, <1>2 DEF MediaTypes
  <2>3. /\ Len(stored[a]) \in Nat /\ Len(stored'[a]) = Len(stored[a]) + 1
        /\ \A k \in 1 .. Len(stored[a]) : stored'[a][k] = stored[a][k]
        /\ stored'[a][Len(stored[a]) + 1] = x
    BY <2>1, AppendFacts
  <2> QED
    BY <2>2, <2>3
<1>3. CASE DownloadFails(a)
  <2>1. stored' = [stored EXCEPT ![a] = Append(@, Failed)] /\ inbox' = inbox
    BY <1>3 DEF DownloadFails
  <2> QED
    BY <1>0, <1>2, <2>1 DEF FilesSaid
<1>4. CASE WriteMedia(a)
  <2>1. path[a] \in MediaPaths
    <3>1. /\ path[a] \in MayName(a, Len(stored[a]) + 1)
          /\ Len(stored[a]) + 1 \in 1 .. Len(names[a])
      BY <1>0, <1>4, MessageFacts DEF WriteMedia, Progress
    <3> QED
      BY <1>0, <3>1, MessageFacts
  <2>2. /\ stored' = [stored EXCEPT ![a] = Append(@, path[a])]
        /\ \A p \in MediaPaths : inbox'[p] = IF p = path[a] THEN <<a, Len(stored[a]) + 1>>
                                              ELSE inbox[p]
    BY <1>0, <1>4 DEF WriteMedia, MediaTypes
  <2>3. ASSUME NEW p \in MediaPaths, NEW m, NEW k, inbox'[p] = <<m, k>>
        PROVE  m \in FeishuMessages /\ k \in 1 .. Len(stored'[m]) /\ stored'[m][k] = p
    <3>1. CASE p = path[a]
      <4>1. m = a /\ k = Len(stored[a]) + 1
        BY <2>2, <2>3, <3>1
      <4> QED
        BY <1>2, <2>1, <2>2, <3>1, <4>1
    <3>2. CASE p # path[a]
      <4>1. m \in FeishuMessages /\ k \in 1 .. Len(stored[m]) /\ stored[m][k] = p
        BY <1>0, <2>2, <2>3, <3>2 DEF FilesSaid
      <4> QED
        BY <1>2, <2>1, <2>2, <4>1
    <3> QED
      BY <3>1, <3>2
  <2> QED
    BY <2>3 DEF FilesSaid
<1>5. CASE ~DownloadFails(a) /\ ~WriteMedia(a)
  <2>1. UNCHANGED <<stored, inbox>>
    BY <1>1, <1>5, HandlerFacts DEF Handles, React, TurnDown, ChoosePath, PublishMedia
  <2> QED
    BY <1>0, <2>1 DEF FilesSaid
<1> QED
  BY <1>3, <1>4, <1>5

\* The invariant of the messages with attachments holds of every behaviour.
THEOREM MediaInvariant == MediaSpec => []MediaInv
<1>1. MediaInit => MediaInv
  <2> SUFFICES ASSUME MediaInit PROVE MediaInv
    OBVIOUS
  <2>1. MediaTypes
    <3>1. \A S : <<>> \in Seq(S)
      BY EmptySeq
    <3> QED
      BY <3>1 DEF MediaInit, MediaTypes, Stages
  <2>2. Races /\ FilesSaid
    <3>0. \A p \in MediaPaths : inbox[p] = NoFile
      BY DEF MediaInit
    <3>1. \A n \in FileNames, h \in Heads \cup {Plain} : Failed # <<n, h>>
      BY PathFacts
    <3>2. \A m \in FeishuMessages : path[m] = Failed
      BY DEF MediaInit
    <3> QED
      BY <3>0, <3>1, <3>2, PathFacts DEF Races, FilesSaid
  <2>3. ASSUME NEW m \in FeishuMessages PROVE Progress(m) /\ Said(m)
    <3>1. stage[m] = "sent" /\ names[m] = <<>> /\ stored[m] = <<>> /\ path[m] = Failed /\ Len(<<>>) = 0
      BY DEF MediaInit
    <3> QED
      BY <3>1 DEF Progress, Said
  <2> QED
    BY <2>1, <2>2, <2>3 DEF MediaInv
<1>2. MediaInv /\ [MediaNext]_mediaVars => MediaInv'
  <2> SUFFICES ASSUME MediaInv, [MediaNext]_mediaVars PROVE MediaInv'
    OBVIOUS
  <2>1. CASE MediaNext
    BY <2>1, MediaTypesStep, RacesStep, FilesSaidStep, ProgressStep, SaidStep DEF MediaInv
  <2>2. CASE UNCHANGED mediaVars
    BY <2>2 DEF MediaInv, MediaTypes, Races, FilesSaid, Progress, Said, MayName, Keeps, mediaVars
  <2> QED
    BY <2>1, <2>2
<1> QED
  BY <1>1, <1>2, PTL DEF MediaSpec

\* A message that is published says of each attachment where it is, and there it is
\* still, however the downloads of other messages come between: the exceptions are two
\* threads that found the name free at the same time, and third files of a name of
\* messages whose ids begin alike.  Whatever is in a file is what some message says.
THEOREM AttachmentsAreKept == MediaSpec => []AttachmentsKept
<1>1. MediaInv => AttachmentsKept
  <2> SUFFICES ASSUME MediaInv PROVE AttachmentsKept
    OBVIOUS
  <2>1. ASSUME NEW m \in FeishuMessages
        PROVE  /\ stage[m] = "published" => Len(stored[m]) = Len(names[m])
               /\ stage[m] = "dropped" => names[m] = <<>>
               /\ \A k \in DOMAIN stored[m] :
                     stored[m][k] # Failed =>
                        stored[m][k][1] = names[m][k] /\ Keeps(m, k, stored[m][k])
    <3>1. Progress(m) /\ Said(m) /\ DOMAIN stored[m] = 1 .. Len(stored[m])
      BY MessageFacts DEF MediaInv
    <3>2. \A k, p : p \in MayName(m, k) => p[1] = names[m][k]
      BY DEF MayName
    <3> QED
      BY <3>1, <3>2 DEF Progress, Said
  <2>2. ASSUME NEW p \in MediaPaths, inbox[p] # NoFile
        PROVE  stored[inbox[p][1]][inbox[p][2]] = p
    <3>0. inbox \in [MediaPaths -> (FeishuMessages \X Nat) \cup {NoFile}]
      BY DEF MediaInv, MediaTypes
    <3>1. PICK m \in FeishuMessages, k \in Nat : inbox[p] = <<m, k>>
      <4>1. inbox[p] \in FeishuMessages \X Nat
        BY <2>2, <3>0
      <4> QED
        BY <4>1
    <3>2. FilesSaid
      BY DEF MediaInv
    <3>3. stored[m][k] = p
      BY <3>1, <3>2 DEF FilesSaid
    <3>4. inbox[p][1] = m /\ inbox[p][2] = k
      BY <3>1
    <3> QED
      BY <3>3, <3>4
  <2> QED
    BY <2>1, <2>2 DEF AttachmentsKept
<1> QED
  BY <1>1, MediaInvariant, PTL

-----------------------------------------------------------------------------
(* ChannelSend *)

SendPart == [what : {"file", "notice", "text"}, nr : 1 .. MaxFiles + MaxChunks + 1]
Deltas == 1 .. MaxDeltas

SendTypes ==
  /\ sender \in Senders \cup {"none"} /\ token \in BOOLEAN
  /\ message \in Seq(SendPart) /\ left \in Seq(SendPart) /\ shown \in Seq(SendPart)
  /\ failed \subseteq SendPart
  /\ spoken \in 0 .. MaxDeltas
  /\ stream \in [open : BOOLEAN, id : BOOLEAN, buffer : Seq(Deltas), sent : Seq(Deltas)]
  /\ finished \in [patched : BOOLEAN, buffer : Seq(Deltas), sent : Seq(Deltas)]

OnlyFilesFailed == \A p \in failed : p.what = "file"
NoFileLeft == \A k \in 1 .. Len(left) : left[k].what # "file"

\* The texts shown and left are in order, and those of the message unless one failed.
TextsWhole ==
  /\ TextsInOrder(shown) /\ TextsInOrder(left)
  /\ \A j \in 1 .. Len(shown), k \in 1 .. Len(left) :
        shown[j].what = "text" /\ left[k].what = "text" => shown[j].nr < left[k].nr
  /\ OnlyFilesFailed => Texts(shown) \cup Texts(left) = Texts(message)

\* WeChat: of a file the message has, the file or a notice is shown or left.
FilesAccounted ==
  sender = "weixin" /\ OnlyFilesFailed =>
     \A n \in 1 .. MaxFiles :
        File(n) \in Range(message) =>
           \/ File(n) \in Range(shown) \cup Range(left)
           \/ Notice(n) \in Range(shown) \cup Range(left)

\* The channels that send one part, and Feishu, which falls back once.
OnePart == sender \in PlainSenders => NoFileLeft
Fallback ==
  sender = "feishu" =>
     /\ message \in {<<>>, <<Text(1)>>, <<File(1)>>, <<File(1), Text(1)>>}
     /\ left # <<>> => message # <<>>
     /\ left # <<>> /\ failed = {} =>
           \/ left = message /\ shown = <<>>
           \/ message = <<File(1), Text(1)>> /\ shown = <<File(1)>> /\ left = <<Text(1)>>
     /\ failed # {} => NoFileLeft

\* A stream's message shows a beginning of what it is to show.
StreamWhole ==
  /\ stream.open => /\ stream.buffer # <<>> /\ Contiguous(stream.buffer)
                    /\ Last(stream.buffer) = spoken /\ IsPrefix(stream.sent, stream.buffer)
  /\ Contiguous(finished.buffer) /\ IsPrefix(finished.sent, finished.buffer)
  /\ finished.patched => finished.sent = finished.buffer

SendInv ==
  SendTypes /\ TextsWhole /\ FilesAccounted /\ OnePart /\ Fallback /\ StreamWhole

\* Parts are parts of a message.
LEMMA PartFacts ==
  /\ \A n \in 1 .. MaxFiles + MaxChunks + 1 : {File(n), Notice(n), Text(n)} \subseteq SendPart
  /\ 1 \in 1 .. MaxFiles + MaxChunks + 1
  /\ 1 .. MaxFiles \subseteq 1 .. MaxFiles + MaxChunks + 1
  /\ 1 .. MaxChunks \subseteq 1 .. MaxFiles + MaxChunks + 1
<1>1. MaxFiles \in Nat /\ MaxChunks \in Nat
  BY SendAssumption DEF SendAssumption
<1> QED
  BY <1>1 DEF SendPart, File, Notice, Text

\* The files and chunks of an answer, and where they are in it.
LEMMA ListFacts ==
  ASSUME NEW f \in 0 .. MaxFiles, NEW c \in 0 .. MaxChunks
  PROVE  LET s == Files(f) \o Chunks(c)
         IN s \in Seq(SendPart) /\ TextsInOrder(s)
<1>1. f \in Nat /\ c \in Nat /\ MaxFiles \in Nat /\ MaxChunks \in Nat
  BY SendAssumption DEF SendAssumption
<1>2. /\ Files(f) \in Seq(SendPart) /\ Len(Files(f)) = f
      /\ \A k \in 1 .. f : Files(f)[k] = File(k)
  <2>1. \A k \in 1 .. f : File(k) \in SendPart
    BY <1>1, PartFacts
  <2> QED
    BY <1>1, <2>1 DEF Files
<1>3. /\ Chunks(c) \in Seq(SendPart) /\ Len(Chunks(c)) = c
      /\ \A k \in 1 .. c : Chunks(c)[k] = Text(k)
  <2>1. \A k \in 1 .. c : Text(k) \in SendPart
    BY <1>1, PartFacts
  <2> QED
    BY <1>1, <2>1 DEF Chunks
<1> DEFINE s == Files(f) \o Chunks(c)
<1>4. /\ s \in Seq(SendPart) /\ Len(s) = f + c
      /\ \A k \in 1 .. f + c : s[k] = IF k <= f THEN File(k) ELSE Text(k - f)
  <2>1. /\ s \in Seq(SendPart) /\ Len(s) = f + c
        /\ \A k \in 1 .. f + c : s[k] = IF k <= f THEN Files(f)[k] ELSE Chunks(c)[k - f]
    BY <1>2, <1>3, ConcatProperties
  <2>2. ASSUME NEW k \in 1 .. f + c PROVE s[k] = IF k <= f THEN File(k) ELSE Text(k - f)
    <3>1. CASE k <= f
      BY <1>1, <1>2, <2>1, <3>1
    <3>2. CASE ~(k <= f)
      <4>1. k - f \in 1 .. c
        BY <1>1, <3>2
      <4> QED
        BY <1>3, <2>1, <3>2, <4>1
    <3> QED
      BY <3>1, <3>2
  <2> QED
    BY <2>1, <2>2
<1> HIDE DEF s
<1>5. ASSUME NEW j \in 1 .. f + c, NEW k \in 1 .. f + c,
             j < k, s[j].what = "text", s[k].what = "text"
      PROVE  s[j].nr < s[k].nr
  <2>1. s[j] = Text(j - f) /\ s[k] = Text(k - f)
    BY <1>4, <1>5 DEF File
  <2> QED
    BY <1>1, <1>5, <2>1 DEF Text
<1>6. DOMAIN s = 1 .. f + c
  BY <1>4, LenProperties
<1> QED
  BY <1>4, <1>5, <1>6 DEF TextsInOrder, s

\* What a channel makes of the message it is handed.
LEMMA PartsFacts ==
  ASSUME NEW m \in Handed, sender \in Senders
  PROVE  /\ Parts(m) \in Seq(SendPart) /\ TextsInOrder(Parts(m))
         /\ sender \in PlainSenders => Parts(m) \in {<<>>, <<Text(1)>>}
         /\ sender = "feishu" => Parts(m) \in {<<Text(1)>>, <<File(1)>>, <<File(1), Text(1)>>}
<1>1. sender \in PlainSenders \cup {"weixin", "feishu"}
  BY SendAssumption DEF SendAssumption
<1>2. /\ <<>> \in Seq(SendPart) /\ <<Text(1)>> \in Seq(SendPart)
      /\ <<File(1)>> \in Seq(SendPart) /\ <<File(1), Text(1)>> \in Seq(SendPart)
  BY PartFacts
<1>3. /\ TextsInOrder(<<>>) /\ TextsInOrder(<<Text(1)>>) /\ TextsInOrder(<<File(1)>>)
      /\ TextsInOrder(<<File(1), Text(1)>>)
  BY DEF TextsInOrder, Text, File
<1>4. CASE sender \in PlainSenders
  <2>1. Parts(m) \in {<<>>, <<Text(1)>>}
    BY <1>4 DEF PlainSenders, Parts, TelegramParts, SlackParts, DiscordParts, QQParts,
                DingTalkParts, EmailParts, WecomParts
  <2>2. sender # "feishu"
    BY <1>4 DEF PlainSenders
  <2> QED
    BY <1>2, <1>3, <2>1, <2>2
<1>5. CASE sender = "weixin"
  <2>1. Parts(m) = WeixinParts(m)
    BY <1>5 DEF Parts
  <2>2. m.files \in 0 .. MaxFiles /\ m.chunks \in 0 .. MaxChunks
    BY DEF Handed
  <2>3. Parts(m) \in Seq(SendPart) /\ TextsInOrder(Parts(m))
    BY <1>2, <1>3, <2>1, <2>2, ListFacts DEF WeixinParts
  <2> QED
    BY <1>5, <2>3 DEF PlainSenders
<1>6. CASE sender = "feishu"
  <2>1. Parts(m) = FeishuParts(m)
    BY <1>6 DEF Parts
  <2>2. Parts(m) \in {<<Text(1)>>, <<File(1)>>, <<File(1), Text(1)>>}
    <3>1. <<File(1)>> \o <<Text(1)>> = <<File(1), Text(1)>> /\ <<File(1)>> \o <<>> = <<File(1)>>
      <4>1. <<File(1)>> \in Seq(SendPart) /\ Text(1) \in SendPart
        BY <1>2, PartFacts
      <4>2. Append(<<File(1)>>, Text(1)) = <<File(1)>> \o <<Text(1)>>
        BY <4>1, AppendIsConcat
      <4>3. Append(<<File(1)>>, Text(1)) = <<File(1), Text(1)>>
        <5>1. <<File(1), Text(1)>> \in Seq(SendPart) /\ Append(<<File(1)>>, Text(1)) \in Seq(SendPart)
          BY <1>2, <4>1, AppendFacts
        <5>2. /\ Len(Append(<<File(1)>>, Text(1))) = 2
              /\ Append(<<File(1)>>, Text(1))[1] = File(1)
              /\ Append(<<File(1)>>, Text(1))[2] = Text(1)
          BY <4>1, AppendFacts
        <5> QED
          <6>1. /\ Len(<<File(1), Text(1)>>) = 2
                /\ <<File(1), Text(1)>>[1] = File(1) /\ <<File(1), Text(1)>>[2] = Text(1)
            OBVIOUS
          <6>2. \A k \in 1 .. 2 : k = 1 \/ k = 2
            OBVIOUS
          <6> QED
            BY <5>1, <5>2, <6>1, <6>2, SeqEqual
      <4> QED
        BY <4>1, <4>2, <4>3, ConcatEmptySeq
    <3> QED
      BY <2>1, <3>1 DEF FeishuParts
  <2> QED
    BY <1>2, <1>3, <1>6, <2>2 DEF PlainSenders
<1> QED
  BY <1>1, <1>4, <1>5, <1>6

\* A step leaves the message in hand alone, takes the next one, has a part of it
\* accepted or has one fail.
Fresh ==
  /\ sender \in Senders /\ UNCHANGED sender
  /\ left' = message' /\ shown' = <<>> /\ failed' = {}
  /\ message' \in Seq(SendPart) /\ TextsInOrder(message')
  /\ sender \in PlainSenders => message' \in {<<>>, <<Text(1)>>}
  /\ sender = "feishu" => message' \in {<<Text(1)>>, <<File(1)>>, <<File(1), Text(1)>>}

LEMMA SendSteps ==
  ASSUME SendTypes, [SendNext]_sendVars
  PROVE  \/ UNCHANGED <<sender, message, left, shown, failed>>
         \/ Fresh
         \/ Accepted
         \/ WeixinFileRaises \/ WeixinTextRaises \/ WeixinTextRefused
         \/ FeishuMediaRaises \/ FeishuTextRaises \/ PlainRaises
<1>1. CASE Dispatch
  <2>1. PICK m \in Handed : message' = Parts(m)
    BY <1>1 DEF Dispatch
  <2>2. sender \in Senders
    BY <1>1 DEF Dispatch, SendTypes
  <2> QED
    BY <1>1, <2>1, <2>2, PartsFacts DEF Dispatch, Fresh
<1>2. CASE PlainDelta
  <2>1. sender \in Senders /\ sender # "feishu"
    BY <1>2 DEF PlainDelta, SendTypes
  <2>2. <<Text(1)>> \in Seq(SendPart) /\ TextsInOrder(<<Text(1)>>)
    BY PartFacts DEF TextsInOrder, Text
  <2> QED
    BY <1>2, <2>1, <2>2 DEF PlainDelta, Fresh
<1> QED
  BY <1>1, <1>2
  DEF SendNext, sendVars, wholeVars, FetchToken, TokenExpires, FirstDelta, NextDelta, EndStream

\* What a part that fails leaves: nothing, the rest, or something in its place.
LEMMA RaisesFacts ==
  ASSUME SendTypes, WeixinFileRaises \/ WeixinTextRaises \/ WeixinTextRefused
                    \/ FeishuMediaRaises \/ FeishuTextRaises \/ PlainRaises
  PROVE  /\ left # <<>> /\ UNCHANGED <<sender, message, shown>>
         /\ failed' = failed \cup {Head(left)}
         /\ left' \in Seq(SendPart)
<1>1. left # <<>> /\ left \in Seq(SendPart)
  BY DEF SendTypes, WeixinFileRaises, WeixinTextRaises, WeixinTextRefused, FeishuMediaRaises,
         FeishuTextRaises, PlainRaises
<1>2. Tail(left) \in Seq(SendPart) /\ Head(left) \in SendPart
  BY <1>1, TailFacts
<1>3. Notice(Head(left).nr) \in SendPart
  BY <1>2 DEF SendPart, Notice
<1>4. <<Notice(Head(left).nr)>> \o Tail(left) \in Seq(SendPart)
  BY <1>2, <1>3, ConcatProperties
<1>5. <<>> \in Seq(SendPart) /\ <<Text(1)>> \in Seq(SendPart) /\ <<Notice(1)>> \in Seq(SendPart)
  BY PartFacts
<1> QED
  BY <1>1, <1>2, <1>4, <1>5
  DEF WeixinFileRaises, WeixinTextRaises, WeixinTextRefused, FeishuMediaRaises,
      FeishuTextRaises, PlainRaises, Raises

\* The stream of a chat is left alone, begins, grows, or ends and is gone.
Begins ==
  /\ ~stream.open /\ spoken' = spoken + 1 /\ spoken' \in Deltas /\ finished' = finished
  /\ stream' = NoStream \/ \E id \in BOOLEAN :
        stream' = [open |-> TRUE, id |-> id, buffer |-> <<spoken'>>, sent |-> <<spoken'>>]
Grows ==
  /\ stream.open /\ spoken' = spoken + 1 /\ spoken' \in Deltas /\ finished' = finished
  /\ stream'.open = TRUE /\ stream'.id = stream.id
  /\ stream' \in [open : BOOLEAN, id : BOOLEAN, buffer : Seq(Deltas), sent : Seq(Deltas)]
  /\ stream'.buffer = Append(stream.buffer, spoken')
  /\ stream'.sent \in {stream.sent, stream'.buffer}
Ends ==
  /\ stream' = NoStream /\ spoken' = 0
  /\ finished' = finished \/ /\ stream.open
                             /\ \E sent \in {stream.sent, stream.buffer} :
                                   finished' = [patched |-> sent = stream.buffer,
                                                buffer |-> stream.buffer, sent |-> sent]

LEMMA StreamSteps ==
  ASSUME SendTypes, [SendNext]_sendVars
  PROVE  \/ UNCHANGED <<stream, spoken, finished>>
         \/ Begins \/ Grows \/ Ends
<1>0. MaxDeltas \in Nat /\ spoken \in 0 .. MaxDeltas
      /\ stream \in [open : BOOLEAN, id : BOOLEAN, buffer : Seq(Deltas), sent : Seq(Deltas)]
  BY SendAssumption DEF SendAssumption, SendTypes
<1>1. CASE FirstDelta
  <2>1. spoken' = spoken + 1 /\ spoken' \in Deltas /\ ~stream.open /\ finished' = finished
    BY <1>0, <1>1 DEF FirstDelta, Deltas
  <2> QED
    BY <1>1, <2>1 DEF FirstDelta, Begins
<1>2. CASE NextDelta
  <2> DEFINE longer == [stream EXCEPT !.buffer = Append(@, spoken')]
  <2>1. spoken' = spoken + 1 /\ spoken' \in Deltas /\ stream.open /\ finished' = finished
    BY <1>0, <1>2 DEF NextDelta, Deltas
  <2>2. stream' \in {longer, [longer EXCEPT !.sent = longer.buffer]}
    BY <1>2 DEF NextDelta, Flushed
  <2>3. /\ longer.open = stream.open /\ longer.id = stream.id /\ longer.sent = stream.sent
        /\ longer.buffer = Append(stream.buffer, spoken')
        /\ [longer EXCEPT !.sent = longer.buffer].open = stream.open
        /\ [longer EXCEPT !.sent = longer.buffer].id = stream.id
        /\ [longer EXCEPT !.sent = longer.buffer].sent = longer.buffer
        /\ [longer EXCEPT !.sent = longer.buffer].buffer = longer.buffer
    BY <1>0
  <2>6. /\ longer \in [open : BOOLEAN, id : BOOLEAN, buffer : Seq(Deltas), sent : Seq(Deltas)]
        /\ [longer EXCEPT !.sent = longer.buffer]
              \in [open : BOOLEAN, id : BOOLEAN, buffer : Seq(Deltas), sent : Seq(Deltas)]
    <3>1. Append(stream.buffer, spoken') \in Seq(Deltas)
      BY <1>0, <2>1, AppendFacts
    <3>2. longer = [stream EXCEPT !.buffer = Append(stream.buffer, spoken')]
      OBVIOUS
    <3> QED
      BY <1>0, <3>1, <3>2
  <2> HIDE DEF longer
  <2>4. /\ stream'.open = stream.open /\ stream'.id = stream.id
        /\ stream' \in [open : BOOLEAN, id : BOOLEAN, buffer : Seq(Deltas), sent : Seq(Deltas)]
        /\ stream'.buffer = Append(stream.buffer, spoken')
        /\ stream'.sent \in {stream.sent, stream'.buffer}
    BY <2>2, <2>3, <2>6
  <2>5. stream.open = TRUE
    BY <1>0, <2>1
  <2> QED
    BY <2>1, <2>4, <2>5 DEF Grows
<1>3. CASE EndStream
  <2>1. stream' = NoStream /\ spoken' = 0
    BY <1>3 DEF EndStream
  <2>2. CASE stream.open
    <3>1. PICK s \in Flushed(stream) :
             finished' = [patched |-> s.sent = s.buffer, buffer |-> s.buffer, sent |-> s.sent]
      BY <1>3, <2>2 DEF EndStream
    <3>2. s.buffer = stream.buffer /\ s.sent \in {stream.sent, stream.buffer}
      BY <1>0, <3>1 DEF Flushed
    <3> QED
      BY <2>1, <2>2, <3>1, <3>2 DEF Ends
  <2>3. CASE ~stream.open
    BY <1>3, <2>1, <2>3 DEF EndStream, Ends
  <2> QED
    BY <2>2, <2>3
<1> QED
  BY <1>1, <1>2, <1>3
  DEF SendNext, sendVars, streamVars, Dispatch, FetchToken, TokenExpires, Accepted, Raises,
      WeixinFileRaises, WeixinTextRaises, WeixinTextRefused, FeishuMediaRaises,
      FeishuTextRaises, PlainRaises, PlainDelta

\* Steps keep the types of the streams.
LEMMA StreamTypesStep ==
  ASSUME SendTypes, [SendNext]_sendVars
  PROVE  /\ stream' \in [open : BOOLEAN, id : BOOLEAN, buffer : Seq(Deltas), sent : Seq(Deltas)]
         /\ finished' \in [patched : BOOLEAN, buffer : Seq(Deltas), sent : Seq(Deltas)]
<1>0. /\ stream \in [open : BOOLEAN, id : BOOLEAN, buffer : Seq(Deltas), sent : Seq(Deltas)]
      /\ finished \in [patched : BOOLEAN, buffer : Seq(Deltas), sent : Seq(Deltas)]
  BY DEF SendTypes
<1>1. NoStream \in [open : BOOLEAN, id : BOOLEAN, buffer : Seq(Deltas), sent : Seq(Deltas)]
  BY DEF NoStream
<1>2. CASE Begins
  <2>1. <<spoken'>> \in Seq(Deltas)
    BY <1>2 DEF Begins
  <2>2. CASE stream' = NoStream
    BY <1>0, <1>1, <1>2, <2>2 DEF Begins
  <2>3. CASE stream' # NoStream
    <3>1. PICK id \in BOOLEAN :
             stream' = [open |-> TRUE, id |-> id, buffer |-> <<spoken'>>, sent |-> <<spoken'>>]
      BY <1>2, <2>3 DEF Begins
    <3>2. finished' = finished
      BY <1>2 DEF Begins
    <3> DEFINE q == <<spoken'>>
    <3> HIDE DEF q
    <3>3. [open |-> TRUE, id |-> id, buffer |-> q, sent |-> q]
             \in [open : BOOLEAN, id : BOOLEAN, buffer : Seq(Deltas), sent : Seq(Deltas)]
      BY <2>1 DEF q
    <3> QED
      BY <1>0, <3>1, <3>2, <3>3 DEF q
  <2> QED
    BY <2>2, <2>3
<1>3. CASE Grows
  BY <1>0, <1>3 DEF Grows
<1>4. CASE Ends
  <2>1. stream' \in [open : BOOLEAN, id : BOOLEAN, buffer : Seq(Deltas), sent : Seq(Deltas)]
    BY <1>1, <1>4 DEF Ends
  <2>2. CASE finished' = finished
    BY <1>0, <2>1, <2>2
  <2>3. CASE finished' # finished
    <3>1. PICK sent \in {stream.sent, stream.buffer} :
             finished' = [patched |-> sent = stream.buffer, buffer |-> stream.buffer, sent |-> sent]
      BY <1>4, <2>3 DEF Ends
    <3>2. sent \in Seq(Deltas) /\ stream.buffer \in Seq(Deltas)
      BY <1>0, <3>1
    <3>3. (sent = stream.buffer) \in BOOLEAN
      OBVIOUS
    <3> QED
      BY <2>1, <3>1, <3>2, <3>3, Zenon
  <2> QED
    BY <2>2, <2>3
<1>5. CASE UNCHANGED <<stream, spoken, finished>>
  BY <1>0, <1>5
<1> QED
  BY <1>2, <1>3, <1>4, <1>5, StreamSteps

\* Steps keep the types.
LEMMA SendTypesStep ==
  ASSUME SendTypes, [SendNext]_sendVars
  PROVE  SendTypes'
<1>1. sender' \in Senders \cup {"none"} /\ token' \in BOOLEAN
  BY DEF SendTypes, SendNext, sendVars, Dispatch, FetchToken, TokenExpires, Accepted, Raises,
         WeixinFileRaises, WeixinTextRaises, WeixinTextRefused, FeishuMediaRaises,
         FeishuTextRaises, PlainRaises, FirstDelta, NextDelta, EndStream, PlainDelta
<1>2. /\ message' \in Seq(SendPart) /\ left' \in Seq(SendPart) /\ shown' \in Seq(SendPart)
      /\ failed' \subseteq SendPart
  <2>0. /\ message \in Seq(SendPart) /\ left \in Seq(SendPart) /\ shown \in Seq(SendPart)
        /\ failed \subseteq SendPart
    BY DEF SendTypes
  <2>1. CASE UNCHANGED <<sender, message, left, shown, failed>>
    BY <2>0, <2>1
  <2>2. CASE Fresh
    BY <2>2 DEF Fresh
  <2>3. CASE Accepted
    <3>1. left # <<>>
      BY <2>3 DEF Accepted
    <3>2. Tail(left) \in Seq(SendPart) /\ Head(left) \in SendPart
      BY <2>0, <3>1, TailFacts
    <3>3. Append(shown, Head(left)) \in Seq(SendPart)
      BY <2>0, <3>2, AppendFacts
    <3> QED
      BY <2>0, <2>3, <3>2, <3>3 DEF Accepted
  <2>4. CASE WeixinFileRaises \/ WeixinTextRaises \/ WeixinTextRefused
             \/ FeishuMediaRaises \/ FeishuTextRaises \/ PlainRaises
    <3>1. /\ left # <<>> /\ UNCHANGED <<sender, message, shown>>
          /\ failed' = failed \cup {Head(left)} /\ left' \in Seq(SendPart)
      BY <2>4, RaisesFacts
    <3>2. Head(left) \in SendPart
      BY <2>0, <3>1, TailFacts
    <3> QED
      BY <2>0, <3>1, <3>2
  <2> QED
    BY <2>1, <2>2, <2>3, <2>4, SendSteps
<1>3. spoken' \in 0 .. MaxDeltas
  <2>1. MaxDeltas \in Nat /\ spoken \in 0 .. MaxDeltas
    BY SendAssumption DEF SendAssumption, SendTypes
  <2> QED
    BY <2>1
    DEF SendNext, sendVars, streamVars, Dispatch, FetchToken, TokenExpires, Accepted, Raises,
        WeixinFileRaises, WeixinTextRaises, WeixinTextRefused, FeishuMediaRaises,
        FeishuTextRaises, PlainRaises, FirstDelta, NextDelta, EndStream, PlainDelta
<1>4. /\ stream' \in [open : BOOLEAN, id : BOOLEAN, buffer : Seq(Deltas), sent : Seq(Deltas)]
      /\ finished' \in [patched : BOOLEAN, buffer : Seq(Deltas), sent : Seq(Deltas)]
  BY StreamTypesStep
<1> QED
  BY <1>1, <1>2, <1>3, <1>4 DEF SendTypes

\* Steps keep the message of a stream a beginning of its text.
LEMMA StreamStep ==
  ASSUME SendTypes, SendTypes', StreamWhole, [SendNext]_sendVars
  PROVE  StreamWhole'
<1>0. /\ stream.buffer \in Seq(Deltas) /\ stream.sent \in Seq(Deltas)
      /\ stream'.buffer \in Seq(Deltas) /\ stream'.sent \in Seq(Deltas)
      /\ finished.buffer \in Seq(Deltas) /\ finished.sent \in Seq(Deltas)
      /\ stream.open \in BOOLEAN
  BY DEF SendTypes
<1>1. CASE UNCHANGED <<stream, spoken, finished>>
  BY <1>1 DEF StreamWhole
<1>2. CASE Begins
  <2>1. CASE stream' = NoStream
    BY <1>2, <2>1 DEF Begins, NoStream, StreamWhole
  <2>2. CASE stream' # NoStream
    <3>1. stream'.buffer = <<spoken'>> /\ stream'.sent = <<spoken'>>
      BY <1>2, <2>2 DEF Begins
    <3>2. /\ <<spoken'>> # <<>> /\ Last(<<spoken'>>) = spoken'
          /\ Contiguous(<<spoken'>>)
      BY <1>2 DEF Begins, Deltas, Last, Contiguous
    <3>3. IsPrefix(stream'.buffer, stream'.buffer)
      <4>1. Len(stream'.buffer) \in Nat
        BY <1>0, LenProperties
      <4> QED
        BY <1>0, <4>1, PrefixElements
    <3> QED
      BY <1>2, <3>1, <3>2, <3>3 DEF Begins, StreamWhole
  <2> QED
    BY <2>1, <2>2
<1>3. CASE Grows
  <2> DEFINE b == stream.buffer
             c == stream'.buffer
  <2>1. /\ stream.open /\ spoken' = spoken + 1 /\ spoken' \in Deltas /\ finished' = finished
        /\ c = Append(b, spoken') /\ stream'.sent \in {stream.sent, c}
    BY <1>3 DEF Grows
  <2>2. b # <<>> /\ Contiguous(b) /\ Last(b) = spoken /\ IsPrefix(stream.sent, b)
    BY <2>1 DEF StreamWhole
  <2>3. /\ b \in Seq(Deltas) /\ c \in Seq(Deltas) /\ Len(b) \in Nat \ {0} /\ Len(c) = Len(b) + 1
        /\ \A k \in 1 .. Len(b) : c[k] = b[k]
        /\ c[Len(b) + 1] = spoken'
    BY <1>0, <2>1, <2>2, AppendFacts, EmptySeq
  <2>4. spoken \in Nat /\ b[1] \in Nat
    <3>1. MaxDeltas \in Nat /\ b[1] \in Deltas
      BY <2>3, SendAssumption, ElementOfSeq DEF SendAssumption
    <3> QED
      BY <3>1, SMTT(30) DEF Deltas, SendTypes
  <2>5. DOMAIN b = 1 .. Len(b) /\ DOMAIN c = 1 .. Len(b) + 1
    BY <2>3, LenProperties
  <2>6. (\A k \in 1 .. Len(b) : b[k] = b[1] + k - 1) /\ b[Len(b)] = spoken
    BY <2>2, <2>5 DEF Contiguous, Last
  <2> HIDE DEF b, c
  <2>7. ASSUME NEW k \in 1 .. Len(b) + 1 PROVE c[k] = c[1] + k - 1
    <3>0. c[1] = b[1]
      BY <2>3
    <3>1. CASE k = Len(b) + 1
      <4>1. b[Len(b)] = b[1] + Len(b) - 1
        BY <2>3, <2>6
      <4> QED
        <5>1. c[k] = spoken + 1
          BY <2>1, <2>3, <3>1
        <5>2. spoken = b[1] + Len(b) - 1
          BY <2>6, <4>1
        <5> QED
          BY <2>3, <2>4, <3>0, <3>1, <5>1, <5>2
    <3>2. CASE k # Len(b) + 1
      <4>1. k \in 1 .. Len(b)
        BY <2>3, <3>2
      <4> QED
        BY <2>3, <2>6, <3>0, <4>1
    <3> QED
      BY <3>1, <3>2
  <2>8. Contiguous(c) /\ Last(c) = spoken' /\ c # <<>>
    BY <2>3, <2>5, <2>7 DEF Contiguous, Last
  <2>9. IsPrefix(stream'.sent, c)
    <3>1. IsPrefix(c, c)
      BY <2>3, PrefixElements
    <3>2. IsPrefix(stream.sent, c)
      <4>1. /\ Len(stream.sent) \in Nat /\ Len(stream.sent) <= Len(b)
            /\ \A k \in 1 .. Len(stream.sent) : stream.sent[k] = b[k]
        BY <1>0, <2>2, <2>3, PrefixElements, LenProperties
      <4>2. Len(stream.sent) <= Len(c) /\ \A k \in 1 .. Len(stream.sent) : stream.sent[k] = c[k]
        BY <2>3, <4>1
      <4> QED
        BY <1>0, <2>3, <4>2, PrefixElements
    <3> QED
      BY <2>1, <3>1, <3>2
  <2> QED
    BY <2>1, <2>8, <2>9 DEF StreamWhole, c
<1>4. CASE Ends
  <2>1. stream'.open = FALSE
    BY <1>4 DEF Ends, NoStream
  <2>2. CASE finished' = finished
    BY <2>1, <2>2 DEF StreamWhole
  <2>3. CASE finished' # finished
    <3>1. PICK sent \in {stream.sent, stream.buffer} :
             finished' = [patched |-> sent = stream.buffer, buffer |-> stream.buffer, sent |-> sent]
      BY <1>4, <2>3 DEF Ends
    <3>2. Contiguous(stream.buffer) /\ IsPrefix(stream.sent, stream.buffer)
      BY <1>4, <2>3 DEF Ends, StreamWhole
    <3>3. IsPrefix(stream.buffer, stream.buffer)
      BY <1>0, PrefixElements, LenProperties
    <3>4. finished'.buffer = stream.buffer /\ finished'.sent = sent
      BY <3>1
    <3>5. finished'.patched <=> sent = stream.buffer
      BY <3>1, Zenon
    <3> QED
      BY <2>1, <3>1, <3>2, <3>3, <3>4, <3>5 DEF StreamWhole
  <2> QED
    BY <2>2, <2>3
<1> QED
  BY <1>1, <1>2, <1>3, <1>4, StreamSteps

\* What an accepted part does to the parts shown and left.
LEMMA AcceptedFacts ==
  ASSUME SendTypes, Accepted
  PROVE  /\ UNCHANGED <<sender, message, failed>>
         /\ left # <<>> /\ left' = Tail(left) /\ shown' = Append(shown, Head(left))
         /\ Len(left) \in Nat \ {0} /\ Len(left') = Len(left) - 1
         /\ \A k \in 1 .. Len(left') : left'[k] = left[k + 1]
         /\ Len(shown) \in Nat /\ Len(shown') = Len(shown) + 1
         /\ \A k \in 1 .. Len(shown) : shown'[k] = shown[k]
         /\ shown'[Len(shown) + 1] = left[1]
         /\ Range(left) = {left[1]} \cup Range(left') /\ Range(shown') = Range(shown) \cup {left[1]}
<1>1. left # <<>> /\ left \in Seq(SendPart) /\ shown \in Seq(SendPart)
      /\ left' = Tail(left) /\ shown' = Append(shown, Head(left))
  BY DEF Accepted, SendTypes
<1>2. Head(left) = left[1] /\ left[1] \in SendPart
  BY <1>1, TailFacts
<1>3. Range(left) = {left[1]} \cup Range(left') /\ Range(shown') = Range(shown) \cup {left[1]}
  BY <1>1, <1>2, RangeFacts
<1>4. /\ Len(left) \in Nat \ {0} /\ Len(left') = Len(left) - 1
      /\ \A k \in 1 .. Len(left') : left'[k] = left[k + 1]
  BY <1>1, TailFacts
<1>5. /\ Len(shown) \in Nat /\ Len(shown') = Len(shown) + 1
      /\ \A k \in 1 .. Len(shown) : shown'[k] = shown[k]
      /\ shown'[Len(shown) + 1] = left[1]
  BY <1>1, <1>2, AppendFacts
<1> QED
  BY <1>1, <1>3, <1>4, <1>5 DEF Accepted

\* Feishu's one fallback, case by case.
LEMMA FallbackFacts ==
  ASSUME SendTypes, Fallback, FeishuMediaRaises
  PROVE  /\ UNCHANGED <<sender, message, shown>> /\ sender = "feishu" /\ failed = {}
         /\ \/ message = <<File(1)>> /\ shown = <<>> /\ failed' = {File(1)} /\ left' = <<Notice(1)>>
            \/ message = <<File(1), Text(1)>> /\ shown = <<>> /\ failed' = {File(1)} /\ left' = <<Text(1)>>
            \/ message = <<File(1), Text(1)>> /\ shown = <<File(1)>> /\ failed' = {Text(1)} /\ left' = <<Text(1)>>
<1>1. /\ left # <<>> /\ sender = "feishu" /\ failed = {} /\ Head(message).what = "file"
      /\ failed' = {Head(left)} /\ UNCHANGED <<sender, message, shown>>
      /\ left' = IF Text(1) \in Range(message) THEN <<Text(1)>> ELSE <<Notice(1)>>
  BY DEF FeishuMediaRaises, Raises, FirstPart
<1>2. message \in {<<Text(1)>>, <<File(1)>>, <<File(1), Text(1)>>}
  BY <1>1 DEF Fallback
<1>3. message # <<Text(1)>>
  BY <1>1 DEF Text
<1>4. \/ left = message /\ shown = <<>>
      \/ message = <<File(1), Text(1)>> /\ shown = <<File(1)>> /\ left = <<Text(1)>>
  BY <1>1 DEF Fallback
<1>5. CASE message = <<File(1)>>
  <2>1. left = <<File(1)>> /\ shown = <<>>
    <3>1. <<File(1)>> # <<File(1), Text(1)>>
      OBVIOUS
    <3> QED
      BY <1>4, <1>5, <3>1
  <2>2. Range(message) = {File(1)} /\ Text(1) # File(1)
    BY <1>5 DEF Range, Text, File
  <2>3. left' = <<Notice(1)>>
    BY <1>1, <2>2
  <2> QED
    BY <1>1, <1>5, <2>1, <2>3
<1>6. CASE message = <<File(1), Text(1)>>
  <2>1. Text(1) \in Range(message)
    <3>1. DOMAIN message = 1 .. 2 /\ message[2] = Text(1)
      BY <1>6
    <3> QED
      BY <3>1 DEF Range
  <2>2. left' = <<Text(1)>>
    BY <1>1, <2>1
  <2> QED
    BY <1>1, <1>4, <1>6, <2>2
<1> QED
  BY <1>2, <1>3, <1>5, <1>6

\* Steps keep what Feishu's fallback looks at.
LEMMA FallbackStep ==
  ASSUME SendTypes, Fallback, [SendNext]_sendVars
  PROVE  Fallback'
<1>1. CASE UNCHANGED <<sender, message, left, shown, failed>>
  BY <1>1 DEF Fallback, NoFileLeft
<1>2. CASE Fresh
  BY <1>2 DEF Fresh, Fallback
<1>3. CASE Accepted
  <2>1. SUFFICES ASSUME sender = "feishu" PROVE Fallback'
    BY <1>3, AcceptedFacts DEF Fallback
  <2>2. /\ left # <<>> /\ left' = Tail(left) /\ UNCHANGED <<sender, message, failed>>
        /\ shown' = Append(shown, Head(left))
        /\ message \in {<<Text(1)>>, <<File(1)>>, <<File(1), Text(1)>>}
    BY <1>3, <2>1, AcceptedFacts DEF Fallback
  <2>3. failed # {} => NoFileLeft'
    BY <1>3, <2>1, AcceptedFacts DEF Fallback, NoFileLeft
  <2>4. ASSUME failed = {}, left' # <<>>
        PROVE  message = <<File(1), Text(1)>> /\ shown' = <<File(1)>> /\ left' = <<Text(1)>>
    <3>1. \/ left = message /\ shown = <<>>
          \/ message = <<File(1), Text(1)>> /\ shown = <<File(1)>> /\ left = <<Text(1)>>
      BY <2>1, <2>2, <2>4 DEF Fallback
    <3>2. \A e : Tail(<<e>>) = <<>>
      OBVIOUS
    <3>3. left = message /\ shown = <<>> /\ message = <<File(1), Text(1)>>
      BY <2>2, <2>4, <3>1, <3>2
    <3>4. Tail(<<File(1), Text(1)>>) = <<Text(1)>> /\ Head(<<File(1), Text(1)>>) = File(1)
          /\ Append(<<>>, File(1)) = <<File(1)>>
      OBVIOUS
    <3> QED
      BY <2>2, <3>3, <3>4
  <2>5. message # <<>>
    BY <2>1, <2>2 DEF Fallback
  <2> QED
    BY <2>2, <2>3, <2>4, <2>5 DEF Fallback
<1>4. CASE WeixinFileRaises \/ WeixinTextRaises \/ WeixinTextRefused \/ PlainRaises
  <2>1. sender # "feishu" /\ UNCHANGED sender
    BY <1>4 DEF WeixinFileRaises, WeixinTextRaises, WeixinTextRefused, PlainRaises, Raises, PlainSenders
  <2> QED
    BY <2>1 DEF Fallback
<1>5. CASE FeishuMediaRaises
  <2>1. /\ left' \in {<<Notice(1)>>, <<Text(1)>>} /\ failed' # {}
        /\ UNCHANGED <<sender, message>>
    BY <1>5, FallbackFacts
  <2>2. Len(left') = 1 /\ left'[1] \in {Notice(1), Text(1)}
    BY <2>1
  <2>3. NoFileLeft'
    BY <2>2 DEF NoFileLeft, Notice, Text
  <2>4. left # <<>>
    BY <1>5 DEF FeishuMediaRaises
  <2> QED
    BY <2>1, <2>3, <2>4 DEF Fallback
<1>6. CASE FeishuTextRaises
  <2>1. left' = <<>> /\ failed' # {} /\ UNCHANGED message /\ UNCHANGED sender
    BY <1>6 DEF FeishuTextRaises, Raises
  <2> QED
    BY <2>1 DEF Fallback, NoFileLeft
<1> QED
  BY <1>1, <1>2, <1>3, <1>4, <1>5, <1>6, SendSteps

\* Steps keep the plain channels without files.
LEMMA OnePartStep ==
  ASSUME SendTypes, OnePart, [SendNext]_sendVars
  PROVE  OnePart'
<1>1. CASE UNCHANGED <<sender, message, left, shown, failed>>
  BY <1>1 DEF OnePart, NoFileLeft
<1>2. CASE Fresh
  BY <1>2 DEF Fresh, OnePart, NoFileLeft, Text
<1>3. CASE Accepted
  BY <1>3, AcceptedFacts DEF OnePart, NoFileLeft
<1>4. CASE WeixinFileRaises \/ WeixinTextRaises \/ WeixinTextRefused
           \/ FeishuMediaRaises \/ FeishuTextRaises
  <2>1. sender \notin PlainSenders /\ UNCHANGED sender
    BY <1>4 DEF WeixinFileRaises, WeixinTextRaises, WeixinTextRefused, FeishuMediaRaises,
                FeishuTextRaises, Raises, PlainSenders
  <2> QED
    BY <2>1 DEF OnePart
<1>5. CASE PlainRaises
  <2>1. left' = <<>>
    BY <1>5 DEF PlainRaises, Raises
  <2> QED
    BY <2>1 DEF OnePart, NoFileLeft
<1> QED
  BY <1>1, <1>2, <1>3, <1>4, <1>5, SendSteps

\* The text of what is left in order, and after what is shown, when the rest of it is left,
\* or the rest with a part that is no text before it.
LEMMA OrderKept ==
  ASSUME NEW s \in Seq(SendPart), NEW l \in Seq(SendPart), NEW r \in Seq(SendPart),
         NEW i \in {0, 1},
         TextsInOrder(l),
         \A j \in 1 .. Len(s), k \in 1 .. Len(l) :
            s[j].what = "text" /\ l[k].what = "text" => s[j].nr < l[k].nr,
         \A k \in 1 .. Len(r) :
            r[k].what = "text" => k + i \in 1 .. Len(l) /\ r[k] = l[k + i]
  PROVE  /\ TextsInOrder(r)
         /\ \A j \in 1 .. Len(s), k \in 1 .. Len(r) :
               s[j].what = "text" /\ r[k].what = "text" => s[j].nr < r[k].nr
<1>1. DOMAIN l = 1 .. Len(l) /\ DOMAIN r = 1 .. Len(r) /\ Len(l) \in Nat /\ Len(r) \in Nat
  BY LenProperties
<1>2. ASSUME NEW j \in 1 .. Len(r), NEW k \in 1 .. Len(r), j < k,
             r[j].what = "text", r[k].what = "text"
      PROVE  r[j].nr < r[k].nr
  <2>1. j + i \in 1 .. Len(l) /\ k + i \in 1 .. Len(l) /\ j + i < k + i
        /\ r[j] = l[j + i] /\ r[k] = l[k + i]
    BY <1>1, <1>2
  <2> QED
    BY <1>1, <1>2, <2>1 DEF TextsInOrder
<1> QED
  BY <1>1, <1>2 DEF TextsInOrder

\* The parts when another one takes the place of the first.
LEMMA HeadReplaced ==
  ASSUME NEW s \in Seq(SendPart), s # <<>>, NEW e \in SendPart
  PROVE  Range(<<e>> \o Tail(s)) = {e} \cup Range(Tail(s))
<1>1. Tail(s) \in Seq(SendPart)
  BY TailFacts
<1>2. \A t \in Seq(SendPart) : Range(<<e>> \o t) = {e} \cup Range(t)
  BY RangeFacts
<1> QED
  BY <1>1, <1>2

\* Steps keep the texts of the message together.
LEMMA TextsStep ==
  ASSUME SendTypes, SendTypes', TextsWhole, OnePart, Fallback, [SendNext]_sendVars
  PROVE  TextsWhole'
<1>0. /\ left \in Seq(SendPart) /\ left' \in Seq(SendPart)
      /\ shown \in Seq(SendPart) /\ shown' \in Seq(SendPart)
      /\ Len(left) \in Nat /\ Len(shown) \in Nat /\ Len(left') \in Nat /\ Len(shown') \in Nat
      /\ DOMAIN left = 1 .. Len(left) /\ DOMAIN shown = 1 .. Len(shown)
      /\ DOMAIN left' = 1 .. Len(left') /\ DOMAIN shown' = 1 .. Len(shown')
  BY LenProperties DEF SendTypes
<1>1. CASE UNCHANGED <<sender, message, left, shown, failed>>
  BY <1>1 DEF TextsWhole, OnlyFilesFailed
<1>2. CASE Fresh
  <2>1. shown' = <<>> /\ left' = message' /\ TextsInOrder(message')
    BY <1>2 DEF Fresh
  <2>2. TextsInOrder(<<>>) /\ Texts(<<>>) = {} /\ Len(<<>>) = 0
    BY DEF TextsInOrder, Texts, Range
  <2> QED
    BY <2>1, <2>2 DEF TextsWhole
<1>3. CASE Accepted
  <2>1. /\ UNCHANGED <<sender, message, failed>>
        /\ Len(left) \in Nat \ {0} /\ Len(left') = Len(left) - 1
        /\ \A k \in 1 .. Len(left') : left'[k] = left[k + 1]
        /\ Len(shown') = Len(shown) + 1
        /\ \A k \in 1 .. Len(shown) : shown'[k] = shown[k]
        /\ shown'[Len(shown) + 1] = left[1]
        /\ Range(left) = {left[1]} \cup Range(left') /\ Range(shown') = Range(shown) \cup {left[1]}
    BY <1>3, AcceptedFacts
  <2>0. \A j, k \in 1 .. Len(left) :
           j < k /\ left[j].what = "text" /\ left[k].what = "text" => left[j].nr < left[k].nr
    BY <1>0 DEF TextsWhole, TextsInOrder
  <2>2. TextsInOrder(left')
    <3>1. \A j, k \in 1 .. Len(left') :
             j < k /\ left[j + 1].what = "text" /\ left[k + 1].what = "text"
               => left[j + 1].nr < left[k + 1].nr
      <4>1. ASSUME NEW j \in 1 .. Len(left'), NEW k \in 1 .. Len(left'), j < k
            PROVE  j + 1 \in 1 .. Len(left) /\ k + 1 \in 1 .. Len(left) /\ j + 1 < k + 1
        BY <2>1, <4>1
      <4> QED
        BY <2>0, <4>1
    <3>2. \A j, k \in 1 .. Len(left') :
             j < k /\ left'[j].what = "text" /\ left'[k].what = "text" => left'[j].nr < left'[k].nr
      BY <2>1, <3>1
    <3> QED
      BY <1>0, <3>2 DEF TextsInOrder
  <2>3. TextsInOrder(shown')
    <3>1. ASSUME NEW j \in 1 .. Len(shown), shown[j].what = "text", left[1].what = "text"
          PROVE  shown[j].nr < left[1].nr
      BY <2>1, <3>1 DEF TextsWhole
    <3>2. ASSUME NEW j \in 1 .. Len(shown) + 1, NEW k \in 1 .. Len(shown) + 1, j < k,
                 shown'[j].what = "text", shown'[k].what = "text"
          PROVE  shown'[j].nr < shown'[k].nr
      <4>1. j \in 1 .. Len(shown) /\ shown'[j] = shown[j]
        BY <1>0, <2>1, <3>2
      <4>2. CASE k = Len(shown) + 1
        BY <2>1, <3>1, <3>2, <4>1, <4>2
      <4>3. CASE k # Len(shown) + 1
        <5>1. k \in 1 .. Len(shown) /\ shown'[k] = shown[k]
          BY <1>0, <2>1, <4>3
        <5> QED
          BY <1>0, <3>2, <4>1, <5>1 DEF TextsWhole, TextsInOrder
      <4> QED
        BY <4>2, <4>3
    <3> QED
      BY <1>0, <2>1, <3>2 DEF TextsInOrder
  <2>4. ASSUME NEW j \in 1 .. Len(shown) + 1, NEW k \in 1 .. Len(left'),
               shown'[j].what = "text", left'[k].what = "text"
        PROVE  shown'[j].nr < left'[k].nr
    <3>1. left'[k] = left[k + 1] /\ k + 1 \in 1 .. Len(left) /\ 1 \in 1 .. Len(left) /\ 1 < k + 1
      BY <2>1
    <3>2. CASE j = Len(shown) + 1
      BY <2>0, <2>1, <2>4, <3>1, <3>2
    <3>3. CASE j # Len(shown) + 1
      <4>1. j \in 1 .. Len(shown) /\ shown'[j] = shown[j]
        BY <1>0, <2>1, <3>3
      <4> QED
        BY <2>4, <3>1, <4>1 DEF TextsWhole
    <3> QED
      BY <3>2, <3>3
  <2>5. Texts(shown)' \cup Texts(left)' = Texts(shown) \cup Texts(left)
    BY <2>1 DEF Texts
  <2>6. OnlyFilesFailed' <=> OnlyFilesFailed
    BY <2>1 DEF OnlyFilesFailed
  <2>7. Texts(message)' = Texts(message)
    BY <2>1
  <2> QED
    BY <2>1, <2>2, <2>3, <2>4, <2>5, <2>6, <2>7 DEF TextsWhole
<1>4. CASE WeixinFileRaises
  <2> DEFINE n == Notice(Head(left).nr)
  <2>1. /\ left # <<>> /\ Head(left).what = "file" /\ left' = <<n>> \o Tail(left)
        /\ failed' = failed \cup {Head(left)} /\ UNCHANGED <<sender, message, shown>>
    BY <1>4 DEF WeixinFileRaises, Raises
  <2>2. /\ Tail(left) \in Seq(SendPart) /\ Len(left) \in Nat \ {0} /\ Len(Tail(left)) = Len(left) - 1
        /\ \A k \in 1 .. Len(Tail(left)) : Tail(left)[k] = left[k + 1]
        /\ Head(left) \in SendPart /\ Head(left) = left[1]
    BY <1>0, <2>1, TailFacts
  <2>3. n \in SendPart /\ <<n>> \in Seq(SendPart) /\ n.what = "notice"
    BY <2>2 DEF SendPart, Notice
  <2> HIDE DEF n
  <2>4. /\ Len(left') = Len(left) /\ left'[1] = n
        /\ \A k \in 2 .. Len(left) : left'[k] = left[k]
    <3>1. /\ Len(left') = 1 + Len(Tail(left))
          /\ \A k \in 1 .. 1 + Len(Tail(left)) :
                left'[k] = IF k <= 1 THEN <<n>>[k] ELSE Tail(left)[k - 1]
      <4>1. Len(<<n>>) = 1
        OBVIOUS
      <4> QED
        BY <2>1, <2>2, <2>3, <4>1, ConcatProperties
    <3>2. \A k \in 2 .. Len(left) :
             k \in 1 .. 1 + Len(Tail(left)) /\ k - 1 \in 1 .. Len(Tail(left)) /\ ~(k <= 1) /\ (k - 1) + 1 = k
      BY <2>2
    <3>3. \A k \in 2 .. Len(left) : left'[k] = Tail(left)[k - 1] /\ Tail(left)[k - 1] = left[k]
      BY <2>2, <3>1, <3>2
    <3> QED
      BY <2>2, <3>1, <3>3
  <2>5. \A k \in 1 .. Len(left') :
           left'[k].what = "text" => k + 0 \in 1 .. Len(left) /\ left'[k] = left[k + 0]
    BY <2>2, <2>3, <2>4
  <2>6. /\ TextsInOrder(left')
        /\ \A j \in 1 .. Len(shown), k \in 1 .. Len(left') :
              shown[j].what = "text" /\ left'[k].what = "text" => shown[j].nr < left'[k].nr
    BY <1>0, <2>5, OrderKept DEF TextsWhole
  <2>7. Texts(left') = Texts(left)
    <3>1. Range(left') = {n} \cup Range(Tail(left)) /\ Range(left) = {left[1]} \cup Range(Tail(left))
      <4>1. Range(<<n>> \o Tail(left)) = {n} \cup Range(Tail(left))
        BY <1>0, <2>1, <2>3, HeadReplaced
      <4>2. Range(left) = {Head(left)} \cup Range(Tail(left))
        BY <1>0, <2>1, RangeFacts
      <4> QED
        BY <2>1, <2>2, <4>1, <4>2
    <3> QED
      BY <2>1, <2>2, <2>3, <3>1 DEF Texts
  <2>8. OnlyFilesFailed' => OnlyFilesFailed
    BY <2>1 DEF OnlyFilesFailed
  <2> QED
    BY <2>1, <2>6, <2>7, <2>8 DEF TextsWhole
<1>5. CASE WeixinTextRefused
  <2>1. /\ left # <<>> /\ Head(left).what # "file" /\ left' = Tail(left)
        /\ Head(left) \in failed' /\ UNCHANGED <<sender, message, shown>>
    BY <1>5 DEF WeixinTextRefused, Raises
  <2>2. /\ Len(left) \in Nat \ {0} /\ Len(left') = Len(left) - 1
        /\ \A k \in 1 .. Len(left') : left'[k] = left[k + 1]
    BY <1>0, <2>1, TailFacts
  <2>3. /\ TextsInOrder(left')
        /\ \A j \in 1 .. Len(shown), k \in 1 .. Len(left') :
              shown[j].what = "text" /\ left'[k].what = "text" => shown[j].nr < left'[k].nr
    <3>1. \A k \in 1 .. Len(left') : k + 1 \in 1 .. Len(left) /\ left'[k] = left[k + 1]
      BY <2>2
    <3> QED
      BY <1>0, <3>1, OrderKept DEF TextsWhole
  <2>4. ~OnlyFilesFailed'
    BY <2>1 DEF OnlyFilesFailed
  <2> QED
    BY <2>1, <2>3, <2>4 DEF TextsWhole
<1>6. CASE WeixinTextRaises \/ FeishuTextRaises \/ PlainRaises
  <2>1. /\ left # <<>> /\ left' = <<>> /\ Head(left) \in failed' /\ UNCHANGED <<sender, message, shown>>
    BY <1>6 DEF WeixinTextRaises, FeishuTextRaises, PlainRaises, Raises
  <2>2. Head(left).what # "file"
    <3>0. Len(left) \in Nat \ {0} /\ Head(left) = left[1]
      BY <1>0, <2>1, TailFacts
    <3>1. CASE WeixinTextRaises
      BY <3>1 DEF WeixinTextRaises
    <3>2. CASE PlainRaises
      BY <3>0, <3>2 DEF PlainRaises, OnePart, NoFileLeft
    <3>3. CASE FeishuTextRaises /\ failed # {}
      BY <3>0, <3>3 DEF FeishuTextRaises, Fallback, NoFileLeft
    <3>4. CASE FeishuTextRaises /\ failed = {}
      <4>1. sender = "feishu" /\ Head(message).what = "text"
        BY <3>4 DEF FeishuTextRaises, FirstPart
      <4>2. message \in {<<Text(1)>>, <<File(1)>>, <<File(1), Text(1)>>}
        BY <2>1, <4>1 DEF Fallback
      <4>3. Head(<<File(1)>>) = File(1) /\ Head(<<File(1), Text(1)>>) = File(1)
        OBVIOUS
      <4>4. message # <<File(1)>> /\ message # <<File(1), Text(1)>>
        BY <4>1, <4>3 DEF File
      <4>5. \/ left = message
            \/ message = <<File(1), Text(1)>>
        BY <2>1, <3>4, <4>1 DEF Fallback
      <4> QED
        BY <4>1, <4>4, <4>5
    <3> QED
      BY <1>6, <3>1, <3>2, <3>3, <3>4
  <2>3. ~OnlyFilesFailed'
    BY <2>1, <2>2 DEF OnlyFilesFailed
  <2>4. TextsInOrder(<<>>) /\ Len(<<>>) = 0
    BY DEF TextsInOrder
  <2> QED
    BY <2>1, <2>3, <2>4 DEF TextsWhole
<1>7. CASE FeishuMediaRaises
  <2>1. /\ UNCHANGED <<sender, message, shown>>
        /\ \/ message = <<File(1)>> /\ shown = <<>> /\ failed' = {File(1)} /\ left' = <<Notice(1)>>
           \/ message = <<File(1), Text(1)>> /\ shown = <<>> /\ failed' = {File(1)} /\ left' = <<Text(1)>>
           \/ message = <<File(1), Text(1)>> /\ shown = <<File(1)>> /\ failed' = {Text(1)} /\ left' = <<Text(1)>>
    BY <1>7, FallbackFacts
  <2>2. /\ TextsInOrder(left')
        /\ \A j \in 1 .. Len(shown) : shown[j].what # "text"
    <3>1. \A p : TextsInOrder(<<p>>)
      BY DEF TextsInOrder
    <3>2. Len(<<>>) = 0 /\ Len(<<File(1)>>) = 1 /\ <<File(1)>>[1] = File(1) /\ File(1).what # "text"
      BY DEF File
    <3> QED
      BY <2>1, <3>1, <3>2
  <2>3. ASSUME OnlyFilesFailed'
        PROVE  Texts(shown) \cup Texts(left') = Texts(message)
    <3>1. failed' # {Text(1)}
      <4>1. Text(1).what # "file"
        BY DEF Text
      <4>2. Text(1) \notin failed'
        BY <2>3, <4>1 DEF OnlyFilesFailed
      <4> QED
        BY <4>2
    <3>2. /\ Range(<<>>) = {} /\ Range(<<File(1)>>) = {File(1)} /\ Range(<<Notice(1)>>) = {Notice(1)}
          /\ Range(<<Text(1)>>) = {Text(1)} /\ Range(<<File(1), Text(1)>>) = {File(1), Text(1)}
      <4>1. \A e : Range(<<e>>) = {e}
        BY DEF Range
      <4>2. \A d, e : Range(<<d, e>>) = {d, e}
        <5>1. ASSUME NEW d, NEW e PROVE Range(<<d, e>>) = {d, e}
          <6>1. DOMAIN <<d, e>> = {1, 2} /\ <<d, e>>[1] = d /\ <<d, e>>[2] = e
            OBVIOUS
          <6> QED
            BY <6>1 DEF Range
        <5> QED
          BY <5>1
      <4>3. Range(<<>>) = {}
        BY DEF Range
      <4> QED
        BY <4>1, <4>2, <4>3
    <3>3. /\ Texts(<<>>) = {} /\ Texts(<<File(1)>>) = {} /\ Texts(<<Notice(1)>>) = {}
          /\ Texts(<<Text(1)>>) = {Text(1)} /\ Texts(<<File(1), Text(1)>>) = {Text(1)}
      BY <3>2 DEF Texts, File, Text, Notice
    <3> QED
      BY <2>1, <3>1, <3>3
  <2> QED
    BY <2>1, <2>2, <2>3 DEF TextsWhole
<1> QED
  BY <1>1, <1>2, <1>3, <1>4, <1>5, <1>6, <1>7, SendSteps

\* Steps keep account of WeChat's files.
LEMMA FilesStep ==
  ASSUME SendTypes, SendTypes', FilesAccounted, [SendNext]_sendVars
  PROVE  FilesAccounted'
<1>0. left \in Seq(SendPart) /\ shown \in Seq(SendPart)
  BY DEF SendTypes
<1>1. CASE UNCHANGED <<sender, message, left, shown, failed>>
  BY <1>1 DEF FilesAccounted, OnlyFilesFailed
<1>2. CASE Fresh
  BY <1>2 DEF Fresh, FilesAccounted
<1>3. CASE Accepted
  <2>1. /\ UNCHANGED <<sender, message, failed>>
        /\ Range(left) = {left[1]} \cup Range(left') /\ Range(shown') = Range(shown) \cup {left[1]}
    BY <1>3, AcceptedFacts
  <2>2. Range(shown') \cup Range(left') = Range(shown) \cup Range(left)
    BY <2>1
  <2>3. OnlyFilesFailed' <=> OnlyFilesFailed
    BY <2>1 DEF OnlyFilesFailed
  <2>4. Range(message)' = Range(message)
    BY <2>1
  <2> QED
    BY <2>1, <2>2, <2>3, <2>4 DEF FilesAccounted
<1>4. CASE WeixinFileRaises
  <2> DEFINE n == Notice(Head(left).nr)
  <2>1. /\ left # <<>> /\ left' = <<n>> \o Tail(left)
        /\ failed' = failed \cup {Head(left)} /\ UNCHANGED <<sender, message, shown>>
    BY <1>4 DEF WeixinFileRaises, Raises
  <2>2. Tail(left) \in Seq(SendPart) /\ Head(left) \in SendPart
    BY <1>0, <2>1, TailFacts
  <2>3. Range(left') = {n} \cup Range(Tail(left)) /\ Range(left) = {Head(left)} \cup Range(Tail(left))
    <3>1. n \in SendPart
      BY <2>2 DEF SendPart, Notice
    <3> QED
      <4>1. Range(<<n>> \o Tail(left)) = {n} \cup Range(Tail(left))
        BY <1>0, <2>1, <3>1, HeadReplaced
      <4>2. Range(left) = {Head(left)} \cup Range(Tail(left))
        BY <1>0, <2>1, RangeFacts
      <4> QED
        BY <2>1, <4>1, <4>2
  <2>4. OnlyFilesFailed' => OnlyFilesFailed
    BY <2>1 DEF OnlyFilesFailed
  <2>5. ASSUME NEW k \in 1 .. MaxFiles,
               File(k) \in Range(shown) \cup Range(left) \/ Notice(k) \in Range(shown) \cup Range(left)
        PROVE  \/ File(k) \in Range(shown) \cup Range(left')
               \/ Notice(k) \in Range(shown) \cup Range(left')
    <3>1. CASE File(k) = Head(left)
      <4>1. n = Notice(k)
        BY <3>1 DEF File
      <4> QED
        BY <2>3, <4>1
    <3>2. CASE File(k) # Head(left) /\ File(k) \in Range(shown) \cup Range(left)
      BY <2>3, <3>2
    <3>3. CASE Notice(k) \in Range(shown) \cup Range(left)
      <4>1. Notice(k) # Head(left)
        BY <1>4 DEF WeixinFileRaises, Notice
      <4> QED
        BY <2>3, <3>3, <4>1
    <3> QED
      BY <2>5, <3>1, <3>2, <3>3
  <2>6. Range(message)' = Range(message) /\ Range(shown)' = Range(shown)
    BY <2>1
  <2> QED
    BY <2>1, <2>4, <2>5, <2>6 DEF FilesAccounted
<1>5. CASE WeixinTextRaises \/ WeixinTextRefused
  <2>1. Head(left) \in failed' /\ Head(left).what # "file"
    BY <1>5 DEF WeixinTextRaises, WeixinTextRefused, Raises
  <2> QED
    BY <2>1 DEF FilesAccounted, OnlyFilesFailed
<1>6. CASE FeishuMediaRaises \/ FeishuTextRaises \/ PlainRaises
  <2>1. sender # "weixin" /\ UNCHANGED sender
    BY <1>6 DEF FeishuMediaRaises, FeishuTextRaises, PlainRaises, Raises, PlainSenders
  <2> QED
    BY <2>1 DEF FilesAccounted
<1> QED
  BY <1>1, <1>2, <1>3, <1>4, <1>5, <1>6, SendSteps

\* However many files and chunks an answer has and whatever calls fail, the texts shown
\* and those still to be sent are the message's, and a stream's message has no holes.
THEOREM SendInvariant == SendSpec => []SendInv
<1>1. SendInit => SendInv
  <2> SUFFICES ASSUME SendInit PROVE SendInv
    OBVIOUS
  <2>1. /\ message = <<>> /\ left = <<>> /\ shown = <<>> /\ failed = {} /\ token = FALSE
        /\ stream = NoStream /\ spoken = 0 /\ sender \in Senders \cup {"none"}
        /\ finished = [patched |-> FALSE, buffer |-> <<>>, sent |-> <<>>]
    BY DEF SendInit
  <2>2. <<>> \in Seq(SendPart) /\ <<>> \in Seq(Deltas) /\ Len(<<>>) = 0 /\ Range(<<>>) = {}
    BY DEF Range
  <2>3. SendTypes
    <3>1. MaxDeltas \in Nat
      BY SendAssumption DEF SendAssumption
    <3> QED
      <4>1. stream \in [open : BOOLEAN, id : BOOLEAN, buffer : Seq(Deltas), sent : Seq(Deltas)]
        BY <2>1, <2>2 DEF NoStream
      <4>2. finished \in [patched : BOOLEAN, buffer : Seq(Deltas), sent : Seq(Deltas)]
        BY <2>1, <2>2
      <4>3. spoken \in 0 .. MaxDeltas
        BY <2>1, <3>1
      <4> QED
        BY <2>1, <2>2, <4>1, <4>2, <4>3 DEF SendTypes
  <2>4. TextsWhole
    BY <2>1, <2>2 DEF TextsWhole, TextsInOrder, Texts
  <2>5. FilesAccounted /\ OnePart /\ Fallback
    BY <2>1, <2>2 DEF FilesAccounted, OnePart, NoFileLeft, Fallback
  <2>6. StreamWhole
    <3>1. IsPrefix(<<>>, <<>>)
      <4>1. Len(<<>>) <= Len(<<>>) /\ \A k \in 1 .. Len(<<>>) : <<>>[k] = <<>>[k]
        OBVIOUS
      <4> QED
        BY <2>2, <4>1, PrefixElements
    <3>2. Contiguous(<<>>)
      BY DEF Contiguous
    <3> QED
      BY <2>1, <3>1, <3>2 DEF StreamWhole, NoStream
  <2> QED
    BY <2>3, <2>4, <2>5, <2>6 DEF SendInv
<1>2. SendInv /\ [SendNext]_sendVars => SendInv'
  <2> SUFFICES ASSUME SendInv, [SendNext]_sendVars PROVE SendInv'
    OBVIOUS
  <2>1. SendTypes'
    BY SendTypesStep DEF SendInv
  <2>2. TextsWhole' /\ FilesAccounted' /\ OnePart' /\ Fallback'
    BY <2>1, TextsStep, FilesStep, OnePartStep, FallbackStep DEF SendInv
  <2>3. StreamWhole'
    BY <2>1, StreamStep DEF SendInv
  <2> QED
    BY <2>1, <2>2, <2>3 DEF SendInv
<1> QED
  BY <1>1, <1>2, PTL DEF SendSpec

\* What reaches the reader of an answer: a file or a patch of a stream that fails takes
\* nothing else with it.
THEOREM AnswersAreWhole == SendSpec => []AnswersStayWhole
<1>1. SendInv => AnswersStayWhole
  <2> SUFFICES ASSUME SendInv PROVE AnswersStayWhole
    OBVIOUS
  <2>1. ASSUME left = <<>> PROVE FailedFileCostsOnlyItself
    <3>1. Range(left) = {} /\ Texts(left) = {}
      BY <2>1 DEF Range, Texts
    <3>2. TextsInOrder(shown) /\ (OnlyFilesFailed => Texts(shown) = Texts(message))
      BY <3>1 DEF SendInv, TextsWhole
    <3>3. OnlyFilesFailed /\ sender = "weixin" =>
             \A n \in 1 .. MaxFiles : Lost(File(n)) => Notice(n) \in Range(shown)
      BY <3>1 DEF SendInv, FilesAccounted, Lost
    <3> QED
      BY <3>2, <3>3 DEF FailedFileCostsOnlyItself, OnlyFilesFailed
  <2>2. left # <<>> => FailedFileCostsOnlyItself
    BY DEF FailedFileCostsOnlyItself
  <2>3. StreamHasNoHoles
    BY DEF SendInv, StreamWhole, StreamHasNoHoles
  <2> QED
    BY <2>1, <2>2, <2>3 DEF AnswersStayWhole
<1> QED
  BY <1>1, SendInvariant, PTL

-----------------------------------------------------------------------------
(* WhatsAppBridge *)

\* The frames on their way up: statuses and messages, the messages in the order in
\* which they arrived, after those the channel has published.
UpwardFrame == [type : {"status"}, up : BOOLEAN] \cup [type : {"message"}, nr : Nat]
DownwardFrame == [type : {"send"}, nr : Nat] \cup {Auth}

BridgeScalars ==
  /\ secret \in Secrets \cup {"none"}
  /\ bridge \in BOOLEAN /\ retry \in BOOLEAN /\ listening \in BOOLEAN /\ connected \in BOOLEAN
  /\ wa \in {"none", "connecting", "open", "closed", "logged out"}
  /\ link \in {"down", "greeting", "joined"}
  /\ arrivals \in Nat /\ replies \in Nat

UpwardTypes ==
  /\ upward \in Seq(UpwardFrame) /\ Len(upward) <= MaxFrames
  /\ \A k \in 1 .. Len(upward) : upward[k].type = "message" => upward[k].nr \in 1 .. arrivals

DownwardTypes ==
  /\ downward \in Seq(DownwardFrame) /\ Len(downward) <= MaxFrames
  /\ \A k \in 1 .. Len(downward) : downward[k].type = "send" => downward[k].nr \in 1 .. replies

ListTypes ==
  /\ executing \subseteq 1 .. replies /\ delivered \in Seq(1 .. replies)
  /\ told \in Seq(1 .. arrivals)

BridgeTypes == BridgeScalars /\ UpwardTypes /\ DownwardTypes /\ ListTypes

\* Frames go up to a client that has joined only; one that greets has not heard of
\* WhatsApp yet; and who is not let in gets nothing through.
Joined ==
  /\ link # "joined" => upward = <<>>
  /\ link = "down" => ~connected
  /\ link = "greeting" => connected
  /\ secret \in {"wrong", "missing"} =>
        /\ link # "joined" /\ told = <<>> /\ delivered = <<>> /\ executing = {}

\* Messages keep the order in which they arrived, published and in flight.
Ordered ==
  /\ \A j, k \in 1 .. Len(told) : j < k => told[j] < told[k]
  /\ \A j \in 1 .. Len(told), k \in 1 .. Len(upward) :
        upward[k].type = "message" => told[j] < upward[k].nr
  /\ \A j, k \in 1 .. Len(upward) :
        j < k /\ upward[j].type = "message" /\ upward[k].type = "message"
           => upward[j].nr < upward[k].nr

BridgeInv == BridgeTypes /\ Joined /\ NeverMute /\ Ordered

-----------------------------------------------------------------------------
\* What the actions that break the connection leave of it.
LEMMA BrokenLink ==
  ASSUME LinkBreaks
  PROVE  /\ link' = "down" /\ upward' = <<>> /\ downward' = <<>> /\ connected' = FALSE
         /\ Len(upward)' = 0 /\ Len(downward)' = 0
         /\ upward' \in Seq(UpwardFrame) /\ downward' \in Seq(DownwardFrame)
<1>1. link' = "down" /\ upward' = <<>> /\ downward' = <<>> /\ connected' = FALSE
  BY DEF LinkBreaks
<1>2. Len(<<>>) = 0 /\ <<>> \in Seq(UpwardFrame) /\ <<>> \in Seq(DownwardFrame)
  BY EmptySeq
<1> QED
  BY <1>1, <1>2

\* A broadcast frame is the last of the frames on their way, or is lost.
LEMMA BroadcastFacts ==
  ASSUME NEW f \in UpwardFrame, Broadcast(f), upward \in Seq(UpwardFrame), Len(upward) < MaxFrames
  PROVE  /\ upward' \in Seq(UpwardFrame) /\ Len(upward) \in Nat /\ Len(upward') \in Nat
         /\ Len(upward') <= MaxFrames
         /\ link # "joined" => upward' = upward
         /\ link = "joined" => /\ Len(upward') = Len(upward) + 1
                               /\ upward'[Len(upward) + 1] = f
                               /\ \A k \in 1 .. Len(upward) : upward'[k] = upward[k]
<1>1. MaxFrames \in Nat
  BY BridgeAssumption
<1>2. Len(upward) \in Nat
  BY LenProperties
<1>3. CASE link = "joined"
  <2>1. upward' = Append(upward, f)
    BY <1>3 DEF Broadcast
  <2> QED
    BY <1>1, <1>2, <1>3, <2>1, AppendFacts
<1>4. CASE link # "joined"
  BY <1>1, <1>2, <1>4 DEF Broadcast
<1> QED
  BY <1>3, <1>4

\* The steps, by what becomes of the frames on their way up.
LEMMA UpwardSteps ==
  ASSUME BridgeNext
  PROVE  \/ UNCHANGED <<upward, arrivals, told>>
         \/ LinkBreaks /\ arrivals' = arrivals /\ (told' = told \/ told' = <<>>)
         \/ WhatsAppOpens \/ WhatsAppCloses \/ MessageArrives \/ TakeFrame
BY DEF BridgeNext, StartBridge, EndBridge, Reconnect, FirstFrame, LinkLost, TakeCommand,
       CommandEnds, StartListening, StopListening, Join, SendReply,
       channelState, bridgeCounts, bridgeProcess

\* A status is a frame, and no message.
LEMMA StatusFrame ==
  ASSUME NEW b \in BOOLEAN
  PROVE  Status(b) \in UpwardFrame /\ Status(b).type = "status" /\ Status(b).up = b
BY DEF Status, UpwardFrame

\* A message is a frame, and no status.
LEMMA MessageFrame ==
  ASSUME NEW i \in Nat
  PROVE  Message(i) \in UpwardFrame /\ Message(i).type = "message" /\ Message(i).nr = i
BY DEF Message, UpwardFrame

\* Every step keeps the types of the frames on their way up.
LEMMA UpwardTypesStep ==
  ASSUME UpwardTypes, arrivals \in Nat, BridgeNext
  PROVE  UpwardTypes'
<1>0. upward \in Seq(UpwardFrame) /\ Len(upward) \in Nat /\ MaxFrames \in Nat \ {0}
  BY BridgeAssumption, LenProperties DEF UpwardTypes
<1>1. CASE UNCHANGED <<upward, arrivals, told>>
  BY <1>1 DEF UpwardTypes
<1>2. CASE LinkBreaks /\ arrivals' = arrivals
  BY <1>0, <1>2, BrokenLink DEF UpwardTypes
<1>3. ASSUME NEW b \in BOOLEAN, Broadcast(Status(b)), Len(upward) < MaxFrames, arrivals' = arrivals
      PROVE  UpwardTypes'
  <2>1. CASE link = "joined"
    <3>1. /\ upward' \in Seq(UpwardFrame) /\ Len(upward') = Len(upward) + 1
          /\ upward'[Len(upward) + 1] = Status(b)
          /\ \A k \in 1 .. Len(upward) : upward'[k] = upward[k]
      BY <1>0, <1>3, <2>1, StatusFrame, BroadcastFacts
    <3>2. Status(b).type # "message"
      BY StatusFrame
    <3> QED
      BY <1>0, <1>3, <3>1, <3>2 DEF UpwardTypes
  <2>2. CASE link # "joined"
    <3>1. upward' = upward
      BY <1>3, <2>2 DEF Broadcast
    <3> QED
      BY <1>3, <3>1 DEF UpwardTypes
  <2> QED
    BY <2>1, <2>2
<1>4. CASE WhatsAppOpens
  BY <1>3, <1>4 DEF WhatsAppOpens, bridgeCounts
<1>5. CASE WhatsAppCloses
  BY <1>3, <1>5 DEF WhatsAppCloses, bridgeCounts
<1>6. CASE MessageArrives
  <2>0. /\ Broadcast(Message(arrivals + 1)) /\ Len(upward) < MaxFrames
        /\ arrivals' = arrivals + 1
    BY <1>6 DEF MessageArrives, Broadcast
  <2>1. CASE link = "joined"
    <3>1. /\ upward' \in Seq(UpwardFrame) /\ Len(upward') = Len(upward) + 1
          /\ upward'[Len(upward) + 1] = Message(arrivals + 1)
          /\ \A k \in 1 .. Len(upward) : upward'[k] = upward[k]
      BY <1>0, <2>0, <2>1, MessageFrame, BroadcastFacts
    <3>2. Message(arrivals + 1).nr = arrivals + 1
      BY MessageFrame
    <3>3. Len(upward') <= MaxFrames
      BY <1>0, <2>0, <3>1
    <3>4. ASSUME NEW k \in 1 .. Len(upward'), upward'[k].type = "message"
          PROVE  upward'[k].nr \in 1 .. arrivals'
      <4>1. CASE k = Len(upward) + 1
        BY <2>0, <3>1, <3>2, <4>1
      <4>2. CASE k # Len(upward) + 1
        <5>1. k \in 1 .. Len(upward)
          BY <1>0, <3>1, <4>2
        <5>2. upward[k].nr \in 1 .. arrivals
          BY <3>1, <3>4, <5>1 DEF UpwardTypes
        <5> QED
          BY <2>0, <3>1, <5>1, <5>2
      <4> QED
        BY <4>1, <4>2
    <3> QED
      BY <3>1, <3>3, <3>4 DEF UpwardTypes
  <2>2. CASE link # "joined"
    <3>1. upward' = upward
      BY <2>0, <2>2 DEF Broadcast
    <3> QED
      BY <2>0, <3>1 DEF UpwardTypes
  <2> QED
    BY <2>1, <2>2
<1>7. CASE TakeFrame
  <2>1. upward # <<>> /\ upward' = Tail(upward) /\ arrivals' = arrivals
    BY <1>7 DEF TakeFrame, bridgeCounts
  <2> QED
    BY <1>0, <2>1, TailFacts DEF UpwardTypes
<1> QED
  BY <1>1, <1>2, <1>4, <1>5, <1>6, <1>7, UpwardSteps

\* Every step keeps the types of the frames on their way down.
LEMMA DownwardTypesStep ==
  ASSUME DownwardTypes, replies \in Nat, BridgeNext
  PROVE  DownwardTypes'
<1>0. downward \in Seq(DownwardFrame) /\ Len(downward) \in Nat /\ MaxFrames \in Nat \ {0}
  BY BridgeAssumption, LenProperties DEF DownwardTypes
<1>1. CASE UNCHANGED <<downward, replies>>
  BY <1>1 DEF DownwardTypes
<1>2. CASE LinkBreaks /\ replies' = replies
  BY <1>0, <1>2, BrokenLink DEF DownwardTypes
<1>3. CASE downward # <<>> /\ downward' = Tail(downward) /\ replies' = replies
  BY <1>0, <1>3, TailFacts DEF DownwardTypes
<1>4. CASE Join
  <2>1. (downward' = <<>> \/ downward' = <<Auth>>) /\ replies' = replies
    BY <1>4 DEF Join, bridgeCounts
  <2>2. CASE downward' = <<>>
    BY <1>0, <2>1, <2>2, EmptySeq DEF DownwardTypes
  <2>3. CASE downward' = <<Auth>>
    <3>1. Auth \in DownwardFrame /\ Auth.type # "send"
      BY DEF DownwardFrame, Auth
    <3>2. /\ <<Auth>> \in Seq(DownwardFrame) /\ Len(<<Auth>>) = 1
          /\ \A k \in 1 .. 1 : <<Auth>>[k] = Auth
      BY <3>1
    <3> QED
      BY <1>0, <2>1, <2>3, <3>1, <3>2 DEF DownwardTypes
  <2> QED
    BY <2>1, <2>2, <2>3
<1>5. CASE SendReply
  <2>0. replies' = replies + 1 /\ Len(downward) < MaxFrames
    BY <1>5 DEF SendReply
  <2>1. CASE downward' = downward
    BY <2>0, <2>1 DEF DownwardTypes
  <2>2. CASE downward' = Append(downward, Reply(replies + 1))
    <3>1. Reply(replies + 1) \in DownwardFrame /\ Reply(replies + 1).nr = replies + 1
      BY DEF Reply, DownwardFrame
    <3>2. /\ downward' \in Seq(DownwardFrame) /\ Len(downward') = Len(downward) + 1
          /\ downward'[Len(downward) + 1] = Reply(replies + 1)
          /\ \A k \in 1 .. Len(downward) : downward'[k] = downward[k]
      BY <1>0, <2>2, <3>1, AppendFacts
    <3>3. ASSUME NEW k \in 1 .. Len(downward'), downward'[k].type = "send"
          PROVE  downward'[k].nr \in 1 .. replies'
      <4>1. CASE k = Len(downward) + 1
        BY <2>0, <3>1, <3>2, <4>1
      <4>2. CASE k # Len(downward) + 1
        <5>1. k \in 1 .. Len(downward)
          BY <1>0, <3>2, <4>2
        <5>2. downward[k].nr \in 1 .. replies
          BY <3>2, <3>3, <5>1 DEF DownwardTypes
        <5> QED
          BY <2>0, <3>2, <5>1, <5>2
      <4> QED
        BY <4>1, <4>2
    <3> QED
      BY <1>0, <2>0, <3>2, <3>3 DEF DownwardTypes
  <2> QED
    BY <1>5, <2>1, <2>2 DEF SendReply
<1> QED
  BY <1>1, <1>2, <1>3, <1>4, <1>5
  DEF BridgeNext, StartBridge, EndBridge, WhatsAppOpens, WhatsAppCloses, MessageArrives,
      Reconnect, FirstFrame, LinkLost, TakeCommand, CommandEnds, StartListening,
      StopListening, TakeFrame, channelState, bridgeCounts, bridgeProcess

\* Every step keeps the types of what was published, is being sent and was delivered.
LEMMA ListTypesStep ==
  ASSUME ListTypes, UpwardTypes, DownwardTypes, arrivals \in Nat, replies \in Nat, BridgeNext
  PROVE  ListTypes'
<1>1. \/ told' = told \/ told' = <<>>
      \/ /\ upward # <<>> /\ Head(upward).type = "message" /\ arrivals' = arrivals
         /\ told' = Append(told, Head(upward).nr)
  BY DEF BridgeNext, StartBridge, EndBridge, WhatsAppOpens, WhatsAppCloses, MessageArrives,
         Reconnect, FirstFrame, LinkLost, TakeCommand, CommandEnds, StartListening, SendReply,
         StopListening, Join, TakeFrame, channelState, bridgeCounts, bridgeProcess
<1>2. arrivals' \in {arrivals, arrivals + 1} /\ replies' \in {replies, replies + 1}
  BY DEF BridgeNext, StartBridge, EndBridge, WhatsAppOpens, WhatsAppCloses, MessageArrives,
         Reconnect, FirstFrame, LinkLost, TakeCommand, CommandEnds, StartListening, SendReply,
         StopListening, Join, TakeFrame, channelState, bridgeCounts, bridgeProcess
<1>3. 1 .. arrivals \subseteq 1 .. arrivals' /\ 1 .. replies \subseteq 1 .. replies'
  BY <1>2
<1>4. told' \in Seq(1 .. arrivals')
  <2>1. CASE told' = told
    BY <1>3, <2>1, SeqMonotonic DEF ListTypes
  <2>2. CASE told' = <<>>
    BY <2>2, EmptySeq
  <2>3. CASE /\ upward # <<>> /\ Head(upward).type = "message" /\ arrivals' = arrivals
             /\ told' = Append(told, Head(upward).nr)
    <3>1. Head(upward) = upward[1] /\ 1 \in 1 .. Len(upward)
      BY <2>3, TailFacts DEF UpwardTypes
    <3>2. Head(upward).nr \in 1 .. arrivals
      BY <2>3, <3>1 DEF UpwardTypes
    <3> QED
      BY <2>3, <3>2, AppendFacts DEF ListTypes
  <2> QED
    BY <1>1, <2>1, <2>2, <2>3
<1>5. \/ executing' \subseteq executing
      \/ /\ downward # <<>> /\ Head(downward).type = "send"
         /\ executing' = executing \cup {Head(downward).nr}
  BY DEF BridgeNext, StartBridge, EndBridge, WhatsAppOpens, WhatsAppCloses, MessageArrives,
         Reconnect, FirstFrame, LinkLost, TakeCommand, CommandEnds, StartListening, SendReply,
         StopListening, Join, TakeFrame, channelState, bridgeCounts, bridgeProcess
<1>6. executing' \subseteq 1 .. replies'
  <2>1. CASE executing' \subseteq executing
    BY <1>3, <2>1 DEF ListTypes
  <2>2. CASE /\ downward # <<>> /\ Head(downward).type = "send"
             /\ executing' = executing \cup {Head(downward).nr}
    <3>1. Head(downward) = downward[1] /\ 1 \in 1 .. Len(downward)
      BY <2>2, TailFacts DEF DownwardTypes
    <3>2. Head(downward).nr \in 1 .. replies
      BY <2>2, <3>1 DEF DownwardTypes
    <3> QED
      BY <1>3, <2>2, <3>2 DEF ListTypes
  <2> QED
    BY <1>5, <2>1, <2>2
<1>7. delivered' = delivered \/ \E n \in executing : delivered' = Append(delivered, n)
  BY DEF BridgeNext, StartBridge, EndBridge, WhatsAppOpens, WhatsAppCloses, MessageArrives,
         Reconnect, FirstFrame, LinkLost, TakeCommand, CommandEnds, StartListening, SendReply,
         StopListening, Join, TakeFrame, channelState, bridgeCounts, bridgeProcess
<1>8. delivered' \in Seq(1 .. replies')
  <2>1. delivered \in Seq(1 .. replies')
    BY <1>3, SeqMonotonic DEF ListTypes
  <2>2. \A n \in executing : n \in 1 .. replies'
    BY <1>3 DEF ListTypes
  <2> QED
    BY <1>7, <2>1, <2>2, AppendFacts, ZenonT(60)
<1> QED
  BY <1>4, <1>6, <1>8 DEF ListTypes

\* Every step keeps the types of the rest.
LEMMA BridgeScalarsStep ==
  ASSUME BridgeScalars, UpwardTypes, BridgeNext
  PROVE  BridgeScalars'
<1>1. secret' = secret /\ arrivals' \in {arrivals, arrivals + 1} /\ replies' \in {replies, replies + 1}
  BY DEF BridgeNext, StartBridge, EndBridge, WhatsAppOpens, WhatsAppCloses, MessageArrives,
         Reconnect, FirstFrame, LinkLost, TakeCommand, CommandEnds, StartListening, SendReply,
         StopListening, Join, TakeFrame, channelState, bridgeCounts, bridgeProcess
<1>2. link' \in {link, "down", "greeting", "joined"} /\ wa' \in {wa, "none", "connecting", "open", "closed", "logged out"}
  BY DEF BridgeNext, StartBridge, EndBridge, WhatsAppOpens, WhatsAppCloses, MessageArrives,
         Reconnect, FirstFrame, LinkLost, TakeCommand, CommandEnds, StartListening, SendReply,
         StopListening, Join, TakeFrame, LinkBreaks, channelState, bridgeCounts, bridgeProcess
<1>3. bridge' \in {bridge, TRUE, FALSE} /\ retry' \in {retry, TRUE, FALSE} /\ listening' \in {listening, TRUE, FALSE}
  BY Zenon DEF BridgeNext, StartBridge, EndBridge, WhatsAppOpens, WhatsAppCloses, MessageArrives,
         Reconnect, FirstFrame, LinkLost, TakeCommand, CommandEnds, StartListening, SendReply,
         StopListening, Join, TakeFrame, channelState, bridgeCounts, bridgeProcess
<1>4. \/ connected' \in {connected, TRUE, FALSE}
      \/ upward # <<>> /\ Head(upward).type = "status" /\ connected' = Head(upward).up
  BY Zenon DEF BridgeNext, StartBridge, EndBridge, WhatsAppOpens, WhatsAppCloses, MessageArrives,
         Reconnect, FirstFrame, LinkLost, TakeCommand, CommandEnds, StartListening, SendReply,
         StopListening, Join, TakeFrame, LinkBreaks, channelState, bridgeCounts, bridgeProcess
<1>5. ASSUME upward # <<>>, Head(upward).type = "status"
      PROVE  Head(upward).up \in BOOLEAN
  <2>1. Head(upward) \in UpwardFrame
    BY <1>5, TailFacts DEF UpwardTypes
  <2> QED
    BY <1>5, <2>1 DEF UpwardFrame
<1>6. connected' \in BOOLEAN
  BY <1>4, <1>5 DEF BridgeScalars
<1>7. bridge' \in BOOLEAN /\ retry' \in BOOLEAN /\ listening' \in BOOLEAN
  BY <1>3, Zenon DEF BridgeScalars
<1>8. secret' \in Secrets \cup {"none"}
  BY <1>1, Zenon DEF BridgeScalars
<1>10. arrivals' \in Nat /\ replies' \in Nat
  <2>1. arrivals \in Nat /\ replies \in Nat
    BY DEF BridgeScalars
  <2> QED
    BY <1>1, <2>1
<1>9. /\ wa' \in {"none", "connecting", "open", "closed", "logged out"}
      /\ link' \in {"down", "greeting", "joined"}
  BY <1>2 DEF BridgeScalars
<1> QED
  BY <1>6, <1>7, <1>8, <1>9, <1>10, Zenon DEF BridgeScalars

\* Every step keeps the bridge's door closed to who lacks the token, and nothing goes
\* up to a client that has not joined.
LEMMA JoinedStep ==
  ASSUME BridgeTypes, Joined, BridgeNext
  PROVE  Joined'
<1>0. /\ upward \in Seq(UpwardFrame) /\ downward \in Seq(DownwardFrame)
      /\ Secrets \subseteq {"free", "right", "wrong", "missing"}
      /\ link \in {"down", "greeting", "joined"} /\ secret' = secret
  BY BridgeAssumption
  DEF BridgeTypes, BridgeScalars, UpwardTypes, DownwardTypes, BridgeNext, StartBridge, EndBridge,
      WhatsAppOpens, WhatsAppCloses, MessageArrives, Reconnect, FirstFrame, LinkLost,
      TakeCommand, CommandEnds, StartListening, SendReply, StopListening, Join, TakeFrame
<1>1. CASE UNCHANGED <<link, upward, connected, told, delivered, executing>>
  BY <1>0, <1>1, Zenon DEF Joined
<1>2. CASE /\ LinkBreaks /\ told' \in {told, <<>>} /\ delivered' = delivered
           /\ executing' \in {executing, {}}
  <2>1. link' = "down" /\ upward' = <<>> /\ connected' = FALSE
    BY <1>2 DEF LinkBreaks
  <2> QED
    BY <1>0, <1>2, <2>1 DEF Joined
<1>3. CASE WhatsAppOpens \/ WhatsAppCloses \/ MessageArrives
  <2>1. /\ UNCHANGED <<link, connected, told, delivered, executing>>
        /\ link # "joined" => upward' = upward
    BY <1>3 DEF WhatsAppOpens, WhatsAppCloses, MessageArrives, Broadcast, channelState
  <2> QED
    BY <1>0, <2>1 DEF Joined
<1>4. CASE FirstFrame /\ Head(downward) = Auth /\ secret = "right"
  BY <1>0, <1>4 DEF Joined, FirstFrame, bridgeProcess, bridgeCounts
<1>5. CASE Join
  BY <1>0, <1>5 DEF Joined, Join, bridgeProcess, bridgeCounts
<1>6. CASE TakeCommand
  BY <1>0, <1>6 DEF Joined, TakeCommand, channelState, bridgeProcess, bridgeCounts
<1>7. CASE \E n \in 1 .. MaxReplies : CommandEnds(n)
  BY <1>0, <1>7 DEF Joined, CommandEnds, channelState, bridgeProcess, bridgeCounts
<1>8. CASE TakeFrame
  <2>1. link = "joined" /\ link' = "joined"
    BY <1>0, <1>8 DEF Joined, TakeFrame
  <2> QED
    BY <1>0, <1>8, <2>1 DEF Joined, TakeFrame
<1> QED
  BY <1>1, <1>2, <1>3, <1>4, <1>5, <1>6, <1>7, <1>8
  DEF BridgeNext, StartBridge, EndBridge, Reconnect, FirstFrame, LinkLost,
      StartListening, SendReply, StopListening, channelState, bridgeProcess, bridgeCounts

\* Every step leaves a client that has joined with a true _connected beside an open
\* WhatsApp, once it has handled what is in flight.
LEMMA NeverMuteStep ==
  ASSUME BridgeTypes, Joined, NeverMute, BridgeNext
  PROVE  NeverMute'
<1>0. upward \in Seq(UpwardFrame) /\ Len(upward) \in Nat /\ DOMAIN upward = 1 .. Len(upward)
  BY LenProperties DEF BridgeTypes, UpwardTypes
<1>1. CASE UNCHANGED <<link, wa, upward, connected>>
  BY <1>1 DEF NeverMute, WillBeConnected
<1>2. CASE link' # "joined" \/ wa' # "open"
  BY <1>2 DEF NeverMute
<1>3. CASE WhatsAppOpens /\ link = "joined"
  <2>1. Broadcast(Status(TRUE)) /\ Len(upward) < MaxFrames
    BY <1>3 DEF WhatsAppOpens
  <2>2. /\ upward' \in Seq(UpwardFrame) /\ Len(upward') = Len(upward) + 1
        /\ upward'[Len(upward) + 1] = Status(TRUE)
    BY <1>0, <1>3, <2>1, StatusFrame, BroadcastFacts
  <2>3. Len(upward) + 1 \in DOMAIN upward' /\ Len(upward) + 1 + 1 .. Len(upward') = {}
    BY <1>0, <2>2
  <2> QED
    BY <2>2, <2>3 DEF NeverMute, WillBeConnected
<1>4. CASE MessageArrives /\ link = "joined"
  <2>1. Broadcast(Message(arrivals + 1)) /\ Len(upward) < MaxFrames /\ arrivals + 1 \in Nat
    BY <1>4 DEF MessageArrives, Broadcast, BridgeTypes, BridgeScalars
  <2>2. /\ upward' \in Seq(UpwardFrame) /\ Len(upward') = Len(upward) + 1
        /\ upward'[Len(upward) + 1].type = "message"
        /\ \A k \in 1 .. Len(upward) : upward'[k] = upward[k]
    BY <1>0, <1>4, <2>1, MessageFrame, BroadcastFacts
  <2>3. UNCHANGED <<link, wa, connected>>
    BY <1>4 DEF MessageArrives, channelState, bridgeProcess
  <2>4. DOMAIN upward' = 1 .. Len(upward) + 1
    BY <2>2, LenProperties
  <2>5. CASE connected /\ \A k \in DOMAIN upward : upward[k].type # "status"
    <3>1. \A k \in DOMAIN upward' : upward'[k].type # "status"
      BY <1>0, <2>2, <2>4, <2>5
    <3>2. connected'
      BY <2>3, <2>5
    <3> QED
      BY <3>1, <3>2 DEF NeverMute, WillBeConnected
  <2>6. ASSUME NEW k \in DOMAIN upward, upward[k] = Status(TRUE),
               \A j \in k + 1 .. Len(upward) : upward[j].type # "status"
        PROVE  NeverMute'
    <3>1. k \in DOMAIN upward' /\ upward'[k] = Status(TRUE)
      <4>1. k \in 1 .. Len(upward) /\ k \in 1 .. Len(upward) + 1
        BY <1>0, <2>6
      <4> QED
        BY <2>2, <2>4, <2>6, <4>1
    <3>2. \A j \in k + 1 .. Len(upward') : upward'[j].type # "status"
      BY <1>0, <2>2, <2>6
    <3> QED
      BY <3>1, <3>2 DEF NeverMute, WillBeConnected
  <2>7. CASE ~(link = "joined" /\ wa = "open")
    BY <2>3, <2>7 DEF NeverMute
  <2> QED
    BY <2>5, <2>6, <2>7 DEF NeverMute, WillBeConnected
<1>5. CASE TakeFrame
  <2>1. upward # <<>> /\ upward' = Tail(upward) /\ UNCHANGED <<link, wa>>
    BY <1>5 DEF TakeFrame, bridgeProcess
  <2>2. /\ upward' \in Seq(UpwardFrame) /\ Len(upward') = Len(upward) - 1 /\ Len(upward) \in Nat \ {0}
        /\ \A k \in 1 .. Len(upward') : upward'[k] = upward[k + 1]
        /\ Head(upward) = upward[1]
    BY <1>0, <2>1, TailFacts
  <2>3. DOMAIN upward' = 1 .. Len(upward) - 1
    BY <2>2, LenProperties
  <2>4. connected' = IF upward[1].type = "status" THEN upward[1].up ELSE connected
    BY <1>5, <2>2 DEF TakeFrame
  <2>5. CASE connected /\ \A k \in DOMAIN upward : upward[k].type # "status"
    <3>1. connected' /\ \A k \in DOMAIN upward' : upward'[k].type # "status"
      BY <1>0, <2>2, <2>3, <2>4, <2>5
    <3> QED
      BY <3>1 DEF NeverMute, WillBeConnected
  <2>6. ASSUME NEW k \in DOMAIN upward, upward[k] = Status(TRUE),
               \A j \in k + 1 .. Len(upward) : upward[j].type # "status"
        PROVE  NeverMute'
    <3>1. CASE k = 1
      <4>1. connected'
        BY <2>4, <2>6, <3>1 DEF Status
      <4>2. \A j \in DOMAIN upward' : upward'[j].type # "status"
        BY <1>0, <2>2, <2>3, <2>6, <3>1
      <4> QED
        BY <4>1, <4>2 DEF NeverMute, WillBeConnected
    <3>2. CASE k # 1
      <4>1. k - 1 \in DOMAIN upward' /\ upward'[k - 1] = Status(TRUE)
        <5>1. k - 1 \in 1 .. Len(upward) - 1 /\ k \in 1 .. Len(upward) /\ (k - 1) + 1 = k
          BY <1>0, <2>6, <3>2
        <5> QED
          BY <2>2, <2>3, <2>6, <5>1
      <4>2. \A j \in (k - 1) + 1 .. Len(upward') : upward'[j].type # "status"
        BY <1>0, <2>2, <2>6, <3>2, SMTT(30)
      <4> QED
        BY <4>1, <4>2 DEF NeverMute, WillBeConnected
    <3> QED
      BY <3>1, <3>2
  <2>7. CASE ~(link = "joined" /\ wa = "open")
    BY <2>1, <2>7 DEF NeverMute
  <2> QED
    BY <2>5, <2>6, <2>7 DEF NeverMute, WillBeConnected
<1>6. CASE FirstFrame /\ link' = "joined"
  <2>1. UNCHANGED <<upward, connected>> /\ connected /\ upward = <<>>
    BY <1>6 DEF FirstFrame, LinkBreaks, Joined
  <2>2. DOMAIN upward' = {}
    BY <2>1
  <2> QED
    BY <2>1, <2>2 DEF NeverMute, WillBeConnected
<1>7. CASE Join
  <2>1. upward' = <<>> /\ connected'
    BY <1>7 DEF Join, Joined
  <2>2. DOMAIN upward' = {}
    BY <2>1
  <2> QED
    BY <2>1, <2>2 DEF NeverMute, WillBeConnected
<1> QED
  BY <1>1, <1>2, <1>3, <1>4, <1>5, <1>6, <1>7
  DEF BridgeNext, StartBridge, EndBridge, WhatsAppOpens, WhatsAppCloses, MessageArrives,
      Reconnect, LinkLost, TakeCommand, CommandEnds, StartListening, SendReply, StopListening,
      LinkBreaks, channelState, bridgeProcess, bridgeCounts

\* Every step keeps the messages in order, published and in flight.
LEMMA OrderedStep ==
  ASSUME BridgeTypes, Joined, Ordered, BridgeNext
  PROVE  Ordered'
<1>0. /\ upward \in Seq(UpwardFrame) /\ Len(upward) \in Nat /\ arrivals \in Nat
      /\ told \in Seq(1 .. arrivals) /\ told \in Seq(Nat) /\ Len(told) \in Nat
      /\ \A j \in 1 .. Len(told) : told[j] \in 1 .. arrivals
  <2>1. told \in Seq(1 .. arrivals)
    BY DEF BridgeTypes, ListTypes
  <2>2. told \in Seq(Nat)
    <3>1. 1 .. arrivals \subseteq Nat
      OBVIOUS
    <3> QED
      BY <2>1, <3>1, SeqMonotonic
  <2> QED
    BY <2>1, <2>2, LenProperties, ElementOfSeq DEF BridgeTypes, BridgeScalars, UpwardTypes
<1>1. CASE UNCHANGED <<upward, told>>
  BY <1>1 DEF Ordered
<1>2. CASE LinkBreaks /\ (told' = told \/ told' = <<>>)
  BY <1>0, <1>2, BrokenLink DEF Ordered
<1>3. ASSUME NEW f \in UpwardFrame, upward' = Append(upward, f), told' = told,
             f.type = "message" => f.nr = arrivals + 1
      PROVE  Ordered'
  <2>1. /\ Len(upward') = Len(upward) + 1 /\ upward'[Len(upward) + 1] = f
        /\ \A k \in 1 .. Len(upward) : upward'[k] = upward[k]
    BY <1>0, <1>3, AppendFacts
  <2>2. \A k \in 1 .. Len(upward) : upward[k].type = "message" => upward[k].nr \in 1 .. arrivals
    BY DEF BridgeTypes, UpwardTypes
  <2>3. ASSUME NEW j \in 1 .. Len(told), NEW k \in 1 .. Len(upward'), upward'[k].type = "message"
        PROVE  told[j] < upward'[k].nr
    <3>1. CASE k = Len(upward) + 1
      BY <1>0, <1>3, <2>1, <2>3, <3>1
    <3>2. CASE k # Len(upward) + 1
      <4>1. k \in 1 .. Len(upward)
        BY <1>0, <2>1, <3>2
      <4> QED
        BY <2>1, <2>3, <4>1 DEF Ordered
    <3> QED
      BY <3>1, <3>2
  <2>4. ASSUME NEW j \in 1 .. Len(upward'), NEW k \in 1 .. Len(upward'), j < k,
               upward'[j].type = "message", upward'[k].type = "message"
        PROVE  upward'[j].nr < upward'[k].nr
    <3>0. j \in 1 .. Len(upward)
      BY <1>0, <2>1, <2>4
    <3>1. CASE k = Len(upward) + 1
      <4>1. upward'[j].nr \in 1 .. arrivals
        BY <2>1, <2>2, <2>4, <3>0
      <4> QED
        BY <1>0, <1>3, <2>1, <2>4, <3>1, <4>1
    <3>2. CASE k # Len(upward) + 1
      <4>1. k \in 1 .. Len(upward)
        BY <1>0, <2>1, <3>2
      <4> QED
        BY <2>1, <2>4, <3>0, <4>1 DEF Ordered
    <3> QED
      BY <3>1, <3>2
  <2> QED
    BY <1>3, <2>3, <2>4 DEF Ordered
<1>4. CASE WhatsAppOpens \/ WhatsAppCloses \/ MessageArrives
  <2>1. /\ told' = told
        /\ \/ Broadcast(Status(TRUE)) \/ Broadcast(Status(FALSE)) \/ Broadcast(Message(arrivals + 1))
    BY <1>4 DEF WhatsAppOpens, WhatsAppCloses, MessageArrives, Broadcast, channelState
  <2>2. CASE upward' = upward
    BY <1>1, <2>1, <2>2
  <2>3. PICK f \in {Status(TRUE), Status(FALSE), Message(arrivals + 1)} :
           upward' = upward \/ upward' = Append(upward, f)
    BY <2>1 DEF Broadcast
  <2>4. f \in UpwardFrame /\ (f.type = "message" => f.nr = arrivals + 1)
    <3>1. CASE f = Message(arrivals + 1)
      BY <1>0, <3>1, MessageFrame
    <3>2. CASE f = Status(TRUE) \/ f = Status(FALSE)
      BY <3>2, StatusFrame
    <3> QED
      BY <3>1, <3>2
  <2> QED
    BY <1>3, <2>1, <2>2, <2>3, <2>4
<1>5. CASE TakeFrame
  <2>1. /\ upward # <<>> /\ upward' = Tail(upward)
        /\ told' = IF Head(upward).type = "message" THEN Append(told, Head(upward).nr) ELSE told
    BY <1>5 DEF TakeFrame
  <2>2. /\ Len(upward') = Len(upward) - 1 /\ Len(upward) \in Nat \ {0}
        /\ \A k \in 1 .. Len(upward') : upward'[k] = upward[k + 1]
        /\ Head(upward) = upward[1]
    BY <1>0, <2>1, TailFacts
  <2>3. \A k \in 1 .. Len(upward') : k + 1 \in 1 .. Len(upward) /\ 1 \in 1 .. Len(upward) /\ 1 < k + 1
    BY <2>2
  <2>4. \A j, k \in 1 .. Len(upward') :
           j < k /\ upward'[j].type = "message" /\ upward'[k].type = "message"
              => upward'[j].nr < upward'[k].nr
    <3>1. \A j, k \in 1 .. Len(upward') : j < k => j + 1 < k + 1
      BY <2>2
    <3> QED
      BY <2>2, <2>3, <3>1 DEF Ordered
  <2>5. CASE upward[1].type # "message"
    BY <2>1, <2>2, <2>3, <2>4, <2>5 DEF Ordered
  <2>6. CASE upward[1].type = "message"
    <3>1. told' = Append(told, upward[1].nr)
      BY <2>1, <2>2, <2>6
    <3>2. upward[1].nr \in 1 .. arrivals /\ upward[1].nr \in Nat
      BY <2>2, <2>6 DEF BridgeTypes, UpwardTypes
    <3>3. \A j \in 1 .. Len(told) : told[j] < upward[1].nr
      BY <2>2, <2>6 DEF Ordered
    <3>4. \A j, k \in 1 .. Len(told') : j < k => told'[j] < told'[k]
      BY <1>0, <3>1, <3>2, <3>3, IncreasingAppend DEF Ordered
    <3>5. /\ Len(told') = Len(told) + 1 /\ told'[Len(told) + 1] = upward[1].nr
          /\ \A j \in 1 .. Len(told) : told'[j] = told[j]
      BY <1>0, <3>1, <3>2, AppendFacts
    <3>6. ASSUME NEW j \in 1 .. Len(told'), NEW k \in 1 .. Len(upward'), upward'[k].type = "message"
          PROVE  told'[j] < upward'[k].nr
      <4>1. CASE j = Len(told) + 1
        BY <2>2, <2>3, <2>6, <3>5, <3>6, <4>1 DEF Ordered
      <4>2. CASE j # Len(told) + 1
        <5>1. j \in 1 .. Len(told)
          BY <1>0, <3>5, <4>2
        <5> QED
          BY <2>2, <2>3, <3>5, <3>6, <5>1 DEF Ordered
      <4> QED
        BY <4>1, <4>2
    <3> QED
      BY <2>4, <3>4, <3>6 DEF Ordered
  <2> QED
    BY <2>5, <2>6
<1> QED
  BY <1>1, <1>2, <1>4, <1>5, UpwardSteps

-----------------------------------------------------------------------------
\* The invariant of the bridge and its client holds of every behaviour.
THEOREM BridgeInvariant == BridgeSpec => []BridgeInv
<1>1. BridgeInit => BridgeInv
  <2> SUFFICES ASSUME BridgeInit PROVE BridgeInv
    OBVIOUS
  <2>0. /\ MaxFrames \in Nat /\ Len(<<>>) = 0 /\ DOMAIN <<>> = {}
        /\ <<>> \in Seq(UpwardFrame) /\ <<>> \in Seq(DownwardFrame)
        /\ <<>> \in Seq(1 .. replies) /\ <<>> \in Seq(1 .. arrivals)
    BY BridgeAssumption, EmptySeq
  <2>1. BridgeScalars
    BY DEF BridgeInit, BridgeScalars
  <2>2. UpwardTypes /\ DownwardTypes /\ ListTypes
    BY <2>0 DEF BridgeInit, UpwardTypes, DownwardTypes, ListTypes
  <2>3. Joined /\ NeverMute /\ Ordered
    BY <2>0 DEF BridgeInit, Joined, NeverMute, Ordered
  <2> QED
    BY <2>1, <2>2, <2>3 DEF BridgeInv, BridgeTypes
<1>2. BridgeInv /\ [BridgeNext]_bridgeVars => BridgeInv'
  <2> SUFFICES ASSUME BridgeInv, [BridgeNext]_bridgeVars PROVE BridgeInv'
    OBVIOUS
  <2>1. CASE BridgeNext
    BY <2>1, BridgeScalarsStep, UpwardTypesStep, DownwardTypesStep, ListTypesStep,
       JoinedStep, NeverMuteStep, OrderedStep
    DEF BridgeInv, BridgeTypes, BridgeScalars
  <2>2. CASE UNCHANGED bridgeVars
    BY <2>2, ZenonT(60) DEF BridgeInv, BridgeTypes, BridgeScalars, UpwardTypes, DownwardTypes, ListTypes,
                Joined, NeverMute, WillBeConnected, Ordered, bridgeVars
  <2> QED
    BY <2>1, <2>2
<1> QED
  BY <1>1, <1>2, PTL DEF BridgeSpec

\* The channel does not stay mute beside an open WhatsApp, whatever connections break
\* and come back, and whatever frames were in flight.
THEOREM NeverStaysMute == BridgeSpec => []NeverMute
BY BridgeInvariant, PTL DEF BridgeInv

\* Who cannot show the token gets no message and sends none, and the types hold.
THEOREM TokenIsNeeded == BridgeSpec => [](BridgeTypeOK /\ TokenGuards)
<1>1. BridgeInv => BridgeTypeOK /\ TokenGuards
  <2> SUFFICES ASSUME BridgeInv PROVE BridgeTypeOK /\ TokenGuards
    OBVIOUS
  <2>1. TokenGuards
    BY DEF BridgeInv, Joined, TokenGuards
  <2>2. {bridge, retry, listening, connected} \subseteq BOOLEAN
    BY Zenon DEF BridgeInv, BridgeTypes, BridgeScalars
  <2> QED
    BY <2>1, <2>2
    DEF BridgeInv, BridgeTypes, BridgeScalars, UpwardTypes, DownwardTypes, ListTypes, BridgeTypeOK
<1> QED
  BY <1>1, BridgeInvariant, PTL

\* The inbox: what the channel publishes comes once and in the order of its arrival.
BridgeTaken == [k \in DOMAIN told |-> [chat |-> "any", at |-> told[k]]]

\* What a step does to what the channel has published.
LEMMA ToldSteps ==
  ASSUME BridgeTypes, BridgeTypes', BridgeNext
  PROVE  \/ told' = told
         \/ told' = <<>>
         \/ /\ Len(told') = Len(told) + 1
            /\ \A k \in 1 .. Len(told) : told'[k] = told[k]
<1>1. \/ told' = told \/ told' = <<>>
      \/ TakeFrame /\ Head(upward).type = "message"
  BY DEF BridgeNext, StartBridge, EndBridge, WhatsAppOpens, WhatsAppCloses, MessageArrives,
         Reconnect, FirstFrame, LinkLost, TakeCommand, CommandEnds, StartListening, SendReply,
         StopListening, Join, TakeFrame, channelState, bridgeCounts, bridgeProcess
<1>2. CASE TakeFrame /\ Head(upward).type = "message"
  <2>1. told' = Append(told, Head(upward).nr)
    BY <1>2 DEF TakeFrame
  <2>2. Head(upward) = upward[1] /\ 1 \in 1 .. Len(upward)
    BY <1>2, TailFacts DEF BridgeTypes, UpwardTypes, TakeFrame
  <2>3. Head(upward).nr \in 1 .. arrivals
    BY <1>2, <2>2 DEF BridgeTypes, UpwardTypes
  <2> QED
    BY <2>1, <2>3, AppendFacts DEF BridgeTypes, ListTypes
<1> QED
  BY <1>1, <1>2

\* A step of the bridge or its client is one of the inbox: a message is taken in
\* order, the process forgets, or nothing happens.
LEMMA BridgeStepIsInboxStep ==
  ASSUME BridgeInv, BridgeInv', [BridgeNext]_bridgeVars
  PROVE  [BridgeInbox!Take \/ BridgeInbox!Forget]_BridgeTaken
<1> DEFINE T == [chat : {"any"}, at : Nat]
<1>1. /\ told \in Seq(Nat) /\ Len(told) \in Nat /\ DOMAIN told = 1 .. Len(told)
      /\ \A k \in 1 .. Len(told) : told[k] \in Nat
  <2>1. told \in Seq(1 .. arrivals)
    BY DEF BridgeInv, BridgeTypes, ListTypes
  <2>2. 1 .. arrivals \subseteq Nat
    OBVIOUS
  <2>3. told \in Seq(Nat)
    BY <2>1, <2>2, SeqMonotonic
  <2> QED
    BY <2>3, LenProperties, ElementOfSeq
<1>2. /\ told' \in Seq(Nat) /\ Len(told') \in Nat /\ DOMAIN told' = 1 .. Len(told')
      /\ \A k \in 1 .. Len(told') : told'[k] \in Nat
  <2>1. told' \in Seq(1 .. arrivals')
    BY DEF BridgeInv, BridgeTypes, ListTypes
  <2>2. 1 .. arrivals' \subseteq Nat
    OBVIOUS
  <2>3. told' \in Seq(Nat)
    BY <2>1, <2>2, SeqMonotonic
  <2> QED
    BY <2>3, LenProperties, ElementOfSeq
<1>3. /\ BridgeTaken \in Seq(T) /\ Len(BridgeTaken) = Len(told)
      /\ \A k \in 1 .. Len(told) : BridgeTaken[k] = [chat |-> "any", at |-> told[k]]
  BY <1>1, IsASeq DEF BridgeTaken
<1>4. /\ BridgeTaken' \in Seq(T) /\ Len(BridgeTaken') = Len(told')
      /\ \A k \in 1 .. Len(told') : BridgeTaken'[k] = [chat |-> "any", at |-> told'[k]]
  BY <1>2, IsASeq DEF BridgeTaken
<1>5. CASE told' = told
  BY <1>5 DEF BridgeTaken
<1>6. CASE told' = <<>>
  <2>1. BridgeTaken' = <<>>
    BY <1>4, <1>6, EmptySeq
  <2> QED
    BY <2>1 DEF BridgeInbox!Forget, BridgeTaken
<1>7. CASE /\ Len(told') = Len(told) + 1
           /\ \A k \in 1 .. Len(told) : told'[k] = told[k]
  <2>1. IsPrefix(BridgeTaken, BridgeTaken')
    <3>1. \A k \in 1 .. Len(told) : k \in 1 .. Len(told')
      BY <1>1, <1>7
    <3>2. \A k \in 1 .. Len(BridgeTaken) : BridgeTaken'[k] = BridgeTaken[k]
      BY <1>3, <1>4, <1>7, <3>1
    <3>3. Len(BridgeTaken) <= Len(BridgeTaken')
      BY <1>1, <1>3, <1>4, <1>7
    <3> HIDE DEF T
    <3> QED
      BY <1>3, <1>4, <3>2, <3>3, PrefixFacts
  <2>2. \A j, k \in 1 .. Len(told') : j < k => told'[j] < told'[k]
    BY DEF BridgeInv, Ordered
  <2>3. BridgeInbox!InChatOrder(BridgeTaken')
    <3>1. DOMAIN BridgeTaken' = 1 .. Len(told')
      BY <1>4, LenProperties
    <3> QED
      BY <1>4, <2>2, <3>1 DEF BridgeInbox!InChatOrder
  <2> QED
    BY <2>1, <2>3 DEF BridgeInbox!Take, BridgeInbox!IsPrefix, IsPrefix, BridgeTaken
<1>8. CASE BridgeNext
  BY <1>5, <1>6, <1>7, <1>8, ToldSteps DEF BridgeInv
<1> QED
  BY <1>5, <1>8 DEF bridgeVars

\* Within one life of the channel no message of WhatsApp is published twice, and they
\* are published in the order in which they arrived.
THEOREM BridgeRefinesInbox == BridgeSpec => BridgeKeepsOrder
<1>1. BridgeInit => BridgeTaken = <<>>
  BY DEF BridgeInit, BridgeTaken
<1>2. BridgeInv /\ BridgeInv' /\ [BridgeNext]_bridgeVars
        => [BridgeInbox!Take \/ BridgeInbox!Forget]_BridgeTaken
  BY BridgeStepIsInboxStep
<1> QED
  BY <1>1, <1>2, BridgeInvariant, PTL
  DEF BridgeSpec, BridgeKeepsOrder, BridgeInbox!InboxSpec, BridgeInbox!InboxInit, BridgeTaken

-----------------------------------------------------------------------------
(* The channels that poll *)

\* The variables have their types; what is known are places of the log.
PollScalars ==
    /\ adapter \in PollAdapters \cup {"none"} /\ loop \in {"off", "ready", "asked", "working"}
    /\ turn \in DOMAIN PollChats /\ life \in 0 .. MaxLives

LogTyped ==
    /\ log \in Seq([chat : Range(PollChats), wanted : BOOLEAN]) /\ Len(log) <= MaxMessages
    /\ cursor \in [DOMAIN PollChats -> 0 .. Len(log)]

NotesTyped == settled \subseteq Written /\ everHeard \subseteq Written /\ excused \subseteq Written

ListsTyped ==
    /\ batch \in Seq(Written) /\ gathered \in Seq(Written) /\ heard \in Seq(Written)
    /\ remembered \in Seq(Written) /\ Len(remembered) <= SeenLimit

\* What an adapter does not use stays empty, and a process that has ended
\* remembers nothing.
HandsOf ==
    /\ batch # <<>> => /\ adapter \in Weixin \cup {"email"} /\ loop \in {"working", "off"}
                       /\ adapter \in Weixin => loop = "working"
    /\ gathered # <<>> => adapter = "email"
    /\ remembered # <<>> => adapter \in Weixin
    /\ loop = "working" => adapter \in Weixin \cup {"email"}
    /\ loop = "working" /\ adapter \in Weixin => batch # <<>>
    /\ loop = "off" => /\ \A t \in DOMAIN PollChats : cursor[t] = 0
                       /\ gathered = <<>> /\ remembered = <<>> /\ heard = <<>>
    /\ adapter = "none" => log = <<>> /\ loop = "off"

\* Telegram's offset is never ahead of the bus.
OffsetPublished ==
    adapter = "telegram" =>
        \A i \in Written : i <= cursor[1] /\ log[i].wanted => i \in everHeard \cup excused

\* What WeChat's account.json holds for dealt with is all up to some message.
SettledUpTo ==
    adapter \in Weixin => \A i \in settled : 1 .. i \subseteq settled

\* An id that is remembered is one whose message was published.
RememberedTold == \A i \in Range(remembered) : log[i].wanted => i \in everHeard

\* A mail to be fetched is unseen and comes once.
UnseenOnce ==
    adapter = "email" =>
        /\ Range(batch) \cap settled = {}
        /\ \A j, k \in 1 .. Len(batch) : batch[j] = batch[k] => j = k

\* The messages of a chat were published in order, ...
HeardInOrder ==
    adapter # "email" =>
        \A j, k \in 1 .. Len(heard) :
            j < k /\ log[heard[j]].chat = log[heard[k]].chat => heard[j] < heard[k]

\* ... none of them beyond the cursor of its chat, ...
HeardBelowCursor ==
    /\ adapter \in {"telegram"} \cup Weixin => \A i \in Range(heard) : i <= cursor[1]
    /\ adapter \in History =>
         \A i \in Range(heard), t \in DOMAIN PollChats : PollChats[t] = log[i].chat => i <= cursor[t]

\* ... and before what is left of WeChat's answer, whose first message alone may
\* be a repeated one: its id is remembered then.
BatchIsNew ==
    adapter \in Weixin =>
        /\ \A k \in 1 .. Len(batch) : batch[k] <= cursor[1]
        /\ \A i \in Range(remembered) : i <= cursor[1]
        /\ \A j, k \in 1 .. Len(batch) : j < k => batch[j] < batch[k]
        /\ \A i \in Range(heard) \cup Range(remembered), k \in 1 .. Len(batch) :
             i < batch[k] \/ (k = 1 /\ batch[1] \in Range(remembered))

\* The remembered ids increase; a published message that is not among them lies
\* SeenLimit messages back.
WindowIsRecent ==
    adapter \in Weixin =>
        /\ \A j, k \in 1 .. Len(remembered) : j <= k => remembered[j] + (k - j) <= remembered[k]
        /\ \A i \in Range(heard) \ Range(remembered) :
             /\ Len(remembered) = SeenLimit
             /\ \A k \in 1 .. Len(remembered) : i + k <= remembered[k]

PollTypes == PollScalars /\ LogTyped /\ NotesTyped /\ ListsTyped /\ HandsOf

PollInv ==
    /\ PollTypes /\ NothingPassedOver /\ OffsetPublished /\ SettledUpTo /\ RememberedTold
    /\ UnseenOnce /\ HeardInOrder /\ HeardBelowCursor /\ BatchIsNew /\ WindowIsRecent

-----------------------------------------------------------------------------
\* What an adapter's loop publishes of s.
Told(s) == Picked(s, {j \in DOMAIN s : log[s[j]].wanted})

\* publish_inbound keeps the order and drops what is not for the agent.
LEMMA PublishFacts ==
  ASSUME LogTyped, ListsTyped, NotesTyped, NEW s \in Seq(Written), Publish(s)
  PROVE  /\ Told(s) \in Seq(Written) /\ heard' = heard \o Told(s)
         /\ everHeard' = everHeard \cup Range(Told(s))
         /\ Range(Told(s)) \subseteq Range(s)
         /\ \A i \in Range(s) : log[i].wanted => i \in Range(Told(s))
         /\ \A j, k \in 1 .. Len(Told(s)) : j < k =>
              \E a, b \in 1 .. Len(s) : a < b /\ Told(s)[j] = s[a] /\ Told(s)[k] = s[b]
<1>1. Len(s) \in Nat /\ DOMAIN s = 1 .. Len(s) /\ Range(s) = {s[k] : k \in 1 .. Len(s)}
  BY LenProperties, RangeFacts
<1>2. PICK D : D = {j \in DOMAIN s : log[s[j]].wanted}
  OBVIOUS
<1>3. PICK conveyed : conveyed = Told(s)
  OBVIOUS
<1>4. conveyed = Picked(s, D) /\ D \in SUBSET DOMAIN s
  BY <1>2, <1>3 DEF Told
<1>5. /\ conveyed \in Seq(Written)
      /\ \A k \in DOMAIN conveyed : \E i \in D : conveyed[k] = s[i]
      /\ \A i \in D : \E k \in DOMAIN conveyed : conveyed[k] = s[i]
      /\ \A j, k \in DOMAIN conveyed :
           j < k => \E a, b \in D : a < b /\ conveyed[j] = s[a] /\ conveyed[k] = s[b]
  BY <1>4, PickedKeepsOrder
<1>6. DOMAIN conveyed = 1 .. Len(conveyed) /\ Range(conveyed) = {conveyed[k] : k \in 1 .. Len(conveyed)}
  BY <1>5, LenProperties, RangeFacts
<1>7. heard' = heard \o conveyed /\ everHeard' = everHeard \cup Range(conveyed)
  BY <1>3 DEF Publish, Told
<1>8. Range(conveyed) \subseteq Range(s)
  BY <1>1, <1>2, <1>5, <1>6
<1>9. \A i \in Range(s) : log[i].wanted => i \in Range(conveyed)
  BY <1>1, <1>2, <1>5, <1>6
<1>10. \A j, k \in 1 .. Len(conveyed) : j < k =>
         \E a, b \in 1 .. Len(s) : a < b /\ conveyed[j] = s[a] /\ conveyed[k] = s[b]
  <2>1. ASSUME NEW j \in DOMAIN conveyed, NEW k \in DOMAIN conveyed, j < k
        PROVE  \E a, b \in 1 .. Len(s) : a < b /\ conveyed[j] = s[a] /\ conveyed[k] = s[b]
    <3>1. PICK a \in D, b \in D : a < b /\ conveyed[j] = s[a] /\ conveyed[k] = s[b]
      BY <1>5, <2>1
    <3>2. a \in 1 .. Len(s) /\ b \in 1 .. Len(s)
      BY <1>1, <1>4
    <3> QED
      BY <3>1, <3>2
  <2> QED
    BY <1>6, <2>1
<1> QED
  BY <1>3, <1>5, <1>7, <1>8, <1>9, <1>10

\* The places of the log and the chats that are asked about.
LEMMA PollFacts ==
  ASSUME LogTyped
  PROVE  /\ Len(log) \in Nat /\ Written = 1 .. Len(log) /\ Written \in SUBSET Nat /\ IsFiniteSet(Written)
         /\ 1 \in DOMAIN PollChats /\ DOMAIN PollChats = 1 .. Len(PollChats) /\ Len(PollChats) \in Nat \ {0}
         /\ \A t \in DOMAIN PollChats : PollChats[t] \in Range(PollChats)
         /\ \A t \in DOMAIN PollChats : cursor[t] \in Nat /\ cursor[t] <= Len(log)
         /\ \A i \in Written : log[i] \in [chat : Range(PollChats), wanted : BOOLEAN]
         /\ {SeenLimit, PageLimit} \subseteq Nat \ {0}
<1>1. Len(log) \in Nat /\ \A i \in 1 .. Len(log) : log[i] \in [chat : Range(PollChats), wanted : BOOLEAN]
  BY LenProperties, ElementOfSeq DEF LogTyped
<1>2. IsFiniteSet(1 .. Len(log))
  <2>1. Len(log) \in Nat
    BY <1>1
  <2> QED
    BY <2>1, FS_Interval
<1>3. PollChats \in Seq(Range(PollChats)) /\ PollChats # <<>>
  BY PollAssumption
<1>4. Len(PollChats) \in Nat /\ Len(PollChats) # 0 /\ DOMAIN PollChats = 1 .. Len(PollChats)
  BY <1>3, LenProperties, EmptySeq
<1>5. \A t \in DOMAIN PollChats : PollChats[t] \in Range(PollChats)
  BY <1>3, <1>4, ElementOfSeq
<1>6. \A t \in DOMAIN PollChats : cursor[t] \in Nat /\ cursor[t] <= Len(log)
  BY <1>1 DEF LogTyped
<1>7. {SeenLimit, PageLimit} \subseteq Nat \ {0}
  BY PollAssumption
<1>8. 1 \in 1 .. Len(PollChats)
  BY <1>4
<1> QED
  BY <1>1, <1>2, <1>4, <1>5, <1>6, <1>7, <1>8 DEF Written

\* Who writes adds a place to the log and changes nothing else.
LEMMA WriteFacts ==
  ASSUME LogTyped, Write
  PROVE  /\ \E e \in [chat : Range(PollChats), wanted : BOOLEAN] : log' = Append(log, e)
         /\ log' \in Seq([chat : Range(PollChats), wanted : BOOLEAN])
         /\ Len(log') = Len(log) + 1 /\ Len(log) < MaxMessages
         /\ Written' = Written \cup {Len(log) + 1} /\ Len(log) + 1 \notin Written
         /\ \A i \in Written : log'[i] = log[i]
         /\ adapter # "none"
         /\ UNCHANGED <<adapter, loop, settled, heard, life, pollMemory, pollHistory>>
<1>1. PICK c \in Range(PollChats), kind \in MessageKinds :
         log' = Append(log, [chat |-> c, wanted |-> Wanted(kind)])
  BY DEF Write
<1>2. /\ adapter # "none" /\ Len(log) < MaxMessages
      /\ UNCHANGED <<adapter, loop, settled, heard, life, pollMemory, pollHistory>>
  BY DEF Write
<1>3. Wanted(kind) \in BOOLEAN
  BY DEF Wanted, Allowed
<1>4. PICK e \in [chat : Range(PollChats), wanted : BOOLEAN] : log' = Append(log, e)
  BY <1>1, <1>3
<1>5. log \in Seq([chat : Range(PollChats), wanted : BOOLEAN])
  BY DEF LogTyped
<1>6. /\ log' \in Seq([chat : Range(PollChats), wanted : BOOLEAN]) /\ Len(log) \in Nat
      /\ Len(log') = Len(log) + 1 /\ \A k \in 1 .. Len(log) : log'[k] = log[k]
  BY <1>4, <1>5, AppendFacts
<1>7. Written' = Written \cup {Len(log) + 1} /\ Len(log) + 1 \notin Written
  BY <1>6 DEF Written
<1> QED
  BY <1>2, <1>4, <1>6, <1>7 DEF Written

\* Messages in the order of the log.
LEMMA OrderFacts ==
  ASSUME LogTyped, NEW D \in SUBSET Written
  PROVE  /\ InOrder(D) \in Seq(Written) /\ Range(InOrder(D)) = D
         /\ \A j, k \in 1 .. Len(InOrder(D)) : j < k => InOrder(D)[j] < InOrder(D)[k]
         /\ D = {} <=> InOrder(D) = <<>>
<1>1. IsFiniteSet(D) /\ D \in SUBSET Nat
  BY PollFacts, FS_Subset
<1>2. PICK s : s = InOrder(D)
  OBVIOUS
<1>3. PICK n : n = Cardinality(D)
  OBVIOUS
<1>4. /\ s \in Seq(D) /\ Len(s) = n /\ DOMAIN s = 1 .. n /\ n \in Nat
      /\ \A k \in 1 .. n : s[k] \in D
      /\ \A j, k \in 1 .. n : j < k => s[j] < s[k]
      /\ \A i \in D : \E k \in 1 .. n : s[k] = i
  BY <1>1, <1>2, <1>3, InOrderIsSorted
<1>5. Range(s) = {s[k] : k \in 1 .. n}
  BY <1>4, RangeFacts
<1>6. Range(s) = D
  BY <1>4, <1>5
<1>7. s \in Seq(Written)
  <2>1. s \in [1 .. n -> Written]
    BY <1>4
  <2> QED
    BY <1>4, <2>1
<1>8. D = {} <=> s = <<>>
  <2>1. D = {} <=> n = 0
    BY <1>1, <1>3, FS_EmptySet
  <2>2. n = 0 <=> s = <<>>
    BY <1>4, EmptySeq
  <2> QED
    BY <2>1, <2>2
<1> QED
  BY <1>2, <1>4, <1>6, <1>7, <1>8

LEMMA LastFacts ==
  ASSUME LogTyped, NEW D \in SUBSET Written, D # {}
  PROVE  Last1(D) \in D /\ \A j \in D : j <= Last1(D)
<1>1. IsFiniteSet(D) /\ D \in SUBSET Nat
  BY PollFacts, FS_Subset
<1>2. \E i \in D : \A j \in D : j <= i
  BY <1>1, GreatestExists
<1> QED
  BY <1>2 DEF Last1

\* What is newer in a chat than its cursor.
NewIn(t) == {i \in Written : i > cursor[t] /\ log[i].chat = PollChats[t]}

\* A page of a history is a part of what is new, in order, and no more than
\* what is older than its last message is left out for good.
LEMMA PageFacts ==
  ASSUME LogTyped, ListsTyped, NotesTyped, turn \in DOMAIN PollChats, TakePage
  PROVE  \E page \in Seq(Written) :
            /\ Publish(page) /\ Range(page) \subseteq NewIn(turn)
            /\ \A j, k \in 1 .. Len(page) : j < k => page[j] < page[k]
            /\ page = <<>> => cursor' = cursor /\ excused \subseteq excused'
            /\ page # <<>> => \E n \in Range(page) :
                 /\ cursor' = [cursor EXCEPT ![turn] = n] /\ \A i \in Range(page) : i <= n
                 /\ excused' = excused \cup {i \in NewIn(turn) \ Range(page) : i < n}
            /\ excused' \subseteq Written
<1>1. PICK new, size, page :
        /\ new = InOrder(NewIn(turn))
        /\ size = IF Len(new) < PageLimit THEN Len(new) ELSE PageLimit
        /\ page \in {SubSeq(new, 1, size), SubSeq(new, Len(new) - size + 1, Len(new))}
        /\ Publish(page)
        /\ cursor' = IF page = <<>> THEN cursor ELSE [cursor EXCEPT ![turn] = Last(page)]
        /\ excused' = excused \cup {i \in Range(new) \ Range(page) : i < Last(page)}
  BY DEF TakePage, NewIn
<1>2. /\ new \in Seq(Written) /\ Range(new) = NewIn(turn) /\ Len(new) \in Nat
      /\ \A j, k \in 1 .. Len(new) : j < k => new[j] < new[k]
  <2>1. NewIn(turn) \in SUBSET Written
    BY DEF NewIn
  <2> QED
    BY <1>1, <2>1, OrderFacts, LenProperties
<1>3. size \in Nat /\ size <= Len(new)
  BY <1>1, <1>2, PollFacts
<1>4. \A k \in 1 .. Len(new) : new[k] \in Written
  BY <1>2, ElementOfSeq
<1>5. \E d \in 0 .. Len(new) : /\ page \in Seq(Written) /\ Len(page) = size /\ d + size <= Len(new)
                               /\ \A k \in 1 .. size : page[k] = new[d + k]
  <2>1. CASE page = SubSeq(new, 1, size)
    <3>1. /\ SubSeq(new, 1, size) \in Seq(Written) /\ Len(SubSeq(new, 1, size)) = size
          /\ \A k \in 1 .. size : SubSeq(new, 1, size)[k] = new[0 + k]
      BY <1>2, <1>3, <1>4, SubSeqProperties
    <3> QED
      BY <1>2, <1>3, <2>1, <3>1
  <2>2. CASE page = SubSeq(new, Len(new) - size + 1, Len(new))
    <3>1. PICK d : d = Len(new) - size
      OBVIOUS
    <3>2. d \in 0 .. Len(new) /\ d + size = Len(new) /\ page = SubSeq(new, d + 1, Len(new))
      BY <1>2, <1>3, <2>2, <3>1
    <3>3. \A i \in (d + 1) .. Len(new) : new[i] \in Written
      BY <1>2, <1>4, <3>2
    <3>4. /\ page \in Seq(Written)
          /\ Len(page) = IF d + 1 <= Len(new) THEN Len(new) - (d + 1) + 1 ELSE 0
          /\ \A k \in 1 .. Len(new) - (d + 1) + 1 : page[k] = new[d + 1 + k - 1]
      <4>1. d + 1 \in Int /\ Len(new) \in Int
        BY <1>2, <3>2
      <4> QED
        BY <3>2, <3>3, <4>1, SubSeqProperties
    <3>5. Len(page) = size /\ \A k \in 1 .. size : page[k] = new[d + k]
      <4>1. d + 1 <= Len(new) + 1 /\ Len(new) - (d + 1) + 1 = size
        BY <1>2, <1>3, <3>2
      <4>2. Len(page) = size
        BY <1>2, <1>3, <3>2, <3>4, <4>1
      <4>3. ASSUME NEW k \in 1 .. size PROVE page[k] = new[d + k]
        <5>1. d + 1 + k - 1 = d + k
          BY <1>2, <1>3, <3>2
        <5> QED
          BY <3>4, <4>1, <5>1
      <4> QED
        BY <4>2, <4>3
    <3>6. d + size <= Len(new)
      BY <1>2, <3>2
    <3> QED
      BY <3>2, <3>4, <3>5, <3>6
  <2> QED
    BY <1>1, <2>1, <2>2
<1>6. PICK d \in 0 .. Len(new) : /\ page \in Seq(Written) /\ Len(page) = size /\ d + size <= Len(new)
                                 /\ \A k \in 1 .. size : page[k] = new[d + k]
  BY <1>5
<1>7. \A k \in 1 .. size : d + k \in 1 .. Len(new)
  BY <1>2, <1>3, <1>6
<1>8. Range(page) = {page[k] : k \in 1 .. size} /\ Range(new) = {new[k] : k \in 1 .. Len(new)}
  BY <1>2, <1>6, RangeFacts
<1>9. Range(page) \subseteq NewIn(turn)
  BY <1>2, <1>6, <1>7, <1>8
<1>10. ASSUME NEW j \in 1 .. size, NEW k \in 1 .. size, j < k PROVE page[j] < page[k]
  <2>1. d + j < d + k /\ d + j \in 1 .. Len(new) /\ d + k \in 1 .. Len(new)
    BY <1>2, <1>3, <1>6, <1>7, <1>10
  <2> QED
    BY <1>2, <1>6, <2>1
<1>11. ASSUME page # <<>>
       PROVE  /\ Last(page) \in Range(page) /\ \A i \in Range(page) : i <= Last(page)
  <2>1. size \in 1 .. size /\ Last(page) = page[size]
    BY <1>3, <1>6, <1>11, EmptySeq DEF Last
  <2>2. ASSUME NEW k \in 1 .. size PROVE page[k] <= page[size]
    <3>1. page[k] \in Nat /\ page[size] \in Nat
      BY <1>4, <1>6, <1>7, <2>1, PollFacts
    <3>2. k = size \/ k < size
      BY <1>3
    <3> QED
      BY <1>10, <2>1, <3>1, <3>2
  <2> QED
    BY <1>8, <2>1, <2>2
<1>12. excused \subseteq excused' /\ excused' \subseteq Written
  <2>1. NewIn(turn) \subseteq Written
    BY DEF NewIn
  <2> QED
    BY <1>1, <1>2, <2>1 DEF NotesTyped
<1> QED
  BY <1>1, <1>2, <1>6, <1>9, <1>10, <1>11, <1>12

\* What is published stays among the messages of the log.
LEMMA PublishTypes ==
  ASSUME LogTyped, ListsTyped, NotesTyped, NEW s \in Seq(Written), Publish(s)
  PROVE  heard' \in Seq(Written) /\ everHeard' \subseteq Written
<1>1. /\ Told(s) \in Seq(Written) /\ heard' = heard \o Told(s)
      /\ everHeard' = everHeard \cup Range(Told(s)) /\ Range(Told(s)) \subseteq Range(s)
  BY PublishFacts
<1>2. Range(s) \subseteq Written
  <2>1. Range(s) = {s[k] : k \in 1 .. Len(s)} /\ \A k \in 1 .. Len(s) : s[k] \in Written
    BY RangeFacts, ElementOfSeq
  <2> QED
    BY <2>1
<1>3. heard \o Told(s) \in Seq(Written)
  BY <1>1, ConcatProperties DEF ListsTyped
<1> QED
  BY <1>1, <1>2, <1>3 DEF NotesTyped

LEMMA EmptyList ==
  ASSUME NEW S PROVE <<>> \in Seq(S) /\ Range(<<>>) = {} /\ Len(<<>>) = 0
<1>1. PICK s : s = <<>>
  OBVIOUS
<1>2. s \in Seq(S) /\ Len(s) = 0
  BY <1>1, EmptySeq
<1>3. DOMAIN s = {}
  BY <1>2, LenProperties
<1>4. Range(s) = {}
  BY <1>3 DEF Range
<1> QED
  BY <1>1, <1>2, <1>4

\* A list of messages, without its first one or with one more.
LEMMA ListFactsOfPoll ==
  ASSUME LogTyped, NEW s \in Seq(Written)
  PROVE  /\ Len(s) \in Nat /\ DOMAIN s = 1 .. Len(s) /\ Range(s) \subseteq Written
         /\ Range(s) = {s[k] : k \in 1 .. Len(s)} /\ \A k \in 1 .. Len(s) : s[k] \in Written /\ s[k] \in Nat
         /\ s # <<>> => /\ Tail(s) \in Seq(Written) /\ Head(s) \in Written /\ Head(s) = s[1]
                        /\ Range(s) = {Head(s)} \cup Range(Tail(s)) /\ 1 \in 1 .. Len(s)
                        /\ Len(Tail(s)) = Len(s) - 1
                        /\ \A k \in 1 .. Len(Tail(s)) : Tail(s)[k] = s[k + 1] /\ k + 1 \in 1 .. Len(s)
         /\ \A i \in Written : /\ Append(s, i) \in Seq(Written) /\ Range(Append(s, i)) = Range(s) \cup {i}
                               /\ <<i>> \in Seq(Written) /\ Range(<<i>>) = {i}
<1>1. /\ Len(s) \in Nat /\ DOMAIN s = 1 .. Len(s)
      /\ Range(s) = {s[k] : k \in 1 .. Len(s)} /\ \A k \in 1 .. Len(s) : s[k] \in Written
  BY LenProperties, RangeFacts, ElementOfSeq
<1>2. \A k \in 1 .. Len(s) : s[k] \in Nat
  BY <1>1, PollFacts
<1>3. ASSUME s # <<>>
      PROVE  /\ Tail(s) \in Seq(Written) /\ Head(s) \in Written /\ Head(s) = s[1]
             /\ Range(s) = {Head(s)} \cup Range(Tail(s)) /\ 1 \in 1 .. Len(s)
             /\ Len(Tail(s)) = Len(s) - 1
             /\ \A k \in 1 .. Len(Tail(s)) : Tail(s)[k] = s[k + 1] /\ k + 1 \in 1 .. Len(s)
  <2>1. /\ Tail(s) \in Seq(Written) /\ Head(s) \in Written /\ Head(s) = s[1] /\ Len(s) \in Nat \ {0}
        /\ Len(Tail(s)) = Len(s) - 1 /\ \A k \in 1 .. Len(Tail(s)) : Tail(s)[k] = s[k + 1]
    BY <1>3, TailFacts
  <2>2. Range(s) = {Head(s)} \cup Range(Tail(s))
    BY <1>3, RangeFacts
  <2> QED
    BY <2>1, <2>2
<1>4. \A i \in Written : Append(s, i) \in Seq(Written) /\ Range(Append(s, i)) = Range(s) \cup {i}
  BY RangeFacts, AppendFacts
<1>5. \A i \in Written : <<i>> \in Seq(Written) /\ Range(<<i>>) = {i}
  BY DEF Range
<1> QED
  BY <1>1, <1>2, <1>3, <1>4, <1>5

\* What the service and the process hold stays within the log, ...
LEMMA PollScalarsStep ==
  ASSUME PollTypes, [PollNext]_pollVars
  PROVE  PollScalars' /\ adapter' = adapter
<1> USE DEF PollTypes, PollScalars
<1>1. 1 \in DOMAIN PollChats /\ DOMAIN PollChats = 1 .. Len(PollChats) /\ Len(PollChats) \in Nat \ {0}
  BY PollFacts
<1>2. CASE Write
  BY <1>2, WriteFacts DEF pollMemory
<1>3. CASE StartPolling
  <2>1. MaxLives \in Nat
    BY PollAssumption
  <2> QED
    BY <1>3, <2>1 DEF StartPolling
<1>4. CASE Ask \/ TakeUpdates \/ TakeBatch \/ ProcessMessage
  BY <1>4 DEF Ask, TakeUpdates, TakeBatch, ProcessMessage, pollMemory
<1>5. CASE AskFails \/ StopPolling \/ PollCrash
  BY <1>1, <1>5 DEF AskFails, StopPolling, PollCrash, ForgetAll
<1>6. CASE TakeSlackHistory \/ TakeDiscordHistory
  <2>1. TakePage
    BY <1>6 DEF TakeSlackHistory, TakeDiscordHistory
  <2> QED
    BY <1>1, <2>1 DEF TakePage
<1>7. CASE SearchUnseen \/ FetchMail \/ FetchUnflagged \/ SkipMail \/ FetchBreaks \/ PublishMails
  BY <1>7 DEF SearchUnseen, FetchMail, FetchUnflagged, SkipMail, FetchBreaks, PublishMails
<1>8. CASE UNCHANGED pollVars
  BY <1>8 DEF pollVars, pollMemory
<1> QED
  BY <1>2, <1>3, <1>4, <1>5, <1>6, <1>7, <1>8 DEF PollNext

\* The log changes by Write alone.
LEMMA LogStays ==
  ASSUME PollTypes, [PollNext]_pollVars
  PROVE  Write \/ (log' = log /\ Written' = Written)
BY DEF PollNext, PollTypes, StartPolling, Ask, AskFails, TakeUpdates, TakeSlackHistory,
       TakeDiscordHistory, TakePage, TakeBatch, ProcessMessage, SearchUnseen, FetchMail, FetchUnflagged,
       SkipMail, FetchBreaks, PublishMails, StopPolling, PollCrash, pollVars, Written

\* What the WeChat adapter reads: what is new, after at most one repeated message.
LEMMA BatchFacts ==
  ASSUME PollTypes, TakeBatch
  PROVE  \E again \in SUBSET Range(heard), new \in SUBSET Written :
            /\ new = {i \in Written : i > cursor[1]}
            /\ again = {} \/ \E i \in Range(heard) : again = {i} /\ i > cursor[1] - SeenLimit
            /\ InOrder(again) \in Seq(Written) /\ InOrder(new) \in Seq(Written)
            /\ batch' = InOrder(again) \o InOrder(new) /\ batch' \in Seq(Written)
            /\ Range(batch') = again \cup new
            /\ new = {} => cursor' = cursor
            /\ new # {} => \E n \in new : cursor' = [cursor EXCEPT ![1] = n] /\ \A i \in new : i <= n
            /\ batch' = <<>> => loop' = "ready"
            /\ batch' # <<>> => loop' = "working"
<1> USE DEF PollTypes
<1>1. PICK new, recent, again :
        /\ new = {i \in Written : i > cursor[1]}
        /\ recent = {i \in Range(heard) : i > cursor[1] - SeenLimit}
        /\ again \in {{}} \cup {{i} : i \in recent}
        /\ batch' = InOrder(again) \o InOrder(new)
        /\ cursor' = IF new = {} THEN cursor ELSE [cursor EXCEPT ![1] = Last1(new)]
        /\ loop' = IF batch' = <<>> THEN "ready" ELSE "working"
  BY DEF TakeBatch
<1>2. Range(heard) \subseteq Written
  BY ListFactsOfPoll DEF ListsTyped
<1>3. again \in SUBSET Range(heard) /\ again \in SUBSET Written /\ new \in SUBSET Written
  BY <1>1, <1>2
<1>4. /\ InOrder(again) \in Seq(Written) /\ InOrder(new) \in Seq(Written)
      /\ Range(InOrder(again)) = again /\ Range(InOrder(new)) = new
  BY <1>3, OrderFacts
<1>5. batch' \in Seq(Written) /\ Range(batch') = again \cup new
  <2>1. InOrder(again) \o InOrder(new) \in Seq(Written)
    BY <1>4, ConcatProperties
  <2>2. Range(InOrder(again) \o InOrder(new)) = again \cup new
    BY <1>4, RangeConcatenation
  <2> QED
    BY <1>1, <2>1, <2>2
<1>6. new # {} => \E n \in new : cursor' = [cursor EXCEPT ![1] = n] /\ \A i \in new : i <= n
  BY <1>1, <1>3, LastFacts
<1>7. again = {} \/ \E i \in Range(heard) : again = {i} /\ i > cursor[1] - SeenLimit
  BY <1>1
<1> QED
  BY <1>1, <1>3, <1>4, <1>5, <1>6, <1>7

\* ... the cursors, ...
LEMMA LogTypedStep ==
  ASSUME PollTypes, [PollNext]_pollVars
  PROVE  LogTyped'
<1> USE DEF PollTypes
<1>0. /\ Len(log) \in Nat /\ Written = 1 .. Len(log) /\ 1 \in DOMAIN PollChats
      /\ cursor \in [DOMAIN PollChats -> 0 .. Len(log)] /\ Written \subseteq 0 .. Len(log)
  BY PollFacts DEF LogTyped
<1>1. CASE Write
  <2>1. Len(log') = Len(log) + 1 /\ Len(log) + 1 <= MaxMessages /\ cursor' = cursor
    <3>1. MaxMessages \in Nat
      BY PollAssumption
    <3> QED
      BY <1>0, <1>1, <3>1, WriteFacts DEF pollMemory
  <2>2. cursor' \in [DOMAIN PollChats -> 0 .. Len(log')]
    BY <1>0, <2>1
  <2> QED
    BY <1>1, <2>1, <2>2, WriteFacts DEF LogTyped
<1>2. CASE log' = log /\ Written' = Written
  <2>1. CASE StartPolling
    <3>1. settled # {} => Last1(settled) \in Written
      BY LastFacts DEF NotesTyped
    <3>2. cursor' = cursor \/ \E n \in Written : cursor' = [cursor EXCEPT ![1] = n]
      BY <2>1, <3>1 DEF StartPolling
    <3> QED
      BY <1>0, <1>2, <3>2 DEF LogTyped
  <2>2. CASE AskFails \/ Ask \/ ProcessMessage \/ UNCHANGED pollVars
    BY <1>2, <2>2 DEF AskFails, Ask, ProcessMessage, pollVars, pollMemory, LogTyped
  <2>3. CASE TakeUpdates
    <3>1. PICK new : new = {i \in Written \ settled : i > cursor[1]}
                     /\ cursor' = IF new = {} THEN cursor ELSE [cursor EXCEPT ![1] = Last1(new)]
      BY <2>3 DEF TakeUpdates
    <3>2. new # {} => Last1(new) \in Written
      BY <3>1, LastFacts
    <3>3. cursor' = cursor \/ \E n \in Written : cursor' = [cursor EXCEPT ![1] = n]
      BY <3>1, <3>2
    <3> QED
      BY <1>0, <1>2, <3>3 DEF LogTyped
  <2>4. CASE TakeSlackHistory \/ TakeDiscordHistory
    <3>1. TakePage /\ turn \in DOMAIN PollChats
      BY <2>4 DEF TakeSlackHistory, TakeDiscordHistory, PollScalars
    <3>2. PICK page \in Seq(Written) :
            /\ Range(page) \subseteq NewIn(turn)
            /\ page = <<>> => cursor' = cursor
            /\ page # <<>> => \E n \in Range(page) : cursor' = [cursor EXCEPT ![turn] = n]
      BY <3>1, PageFacts
    <3>3. cursor' = cursor \/ \E n \in Written : cursor' = [cursor EXCEPT ![turn] = n]
      BY <3>2 DEF NewIn
    <3> QED
      BY <1>0, <1>2, <3>1, <3>3 DEF LogTyped
  <2>5. CASE TakeBatch
    <3>1. cursor' = cursor \/ \E n \in Written : cursor' = [cursor EXCEPT ![1] = n]
      BY <2>5, BatchFacts
    <3> QED
      BY <1>0, <1>2, <3>1 DEF LogTyped
  <2>6. CASE SearchUnseen \/ FetchMail \/ FetchUnflagged \/ SkipMail \/ FetchBreaks \/ PublishMails
    BY <1>2, <2>6 DEF SearchUnseen, FetchMail, FetchUnflagged, SkipMail, FetchBreaks, PublishMails, LogTyped
  <2>7. CASE StopPolling \/ PollCrash
    <3>1. cursor' = [t \in DOMAIN PollChats |-> 0]
      BY <2>7 DEF StopPolling, PollCrash, ForgetAll
    <3> QED
      BY <1>0, <1>2, <3>1 DEF LogTyped
  <2>8. CASE Write
    BY <1>1, <2>8
  <2> QED
    BY <2>1, <2>2, <2>3, <2>4, <2>5, <2>6, <2>7, <2>8 DEF PollNext
<1> QED
  BY <1>1, <1>2, LogStays

\* Who publishes, and what.
LEMMA WhoPublishes ==
  ASSUME PollTypes, [PollNext]_pollVars
  PROVE  \/ heard' = heard /\ everHeard' = everHeard
         \/ heard' = <<>> /\ everHeard' = everHeard /\ (StopPolling \/ PollCrash)
         \/ (TakeUpdates \/ (TakePage /\ adapter \in History) \/ ProcessMessage \/ PublishMails)
            /\ \E s \in Seq(Written) : Publish(s)
<1> USE DEF PollTypes
<1>1. CASE TakeUpdates
  <2>1. PICK new : new = {i \in Written \ settled : i > cursor[1]} /\ Publish(InOrder(new))
    BY <1>1 DEF TakeUpdates
  <2>2. InOrder(new) \in Seq(Written)
    BY <2>1, OrderFacts
  <2> QED
    BY <1>1, <2>1, <2>2
<1>2. CASE TakeSlackHistory \/ TakeDiscordHistory
  <2>1. TakePage /\ adapter \in History /\ turn \in DOMAIN PollChats
    BY <1>2 DEF TakeSlackHistory, TakeDiscordHistory, PollScalars, History
  <2>2. \E s \in Seq(Written) : Publish(s)
    BY <2>1, PageFacts
  <2> QED
    BY <2>1, <2>2
<1>3. CASE ProcessMessage
  <2>1. batch # <<>>
    BY <1>3 DEF ProcessMessage, HandsOf
  <2>2. <<Head(batch)>> \in Seq(Written)
    BY <2>1, ListFactsOfPoll DEF ListsTyped
  <2> QED
    BY <1>3, <2>2 DEF ProcessMessage
<1>4. CASE PublishMails
  BY <1>4 DEF PublishMails, ListsTyped
<1>5. CASE StopPolling \/ PollCrash
  BY <1>5 DEF StopPolling, PollCrash, ForgetAll
<1>6. CASE StartPolling \/ Ask \/ AskFails \/ TakeBatch \/ SearchUnseen \/ FetchMail \/ FetchUnflagged
           \/ SkipMail \/ FetchBreaks \/ UNCHANGED pollVars
  BY <1>6 DEF StartPolling, Ask, AskFails, TakeBatch, SearchUnseen, FetchMail, FetchUnflagged,
              SkipMail, FetchBreaks, pollVars, pollMemory, pollHistory
<1>7. CASE Write
  BY <1>7, WriteFacts DEF pollHistory
<1> QED
  BY <1>1, <1>2, <1>3, <1>4, <1>5, <1>6, <1>7 DEF PollNext

\* ... what is known of the messages, ...
LEMMA NotesTypedStep ==
  ASSUME PollTypes, [PollNext]_pollVars
  PROVE  NotesTyped'
<1> USE DEF PollTypes
<1>0. settled \subseteq Written /\ everHeard \subseteq Written /\ excused \subseteq Written
  BY DEF NotesTyped
<1>1. Range(batch) \subseteq Written /\ Range(gathered) \subseteq Written /\ Range(heard) \subseteq Written
      /\ (batch # <<>> => Head(batch) \in Written)
  BY ListFactsOfPoll DEF ListsTyped
<1>2. UpTo(cursor[1]) \subseteq Written
  BY PollFacts DEF UpTo
<1>3. CASE Write
  BY <1>0, <1>3, WriteFacts DEF NotesTyped, pollHistory
<1>4. CASE log' = log /\ Written' = Written
  <2>1. everHeard' \subseteq Written
    BY <1>0, WhoPublishes, PublishTypes
  <2>2. excused' \subseteq Written /\ settled' \subseteq Written
    <3>1. CASE StartPolling \/ AskFails \/ TakeUpdates \/ ProcessMessage \/ SearchUnseen \/ FetchUnflagged
               \/ PublishMails \/ UNCHANGED pollVars
      BY <1>0, <3>1 DEF StartPolling, AskFails, TakeUpdates, ProcessMessage, SearchUnseen, FetchUnflagged,
                        PublishMails, pollVars, pollHistory
    <3>2. CASE Ask \/ FetchMail \/ SkipMail \/ FetchBreaks
      BY <1>0, <1>1, <1>2, <3>2 DEF Ask, FetchMail, SkipMail, FetchBreaks, pollHistory
    <3>3. CASE TakeSlackHistory \/ TakeDiscordHistory
      <4>1. TakePage /\ turn \in DOMAIN PollChats
        BY <3>3 DEF TakeSlackHistory, TakeDiscordHistory, PollScalars
      <4>2. excused' \subseteq Written
        BY <4>1, PageFacts
      <4> QED
        BY <1>0, <4>1, <4>2 DEF TakePage
    <3>4. CASE TakeBatch
      <4>1. cursor' \in [DOMAIN PollChats -> 0 .. Len(log')] /\ 1 \in DOMAIN PollChats /\ Len(log) \in Nat
        BY LogTypedStep, PollFacts DEF LogTyped
      <4>2. UpTo(cursor'[1]) \subseteq Written
        BY <1>4, <4>1 DEF UpTo, Written
      <4> QED
        BY <1>0, <3>4, <4>2 DEF TakeBatch, pollHistory
    <3>5. CASE StopPolling \/ PollCrash
      BY <1>0, <1>1, <1>2, <3>5 DEF StopPolling, PollCrash
    <3>6. CASE Write
      BY <1>0, <3>6, WriteFacts DEF pollHistory
    <3> QED
      BY <3>1, <3>2, <3>3, <3>4, <3>5, <3>6 DEF PollNext
  <2> QED
    BY <1>4, <2>1, <2>2 DEF NotesTyped
<1> QED
  BY <1>3, <1>4, LogStays

\* A list keeps its type when the log grows.
LEMMA WiderList ==
  ASSUME NEW A, NEW B, A \subseteq B, NEW s \in Seq(A)
  PROVE  s \in Seq(B)
BY SeqMonotonic

\* ... and its lists.
LEMMA ListsTypedStep ==
  ASSUME PollTypes, [PollNext]_pollVars
  PROVE  ListsTyped'
<1> USE DEF PollTypes
<1>0. /\ batch \in Seq(Written) /\ gathered \in Seq(Written) /\ heard \in Seq(Written)
      /\ remembered \in Seq(Written) /\ Len(remembered) <= SeenLimit
  BY DEF ListsTyped
<1>1. /\ \A s \in Seq(Written) : s # <<>> => Tail(s) \in Seq(Written) /\ Head(s) \in Written
      /\ \A s \in Seq(Written), i \in Written : Append(s, i) \in Seq(Written)
      /\ <<>> \in Seq(Written) /\ Len(<<>>) = 0 /\ SeenLimit \in Nat \ {0} /\ Len(remembered) \in Nat
  BY <1>0, ListFactsOfPoll, EmptyList, PollFacts
<1>2. CASE Write
  <2>1. Written \subseteq Written' /\ UNCHANGED <<batch, gathered, heard, remembered>>
    BY <1>2, WriteFacts DEF pollMemory
  <2>2. /\ batch \in Seq(Written') /\ gathered \in Seq(Written') /\ heard \in Seq(Written')
        /\ remembered \in Seq(Written')
    BY <1>0, <2>1, WiderList
  <2> QED
    BY <1>0, <2>1, <2>2 DEF ListsTyped
<1>3. CASE log' = log /\ Written' = Written
  <2>1. heard' \in Seq(Written)
    BY <1>0, <1>1, WhoPublishes, PublishTypes
  <2>2. batch' \in Seq(Written) /\ gathered' \in Seq(Written)
        /\ remembered' \in Seq(Written) /\ Len(remembered') <= SeenLimit
    <3>1. CASE StartPolling \/ Ask \/ AskFails \/ TakeUpdates \/ UNCHANGED pollVars
      BY <1>0, <3>1 DEF StartPolling, Ask, AskFails, TakeUpdates, pollVars, pollMemory
    <3>2. CASE TakeSlackHistory \/ TakeDiscordHistory
      BY <1>0, <3>2 DEF TakeSlackHistory, TakeDiscordHistory, TakePage
    <3>3. CASE TakeBatch
      <4>1. batch' \in Seq(Written)
        BY <3>3, BatchFacts
      <4> QED
        BY <1>0, <3>3, <4>1 DEF TakeBatch
    <3>4. CASE ProcessMessage
      <4>1. batch # <<>>
        BY <3>4 DEF ProcessMessage, HandsOf
      <4>2. PICK i, longer : i \in Written /\ i = Head(batch) /\ longer = Append(remembered, i)
        BY <1>0, <1>1, <4>1
      <4>3. longer \in Seq(Written) /\ Len(longer) = Len(remembered) + 1
        BY <1>0, <4>2, AppendFacts
      <4>4. longer # <<>> /\ Tail(longer) \in Seq(Written) /\ Len(Tail(longer)) = Len(longer) - 1
        BY <1>1, <4>3, ListFactsOfPoll
      <4>5. remembered' = remembered
            \/ remembered' = IF Len(longer) > SeenLimit THEN Tail(longer) ELSE longer
        BY <3>4, <4>2 DEF ProcessMessage
      <4>6. remembered' \in Seq(Written) /\ Len(remembered') <= SeenLimit
        <5>1. Len(remembered) \in Nat /\ SeenLimit \in Nat /\ Len(remembered) <= SeenLimit
          BY <1>0, <1>1
        <5>2. Len(longer) > SeenLimit => Len(Tail(longer)) <= SeenLimit
          BY <4>3, <4>4, <5>1
        <5>3. ~(Len(longer) > SeenLimit) => Len(longer) <= SeenLimit
          BY <4>3, <5>1
        <5> QED
          BY <1>0, <4>3, <4>4, <4>5, <5>2, <5>3
      <4> QED
        BY <1>0, <1>1, <3>4, <4>1, <4>6 DEF ProcessMessage
    <3>5. CASE SearchUnseen
      <4>1. InOrder(Written \ settled) \in Seq(Written)
        BY OrderFacts
      <4> QED
        BY <1>0, <3>5, <4>1 DEF SearchUnseen
    <3>6. CASE FetchMail \/ FetchUnflagged \/ SkipMail \/ FetchBreaks \/ PublishMails
      BY <1>0, <1>1, <3>6 DEF FetchMail, FetchUnflagged, SkipMail, FetchBreaks, PublishMails
    <3>7. CASE StopPolling \/ PollCrash
      <4>1. remembered' = <<>> /\ gathered' = <<>> /\ (batch' = batch \/ batch' = <<>>)
        BY <3>7 DEF StopPolling, PollCrash, ForgetAll
      <4>2. Len(<<>>) <= SeenLimit
        BY <1>1
      <4> QED
        BY <1>0, <1>1, <4>1, <4>2
    <3>8. CASE Write
      BY <1>0, <3>8, WriteFacts DEF pollMemory
    <3> QED
      BY <3>1, <3>2, <3>3, <3>4, <3>5, <3>6, <3>7, <3>8 DEF PollNext
  <2> QED
    BY <1>3, <2>1, <2>2 DEF ListsTyped
<1> QED
  BY <1>2, <1>3, LogStays

\* An adapter holds only what it works with.
LEMMA HandsStep ==
  ASSUME PollTypes, [PollNext]_pollVars
  PROVE  HandsOf'
<1> USE DEF PollTypes
<1>0. adapter' = adapter /\ adapter \in PollAdapters \cup {"none"} /\ 1 \in DOMAIN PollChats
  BY PollScalarsStep, PollFacts DEF PollScalars
<1>1. CASE Write
  BY <1>0, <1>1, WriteFacts DEF HandsOf, pollMemory, Weixin
<1>2. CASE StartPolling
  BY <1>0, <1>2 DEF HandsOf, StartPolling, Weixin
<1>3. CASE Ask \/ AskFails \/ UNCHANGED pollVars
  BY <1>0, <1>3 DEF HandsOf, Ask, AskFails, Weixin, pollVars, pollMemory
<1>4. CASE TakeUpdates
  BY <1>0, <1>4 DEF HandsOf, TakeUpdates, Weixin
<1>5. CASE TakeSlackHistory \/ TakeDiscordHistory
  BY <1>0, <1>5 DEF HandsOf, TakeSlackHistory, TakeDiscordHistory, TakePage, Weixin
<1>6. CASE TakeBatch
  BY <1>0, <1>6 DEF HandsOf, TakeBatch, Weixin
<1>7. CASE ProcessMessage
  BY <1>0, <1>7 DEF HandsOf, ProcessMessage, Weixin
<1>8. CASE SearchUnseen \/ FetchMail \/ FetchUnflagged
  BY <1>0, <1>8 DEF HandsOf, SearchUnseen, FetchMail, FetchUnflagged, Weixin
<1>9. CASE SkipMail \/ FetchBreaks \/ PublishMails
  BY <1>0, <1>9 DEF HandsOf, SkipMail, FetchBreaks, PublishMails, Weixin
<1>10. CASE StopPolling \/ PollCrash
  BY <1>0, <1>10 DEF HandsOf, StopPolling, PollCrash, ForgetAll, Weixin
<1> QED
  BY <1>1, <1>2, <1>3, <1>4, <1>5, <1>6, <1>7, <1>8, <1>9, <1>10 DEF PollNext

\* What was published or excused stays so.
LEMMA NotesGrow ==
  ASSUME PollTypes, [PollNext]_pollVars
  PROVE  everHeard \subseteq everHeard' /\ excused \subseteq excused'
<1> USE DEF PollTypes
<1>1. everHeard \subseteq everHeard'
  BY WhoPublishes DEF Publish
<1>2. CASE TakeSlackHistory \/ TakeDiscordHistory
  BY <1>1, <1>2 DEF TakeSlackHistory, TakeDiscordHistory, TakePage
<1>3. CASE StartPolling \/ Ask \/ AskFails \/ TakeUpdates \/ TakeBatch \/ ProcessMessage \/ SearchUnseen
           \/ FetchMail \/ FetchUnflagged \/ SkipMail \/ FetchBreaks \/ PublishMails
           \/ StopPolling \/ PollCrash \/ UNCHANGED pollVars
  BY <1>1, <1>3 DEF StartPolling, Ask, AskFails, TakeUpdates, TakeBatch, ProcessMessage, SearchUnseen,
              FetchMail, FetchUnflagged, SkipMail, FetchBreaks, PublishMails, StopPolling, PollCrash,
              pollVars, pollHistory
<1>4. CASE Write
  BY <1>4, WriteFacts DEF pollHistory
<1> QED
  BY <1>1, <1>2, <1>3, <1>4 DEF PollNext

\* Which actions an adapter takes.
LEMMA ByAdapter ==
  ASSUME PollTypes, [PollNext]_pollVars
  PROVE  /\ adapter = "none" => UNCHANGED pollVars
         /\ adapter = "telegram" =>
              \/ Write \/ StartPolling \/ Ask \/ AskFails \/ TakeUpdates \/ StopPolling \/ PollCrash
              \/ UNCHANGED pollVars
         /\ adapter \in History =>
              \/ Write \/ StartPolling \/ Ask \/ AskFails \/ TakePage \/ StopPolling \/ PollCrash
              \/ UNCHANGED pollVars
         /\ adapter \in Weixin =>
              \/ Write \/ StartPolling \/ Ask \/ AskFails \/ TakeBatch \/ ProcessMessage
              \/ StopPolling \/ PollCrash \/ UNCHANGED pollVars
         /\ adapter = "email" =>
              \/ Write \/ StartPolling \/ Ask \/ AskFails \/ SearchUnseen \/ FetchMail \/ FetchUnflagged
              \/ SkipMail \/ FetchBreaks \/ PublishMails \/ StopPolling \/ PollCrash \/ UNCHANGED pollVars
         /\ adapter \in {"none", "telegram", "email"} \cup History \cup Weixin
<1>1. adapter \in {"none", "telegram", "email"} \cup History \cup Weixin
  BY PollAssumption DEF PollTypes, PollScalars, History, Weixin
<1>2. adapter = "none" => loop = "off" /\ batch = <<>>
  BY DEF PollTypes, HandsOf, PollScalars, Weixin
<1> QED
  BY <1>1, <1>2 DEF PollNext, Write, StartPolling, Ask, AskFails, TakeUpdates, TakeSlackHistory,
       TakeDiscordHistory, TakeBatch, ProcessMessage, SearchUnseen, FetchMail, FetchUnflagged, SkipMail,
       FetchBreaks, PublishMails, StopPolling, PollCrash, History, Weixin

\* Telegram confirms what it has published and nothing else.
LEMMA OffsetStep ==
  ASSUME PollInv, [PollNext]_pollVars
  PROVE  OffsetPublished'
<1> USE DEF PollInv
<1>0. /\ Len(log) \in Nat /\ Written = 1 .. Len(log) /\ 1 \in DOMAIN PollChats
      /\ adapter' = adapter /\ everHeard \subseteq everHeard' /\ excused \subseteq excused'
      /\ cursor[1] \in Nat /\ cursor[1] <= Len(log)
  BY PollScalarsStep, NotesGrow, PollFacts DEF PollTypes
<1>1. SUFFICES ASSUME adapter = "telegram" PROVE OffsetPublished'
  BY <1>0 DEF OffsetPublished
<1>2. \A i \in Written : i <= cursor[1] /\ log[i].wanted => i \in everHeard' \cup excused'
  BY <1>0, <1>1 DEF OffsetPublished
<1>3. CASE Write
  <2>1. /\ \A i \in Written : log'[i] = log[i]
        /\ cursor' = cursor /\ Written' = Written \cup {Len(log) + 1}
    BY <1>3, WriteFacts DEF pollMemory, PollTypes
  <2>2. ~(Len(log) + 1 <= cursor[1])
    BY <1>0
  <2>3. ASSUME NEW i \in Written', i <= cursor'[1], log'[i].wanted PROVE i \in everHeard' \cup excused'
    <3>1. i \in Written /\ i <= cursor[1] /\ log[i].wanted
      BY <2>1, <2>2, <2>3
    <3> QED
      BY <1>2, <3>1
  <2> QED
    BY <2>3 DEF OffsetPublished
<1>4. CASE TakeUpdates
  <2>1. PICK new : /\ new = {i \in Written \ settled : i > cursor[1]} /\ Publish(InOrder(new))
                   /\ log' = log
    BY <1>4 DEF TakeUpdates
  <2>2. InOrder(new) \in Seq(Written) /\ Range(InOrder(new)) = new
    BY <2>1, OrderFacts DEF PollTypes
  <2>3. \A i \in new : log[i].wanted => i \in everHeard'
    BY <2>1, <2>2, PublishFacts DEF PollTypes
  <2>4. \A i \in settled : log[i].wanted => i \in everHeard \cup excused
    <3>1. batch = <<>> /\ gathered = <<>>
      BY <1>1 DEF PollTypes, HandsOf, Weixin
    <3>2. Range(batch) = {} /\ Range(gathered) = {}
      BY <3>1, EmptyList
    <3>3. \A i \in settled : PassedBy(i) /\ i \in Written
      BY <1>1 DEF PassedBy, History, Weixin, PollTypes, NotesTyped
    <3> QED
      BY <3>2, <3>3 DEF NothingPassedOver
  <2>5. ASSUME NEW i \in Written, log[i].wanted PROVE i \in everHeard' \cup excused'
    <3>1. i <= cursor[1] \/ i > cursor[1]
      BY <1>0
    <3> QED
      BY <1>0, <1>2, <2>1, <2>3, <2>4, <2>5, <3>1
  <2>6. Written' = Written
    BY <2>1 DEF Written
  <2> QED
    BY <2>1, <2>5, <2>6 DEF OffsetPublished
<1>5. CASE StopPolling \/ PollCrash
  <2>1. log' = log /\ Written' = Written /\ cursor'[1] = 0
    BY <1>0, <1>5 DEF StopPolling, PollCrash, ForgetAll, Written
  <2>2. \A i \in Written : ~(i <= 0)
    BY <1>0
  <2> QED
    BY <2>1, <2>2 DEF OffsetPublished
<1>6. CASE StartPolling \/ Ask \/ AskFails \/ UNCHANGED pollVars
  <2>1. log' = log /\ Written' = Written /\ cursor' = cursor
    BY <1>1, <1>6 DEF StartPolling, Ask, AskFails, pollVars, pollMemory, Written
  <2> QED
    BY <1>2, <2>1 DEF OffsetPublished
<1> QED
  BY <1>1, <1>3, <1>4, <1>5, <1>6, ByAdapter DEF PollTypes

\* WeChat's file always names one place in the log.
LEMMA SettledStep ==
  ASSUME PollInv, [PollNext]_pollVars
  PROVE  SettledUpTo'
<1> USE DEF PollInv
<1>0. /\ 1 \in DOMAIN PollChats /\ adapter' = adapter /\ cursor[1] \in Nat /\ cursor'[1] \in Nat
  <2>1. cursor' \in [DOMAIN PollChats -> 0 .. Len(log')] /\ log' \in Seq([chat : Range(PollChats), wanted : BOOLEAN])
    BY LogTypedStep DEF LogTyped, PollTypes
  <2>2. 1 \in DOMAIN PollChats
    BY PollFacts DEF PollTypes
  <2>3. cursor'[1] \in 0 .. Len(log') /\ Len(log') \in Nat
    BY <2>1, <2>2, LenProperties
  <2> QED
    BY <2>2, <2>3, PollScalarsStep, PollFacts DEF PollTypes
<1>1. SUFFICES ASSUME adapter \in Weixin PROVE SettledUpTo'
  BY <1>0 DEF SettledUpTo
<1>2. \A n \in Nat : \A i \in UpTo(n) : 1 .. i \subseteq UpTo(n)
  BY DEF UpTo
<1>3. settled' \in {settled, {}, UpTo(cursor[1]), UpTo(cursor'[1])}
  <2>1. CASE Write
    BY <2>1, WriteFacts DEF PollTypes
  <2>2. CASE StartPolling \/ Ask \/ AskFails \/ TakeBatch \/ ProcessMessage \/ UNCHANGED pollVars
    BY <1>1, <2>2 DEF StartPolling, Ask, AskFails, TakeBatch, ProcessMessage, pollVars, Weixin
  <2>3. CASE StopPolling \/ PollCrash
    BY <2>3 DEF StopPolling, PollCrash
  <2> QED
    BY <1>1, <2>1, <2>2, <2>3, ByAdapter DEF PollTypes
<1> QED
  BY <1>0, <1>1, <1>2, <1>3 DEF SettledUpTo

\* The id is remembered when the message is published.
LEMMA RememberedStep ==
  ASSUME PollInv, [PollNext]_pollVars
  PROVE  RememberedTold'
<1> USE DEF PollInv
<1>0. everHeard \subseteq everHeard' /\ Range(remembered) \subseteq Written
  BY NotesGrow, ListFactsOfPoll DEF PollTypes, ListsTyped
<1>1. CASE Write
  BY <1>0, <1>1, WriteFacts DEF PollTypes, RememberedTold, pollMemory
<1>2. CASE log' = log /\ remembered' = remembered
  BY <1>0, <1>2 DEF RememberedTold
<1>3. CASE remembered' = <<>>
  BY <1>3, EmptyList DEF RememberedTold
<1>4. CASE ProcessMessage
  <2>1. batch # <<>> /\ batch \in Seq(Written) /\ remembered \in Seq(Written)
    BY <1>4 DEF ProcessMessage, HandsOf, PollTypes, ListsTyped
  <2>2. PICK i, longer : i = Head(batch) /\ longer = Append(remembered, i)
    OBVIOUS
  <2>3. i \in Written /\ <<i>> \in Seq(Written) /\ Range(<<i>>) = {i}
        /\ longer \in Seq(Written) /\ Range(longer) = Range(remembered) \cup {i}
    BY <2>1, <2>2, ListFactsOfPoll DEF PollTypes
  <2>4. longer # <<>> /\ Range(Tail(longer)) \subseteq Range(longer)
    <3>1. i \in Range(longer) /\ Range(<<>>) = {}
      BY <2>3, EmptyList
    <3>2. longer # <<>>
      BY <3>1
    <3> QED
      BY <2>3, <3>2, ListFactsOfPoll DEF PollTypes
  <2>5. /\ log' = log
        /\ \/ remembered' = remembered
           \/ Publish(<<i>>) /\ Range(remembered') \subseteq Range(longer)
    BY <1>4, <2>2, <2>4 DEF ProcessMessage
  <2>6. Publish(<<i>>) /\ log[i].wanted => i \in everHeard'
    BY <2>3, PublishFacts, ZenonT(60) DEF PollTypes
  <2> QED
    BY <1>0, <2>3, <2>5, <2>6 DEF RememberedTold
<1>5. CASE ~ProcessMessage
  <2>1. Write \/ (log' = log /\ remembered' \in {remembered, <<>>})
    BY <1>5 DEF PollNext, PollTypes, StartPolling, Ask, AskFails, TakeUpdates, TakeSlackHistory,
       TakeDiscordHistory, TakePage, TakeBatch, SearchUnseen, FetchMail, FetchUnflagged,
       SkipMail, FetchBreaks, PublishMails, StopPolling, PollCrash, ForgetAll, pollVars, pollMemory
  <2> QED
    BY <1>1, <1>2, <1>3, <2>1
<1> QED
  BY <1>4, <1>5

\* A mail is searched for once and flagged once.
LEMMA UnseenStep ==
  ASSUME PollInv, [PollNext]_pollVars
  PROVE  UnseenOnce'
<1> USE DEF PollInv
<1>0. adapter' = adapter /\ batch \in Seq(Written) /\ batch' \in Seq(Written')
  BY PollScalarsStep, ListsTypedStep DEF PollTypes, ListsTyped
<1>1. SUFFICES ASSUME adapter = "email" PROVE UnseenOnce'
  BY <1>0 DEF UnseenOnce
<1>2. Range(batch) \cap settled = {} /\ \A j, k \in 1 .. Len(batch) : batch[j] = batch[k] => j = k
  BY <1>1 DEF UnseenOnce
<1>3. CASE batch' = batch /\ settled' = settled
  BY <1>0, <1>1, <1>2, <1>3 DEF UnseenOnce
<1>4. CASE batch' = <<>>
  <2>1. Range(batch') = {} /\ Len(batch') = 0
    BY <1>4, EmptyList
  <2> QED
    BY <2>1 DEF UnseenOnce
<1>5. CASE batch # <<>> /\ batch' = Tail(batch) /\ settled' \in {settled, settled \cup {Head(batch)}}
  <2>1. /\ Head(batch) = batch[1] /\ Range(batch) = {Head(batch)} \cup Range(Tail(batch))
        /\ Tail(batch) \in Seq(Written) /\ 1 \in 1 .. Len(batch)
        /\ \A k \in 1 .. Len(Tail(batch)) : Tail(batch)[k] = batch[k + 1] /\ k + 1 \in 1 .. Len(batch)
    BY <1>0, <1>5, ListFactsOfPoll DEF PollTypes
  <2>2. Range(Tail(batch)) = {Tail(batch)[k] : k \in 1 .. Len(Tail(batch))} /\ Len(Tail(batch)) \in Nat
    BY <2>1, ListFactsOfPoll DEF PollTypes
  <2>3. Head(batch) \notin Range(Tail(batch))
    <3>1. ASSUME NEW k \in 1 .. Len(Tail(batch)) PROVE Tail(batch)[k] # Head(batch)
      <4>1. k + 1 # 1
        OBVIOUS
      <4> QED
        BY <1>2, <2>1, <4>1
    <3> QED
      BY <2>2, <3>1
  <2>4. ASSUME NEW j \in 1 .. Len(Tail(batch)), NEW k \in 1 .. Len(Tail(batch)), Tail(batch)[j] = Tail(batch)[k]
        PROVE  j = k
    <3>1. j + 1 = k + 1
      BY <1>2, <2>1, <2>4
    <3> QED
      BY <3>1
  <2> QED
    BY <1>2, <1>5, <2>1, <2>3, <2>4 DEF UnseenOnce
<1>6. CASE SearchUnseen
  <2>1. PICK D : D = Written \ settled
    OBVIOUS
  <2>2. batch' = InOrder(D) /\ settled' = settled
    BY <1>6, <2>1 DEF SearchUnseen
  <2>3. /\ InOrder(D) \in Seq(Written) /\ Range(InOrder(D)) = D
        /\ \A j, k \in 1 .. Len(InOrder(D)) : j < k => InOrder(D)[j] < InOrder(D)[k]
    BY <2>1, OrderFacts DEF PollTypes
  <2>4. /\ \A j \in 1 .. Len(InOrder(D)) : InOrder(D)[j] \in Nat
    BY <2>3, ListFactsOfPoll DEF PollTypes
  <2>5. ASSUME NEW j \in 1 .. Len(InOrder(D)), NEW k \in 1 .. Len(InOrder(D)), InOrder(D)[j] = InOrder(D)[k]
        PROVE  j = k
    <3>1. PICK m \in Nat : m = InOrder(D)[j]
      BY <2>4
    <3>2. ~(m < m)
      BY <3>1
    <3>3. ~(j < k) /\ ~(k < j)
      BY <2>3, <2>5, <3>1, <3>2
    <3> QED
      BY <3>3
  <2> QED
    BY <2>1, <2>2, <2>3, <2>5, ZenonT(60) DEF UnseenOnce
<1>7. CASE Write \/ StartPolling \/ Ask \/ AskFails \/ PublishMails \/ UNCHANGED pollVars
  <2>1. batch' = batch /\ settled' = settled
    BY <1>1, <1>7, WriteFacts DEF PollTypes, StartPolling, Ask, AskFails, PublishMails, pollVars, pollMemory
  <2> QED
    BY <1>3, <2>1
<1>8. CASE FetchMail \/ FetchUnflagged \/ SkipMail \/ FetchBreaks
  BY <1>4, <1>5, <1>8 DEF FetchMail, FetchUnflagged, SkipMail, FetchBreaks
<1>9. CASE StopPolling \/ PollCrash
  BY <1>1, <1>3, <1>4, <1>9 DEF StopPolling, PollCrash, Weixin
<1> QED
  BY <1>1, <1>6, <1>7, <1>8, <1>9, ByAdapter DEF PollTypes

\* The log may have grown; what is passed by of it has not.
LEMMA PassedOfOld ==
  ASSUME PollInv, Write
  PROVE  NothingPassedOver'
<1> USE DEF PollInv
<1>1. /\ \A i \in Written : log'[i] = log[i]
      /\ Written' = Written \cup {Len(log) + 1} /\ Len(log) + 1 \notin Written
      /\ UNCHANGED <<adapter, loop, settled, heard, life, pollMemory, pollHistory>>
  BY WriteFacts DEF PollTypes
<1>2. ASSUME NEW i \in Written, PassedBy(i)' PROVE PassedBy(i)
  BY <1>1, <1>2 DEF PassedBy, pollMemory
<1>3. PICK n : n = Len(log) + 1
  OBVIOUS
<1>4. ~PassedBy(n)'
  <2>1. /\ Len(log) + 1 \notin settled
        /\ \A t \in DOMAIN PollChats : ~(Len(log) + 1 <= cursor[t])
        /\ 1 \in DOMAIN PollChats
    <3>1. Len(log) \in Nat /\ \A t \in DOMAIN PollChats : cursor[t] \in Nat /\ cursor[t] <= Len(log)
      BY PollFacts DEF PollTypes
    <3>2. 1 \in DOMAIN PollChats
      BY PollFacts DEF PollTypes
    <3>3. Len(log) + 1 \notin settled
      BY <1>1 DEF PollTypes, NotesTyped
    <3> QED
      BY <3>1, <3>2, <3>3
  <2> QED
    BY <1>1, <1>3, <2>1 DEF PassedBy, pollMemory, History, Weixin
<1>5. UNCHANGED <<everHeard, excused, batch, gathered>>
  BY <1>1 DEF pollMemory, pollHistory
<1>6. ASSUME NEW i \in Written', PassedBy(i)', log'[i].wanted
      PROVE  i \in everHeard' \cup excused' \cup Range(batch') \cup Range(gathered')
  <2>1. i \in Written /\ PassedBy(i) /\ log[i].wanted
    BY <1>1, <1>2, <1>3, <1>4, <1>6
  <2> QED
    BY <1>5, <2>1 DEF NothingPassedOver
<1> QED
  BY <1>6 DEF NothingPassedOver

\* It is enough to look at one message that the step passes by.
LEMMA PassedOne ==
  ASSUME PollInv, [PollNext]_pollVars, ~Write,
         \A i \in Written : PassedBy(i)' /\ log[i].wanted
            => i \in everHeard' \cup excused' \cup Range(batch') \cup Range(gathered')
  PROVE  NothingPassedOver'
<1>1. log' = log /\ Written' = Written
  BY LogStays DEF PollInv
<1> QED
  BY <1>1 DEF NothingPassedOver

\* Telegram, Slack and Discord hold nothing between the answer and the bus.
LEMMA PassedOffsets ==
  ASSUME PollInv, [PollNext]_pollVars, adapter \in {"telegram"} \cup History
  PROVE  NothingPassedOver'
<1> USE DEF PollInv
<1>0. /\ Len(log) \in Nat /\ Written = 1 .. Len(log) /\ 1 \in DOMAIN PollChats
      /\ adapter' = adapter /\ everHeard \subseteq everHeard' /\ excused \subseteq excused'
      /\ \A t \in DOMAIN PollChats : cursor[t] \in Nat /\ cursor[t] <= Len(log)
      /\ turn \in DOMAIN PollChats /\ cursor \in [DOMAIN PollChats -> 0 .. Len(log)]
  BY PollScalarsStep, NotesGrow, PollFacts DEF PollTypes, PollScalars, LogTyped
<1>1. SUFFICES ASSUME ~Write, NEW i \in Written, PassedBy(i)', log[i].wanted
               PROVE  i \in everHeard' \cup excused'
  BY PassedOfOld, PassedOne
<1>2. PassedBy(i) => i \in everHeard' \cup excused'
  <2>1. Range(batch) = {} /\ Range(gathered) = {}
    <3>1. batch = <<>> /\ gathered = <<>>
      BY DEF PollTypes, HandsOf, Weixin, History
    <3> QED
      BY <3>1, EmptyList
  <2> QED
    BY <1>0, <1>1, <2>1 DEF NothingPassedOver
<1>3. CASE adapter = "telegram"
  <2>1. PassedBy(i)' <=> i \in settled'
    BY <1>0, <1>3 DEF PassedBy, History, Weixin
  <2>2. PassedBy(i) <=> i \in settled
    BY <1>3 DEF PassedBy, History, Weixin
  <2>3. CASE Ask
    <3>1. i \in settled \/ i \in UpTo(cursor[1])
      BY <1>1, <1>3, <2>1, <2>3 DEF Ask
    <3>2. i \in UpTo(cursor[1]) => i <= cursor[1]
      BY <1>0 DEF UpTo
    <3>3. i <= cursor[1] => i \in everHeard \cup excused
      BY <1>1, <1>3 DEF OffsetPublished
    <3> QED
      BY <1>0, <1>2, <2>2, <3>1, <3>2, <3>3
  <2>4. CASE ~Ask
    <3>1. settled' = settled
      BY <1>1, <1>3, <2>4, ByAdapter DEF PollTypes, StartPolling, AskFails, TakeUpdates, StopPolling,
            PollCrash, Weixin, pollVars
    <3> QED
      BY <1>1, <1>2, <2>1, <2>2, <3>1
  <2> QED
    BY <2>3, <2>4
<1>4. CASE adapter \in History
  <2>1. PICK t \in DOMAIN PollChats : PollChats[t] = log[i].chat /\ i <= cursor'[t]
    <3>1. log' = log
      BY <1>1, LogStays
    <3> QED
      BY <1>0, <1>1, <1>4, <3>1 DEF PassedBy, History, Weixin
  <2>2. CASE i <= cursor[t]
    <3>1. PassedBy(i)
      BY <1>4, <2>1, <2>2 DEF PassedBy, History, Weixin
    <3> QED
      BY <1>2, <3>1
  <2>3. CASE TakePage /\ ~(i <= cursor[t])
    <3>1. PICK page \in Seq(Written) :
            /\ Publish(page) /\ Range(page) \subseteq NewIn(turn)
            /\ page = <<>> => cursor' = cursor
            /\ page # <<>> => \E n \in Range(page) :
                 /\ cursor' = [cursor EXCEPT ![turn] = n]
                 /\ excused' = excused \cup {j \in NewIn(turn) \ Range(page) : j < n}
      BY <1>0, <2>3, PageFacts DEF PollTypes
    <3>2. page # <<>> /\ t = turn
      BY <1>0, <2>1, <2>3, <3>1
    <3>3. PICK n \in Range(page) : /\ cursor' = [cursor EXCEPT ![turn] = n]
                                   /\ excused' = excused \cup {j \in NewIn(turn) \ Range(page) : j < n}
      BY <3>1, <3>2
    <3>4. i <= n /\ i \in NewIn(turn) /\ n \in Written
      <4>1. i <= n
        BY <1>0, <2>1, <3>2, <3>3
      <4>2. i > cursor[turn]
        BY <1>0, <2>3, <3>2
      <4> QED
        BY <2>1, <3>1, <3>2, <4>1, <4>2 DEF NewIn
    <3>5. CASE i \in Range(page)
      BY <1>1, <3>1, <3>5, PublishFacts DEF PollTypes
    <3>6. CASE i \notin Range(page)
      <4>1. i # n
        BY <3>3, <3>6
      <4>2. i < n
        BY <1>0, <3>4, <4>1
      <4> QED
        BY <3>3, <3>4, <3>6, <4>2
    <3> QED
      BY <3>5, <3>6
  <2>4. CASE ~TakePage
    <3>1. cursor' = cursor \/ cursor' = [u \in DOMAIN PollChats |-> 0]
      BY <1>1, <1>4, <2>4, ByAdapter DEF PollTypes, StartPolling, Ask, AskFails, StopPolling,
            PollCrash, ForgetAll, History, pollVars, pollMemory
    <3>2. ~(i <= 0)
      BY <1>0
    <3>3. i <= cursor[t]
      BY <2>1, <3>1, <3>2
    <3> QED
      BY <2>2, <3>3
  <2> QED
    BY <2>2, <2>3, <2>4
<1> QED
  BY <1>3, <1>4

\* WeChat's cursor moves before the messages are looked at: they are in its batch.
LEMMA PassedBatches ==
  ASSUME PollInv, [PollNext]_pollVars, adapter \in Weixin
  PROVE  NothingPassedOver'
<1> USE DEF PollInv
<1>0. /\ Len(log) \in Nat /\ Written = 1 .. Len(log) /\ 1 \in DOMAIN PollChats
      /\ adapter' = adapter /\ everHeard \subseteq everHeard' /\ excused \subseteq excused'
      /\ cursor[1] \in Nat /\ cursor \in [DOMAIN PollChats -> 0 .. Len(log)]
      /\ batch \in Seq(Written) /\ settled \subseteq Written
  BY PollScalarsStep, NotesGrow, PollFacts DEF PollTypes, PollScalars, LogTyped, ListsTyped, NotesTyped
<1>1. SUFFICES ASSUME ~Write, NEW i \in Written, PassedBy(i)', log[i].wanted
               PROVE  i \in everHeard' \cup excused' \cup Range(batch')
  BY PassedOfOld, PassedOne
<1>2. PassedBy(i)' <=> i \in settled' \/ (loop' # "off" /\ i <= cursor'[1])
  BY <1>0 DEF PassedBy, History, Weixin
<1>3. PassedBy(i) <=> i \in settled \/ (loop # "off" /\ i <= cursor[1])
  BY DEF PassedBy, History, Weixin
<1>4. PassedBy(i) => i \in everHeard \cup excused \cup Range(batch)
  <2>1. gathered = <<>>
    BY DEF PollTypes, HandsOf, Weixin
  <2>2. Range(gathered) = {}
    BY <2>1, EmptyList
  <2> QED
    BY <1>1, <2>2 DEF NothingPassedOver
<1>5. CASE StartPolling
  <2>1. loop = "off" /\ settled' = settled /\ batch' = batch /\ cursor[1] = 0
    BY <1>0, <1>5 DEF StartPolling, PollTypes, HandsOf
  <2>2. cursor' = cursor \/ (settled # {} /\ cursor' = [cursor EXCEPT ![1] = Last1(settled)])
    BY <1>5 DEF StartPolling
  <2>3. i \in settled
    <3>1. ASSUME settled # {}, i <= Last1(settled) PROVE i \in settled
      <4>1. Last1(settled) \in settled
        BY <1>0, <3>1, LastFacts DEF PollTypes
      <4>2. 1 .. Last1(settled) \subseteq settled
        BY <4>1 DEF SettledUpTo
      <4>3. i \in 1 .. Last1(settled)
        BY <1>0, <3>1, <4>1
      <4> QED
        BY <4>2, <4>3
    <3>2. ~(i <= 0)
      BY <1>0
    <3>3. CASE cursor' = cursor
      BY <1>1, <1>2, <2>1, <3>2, <3>3
    <3>4. CASE settled # {} /\ cursor' = [cursor EXCEPT ![1] = Last1(settled)]
      <4>1. cursor'[1] = Last1(settled)
        BY <1>0, <3>4
      <4> QED
        BY <1>1, <1>2, <2>1, <3>1, <3>4, <4>1
    <3> QED
      BY <2>2, <3>3, <3>4
  <2> QED
    BY <1>0, <1>3, <1>4, <2>1, <2>3
<1>6. CASE Ask \/ AskFails \/ UNCHANGED pollVars
  <2>1. loop' # "off" => loop # "off"
    BY <1>6 DEF Ask, AskFails, pollVars
  <2>2. settled' = settled /\ cursor' = cursor /\ batch' = batch
    BY <1>6 DEF Ask, AskFails, pollVars, pollMemory, Weixin
  <2> QED
    BY <1>0, <1>1, <1>2, <1>3, <1>4, <2>1, <2>2
<1>7. CASE TakeBatch
  <2>1. loop = "asked" /\ batch = <<>>
    BY <1>7 DEF TakeBatch, PollTypes, HandsOf
  <2>2. Range(batch) = {}
    BY <2>1, EmptyList
  <2>3. i \in settled \/ i <= cursor'[1]
    <3>1. settled' \in {settled, UpTo(cursor'[1])}
      BY <1>7 DEF TakeBatch
    <3>2. cursor'[1] \in Nat
      <4>1. cursor' \in [DOMAIN PollChats -> 0 .. Len(log')] /\ log' = log
        BY <1>1, LogTypedStep, LogStays DEF LogTyped, PollTypes
      <4> QED
        BY <1>0, <4>1
    <3> QED
      BY <1>1, <1>2, <3>1, <3>2 DEF UpTo
  <2>4. {j \in Written : j > cursor[1]} \subseteq Range(batch')
    BY <1>7, BatchFacts DEF PollTypes
  <2>5. i <= cursor[1] \/ i > cursor[1]
    BY <1>0
  <2> QED
    BY <1>0, <1>3, <1>4, <2>1, <2>2, <2>4, <2>5
<1>8. CASE ProcessMessage
  <2>1. loop = "working" /\ batch # <<>> /\ settled' = settled /\ cursor' = cursor /\ batch' = Tail(batch)
    BY <1>8 DEF ProcessMessage, PollTypes, HandsOf
  <2>2. i \in everHeard \cup excused \cup Range(batch)
    BY <1>1, <1>2, <1>3, <1>4, <2>1
  <2>3. Range(batch) = {Head(batch)} \cup Range(Tail(batch)) /\ Head(batch) \in Written
        /\ <<Head(batch)>> \in Seq(Written) /\ Range(<<Head(batch)>>) = {Head(batch)}
    BY <1>0, <2>1, ListFactsOfPoll DEF PollTypes
  <2>4. ASSUME i = Head(batch) PROVE i \in everHeard'
    <3>1. Head(batch) \in Range(remembered) \/ Publish(<<Head(batch)>>)
      BY <1>8 DEF ProcessMessage
    <3>2. Publish(<<Head(batch)>>) => i \in everHeard'
      <4>1. PICK s \in Seq(Written) : s = <<Head(batch)>>
        BY <2>3
      <4>2. i \in Range(s)
        BY <2>3, <2>4, <4>1
      <4>3. Publish(s) => i \in everHeard'
        BY <1>1, <4>2, PublishFacts DEF PollTypes
      <4> QED
        BY <4>1, <4>3
    <3> QED
      BY <1>0, <1>1, <2>4, <3>1, <3>2 DEF RememberedTold
  <2> QED
    BY <1>0, <2>1, <2>2, <2>3, <2>4
<1>9. CASE StopPolling \/ PollCrash
  <2>1. /\ loop' = "off" /\ batch' = <<>>
        /\ excused' = excused \cup ((Range(gathered) \cup Range(batch)) \cap settled')
           \/ (settled' \subseteq settled /\ excused' = excused \cup ((Range(gathered) \cup Range(batch)) \cap settled))
    BY <1>9 DEF StopPolling, PollCrash, Weixin
  <2>2. settled' \subseteq settled \/ (loop # "off" /\ settled' = UpTo(cursor[1]))
    BY <1>9 DEF StopPolling, PollCrash
  <2>3. i \in settled'
    BY <1>1, <1>2, <2>1
  <2>4. PassedBy(i)
    BY <1>0, <1>3, <2>2, <2>3 DEF UpTo
  <2> QED
    BY <1>0, <1>4, <2>1, <2>3, <2>4
<1> QED
  BY <1>1, <1>5, <1>6, <1>7, <1>8, <1>9, ByAdapter DEF PollTypes

\* A mail that is flagged is in the list that will be published.
LEMMA PassedMails ==
  ASSUME PollInv, [PollNext]_pollVars, adapter = "email"
  PROVE  NothingPassedOver'
<1> USE DEF PollInv
<1>0. /\ adapter' = adapter /\ everHeard \subseteq everHeard' /\ excused \subseteq excused'
      /\ batch \in Seq(Written) /\ gathered \in Seq(Written)
  BY PollScalarsStep, NotesGrow DEF PollTypes, ListsTyped
<1>1. SUFFICES ASSUME ~Write, NEW i \in Written, PassedBy(i)', log[i].wanted
               PROVE  i \in everHeard' \cup excused' \cup Range(batch') \cup Range(gathered')
  BY PassedOfOld, PassedOne
<1>2. i \in settled'
  BY <1>0, <1>1 DEF PassedBy, History, Weixin
<1>3. i \in settled => i \in everHeard \cup excused \cup Range(batch) \cup Range(gathered)
  BY <1>1 DEF NothingPassedOver, PassedBy, History, Weixin
<1>4. batch # <<>> => /\ Range(batch) = {Head(batch)} \cup Range(Tail(batch)) /\ Head(batch) \in Written
                      /\ Range(Append(gathered, Head(batch))) = Range(gathered) \cup {Head(batch)}
  BY <1>0, ListFactsOfPoll DEF PollTypes
<1>5. i \in settled => i \notin Range(batch)
  BY DEF UnseenOnce
<1>6. CASE StartPolling \/ Ask \/ AskFails \/ UNCHANGED pollVars
  <2>1. settled' = settled /\ batch' = batch /\ gathered' = gathered
    BY <1>6 DEF StartPolling, Ask, AskFails, pollVars, pollMemory
  <2> QED
    BY <1>0, <1>2, <1>3, <2>1
<1>7. CASE SearchUnseen
  <2>1. settled' = settled /\ gathered' = gathered
    BY <1>7 DEF SearchUnseen
  <2> QED
    BY <1>0, <1>2, <1>3, <1>5, <2>1
<1>8. CASE FetchMail
  <2>1. /\ settled' = settled \cup {Head(batch)} /\ batch' = Tail(batch) /\ batch # <<>>
        /\ loop = "off" => gathered' = gathered /\ excused' = excused \cup {Head(batch)}
        /\ loop # "off" => gathered' = Append(gathered, Head(batch)) /\ excused' = excused
    BY <1>8 DEF FetchMail
  <2> QED
    BY <1>0, <1>2, <1>3, <1>4, <2>1
<1>9. CASE FetchUnflagged
  <2>1. /\ settled' = settled /\ batch' = Tail(batch) /\ batch # <<>>
        /\ gathered' = Append(gathered, Head(batch))
    BY <1>9 DEF FetchUnflagged
  <2> QED
    BY <1>0, <1>2, <1>3, <1>4, <2>1
<1>10. CASE SkipMail
  <2>1. settled' = settled /\ gathered' = gathered
    BY <1>10 DEF SkipMail
  <2> QED
    BY <1>0, <1>2, <1>3, <1>5, <2>1
<1>11. CASE FetchBreaks
  <2>1. settled' = settled /\ excused' = excused \cup (Range(gathered) \cap settled)
    BY <1>11 DEF FetchBreaks
  <2> QED
    BY <1>0, <1>2, <1>3, <1>5, <2>1
<1>12. CASE PublishMails
  <2>1. settled' = settled /\ Publish(gathered)
    BY <1>12 DEF PublishMails
  <2>2. i \in Range(gathered) => i \in everHeard'
    BY <1>0, <1>1, <2>1, PublishFacts DEF PollTypes
  <2> QED
    BY <1>0, <1>2, <1>3, <1>5, <2>1, <2>2
<1>13. CASE StopPolling \/ PollCrash
  <2>1. settled' = settled /\ excused' = excused \cup ((Range(gathered) \cup Range(batch)) \cap settled)
    BY <1>13 DEF StopPolling, PollCrash, Weixin
  <2> QED
    BY <1>0, <1>2, <1>3, <2>1
<1> QED
  BY <1>1, <1>6, <1>7, <1>8, <1>9, <1>10, <1>11, <1>12, <1>13, ByAdapter DEF PollTypes

\* No step passes a message by without publishing or holding it.
LEMMA PassedStep ==
  ASSUME PollInv, [PollNext]_pollVars
  PROVE  NothingPassedOver'
<1>1. CASE adapter = "none"
  <2>1. UNCHANGED pollVars
    BY <1>1, ByAdapter DEF PollInv
  <2> QED
    BY <2>1 DEF PollInv, NothingPassedOver, PassedBy, Written, pollVars, pollMemory, pollHistory
<1> QED
  BY <1>1, PassedOffsets, PassedBatches, PassedMails, ByAdapter DEF PollInv

\* What comes of messages in order is in order, ...
LEMMA ToldInOrder ==
  ASSUME LogTyped, ListsTyped, NotesTyped, NEW s \in Seq(Written), Publish(s),
         \A j, k \in 1 .. Len(s) : j < k => s[j] < s[k]
  PROVE  /\ Told(s) \in Seq(Written) /\ heard' = heard \o Told(s)
         /\ \A j, k \in 1 .. Len(Told(s)) : j < k => Told(s)[j] < Told(s)[k]
         /\ \A k \in 1 .. Len(Told(s)) : Told(s)[k] \in Range(s)
<1>1. /\ Told(s) \in Seq(Written) /\ heard' = heard \o Told(s) /\ Range(Told(s)) \subseteq Range(s)
      /\ \A j, k \in 1 .. Len(Told(s)) : j < k =>
           \E a, b \in 1 .. Len(s) : a < b /\ Told(s)[j] = s[a] /\ Told(s)[k] = s[b]
  BY PublishFacts
<1>2. \A k \in 1 .. Len(Told(s)) : Told(s)[k] \in Range(Told(s))
  BY <1>1, ListFactsOfPoll
<1> QED
  BY <1>1, <1>2

\* ... and stays so behind older ones.
LEMMA OrderConcat ==
  ASSUME LogTyped, NEW h \in Seq(Written), NEW t \in Seq(Written),
         \A j, k \in 1 .. Len(h) : j < k /\ log[h[j]].chat = log[h[k]].chat => h[j] < h[k],
         \A j, k \in 1 .. Len(t) : j < k => t[j] < t[k],
         \A j \in 1 .. Len(h), k \in 1 .. Len(t) : log[h[j]].chat = log[t[k]].chat => h[j] < t[k]
  PROVE  \A j, k \in 1 .. Len(h \o t) :
            j < k /\ log[(h \o t)[j]].chat = log[(h \o t)[k]].chat => (h \o t)[j] < (h \o t)[k]
<1>1. PICK g : g = h \o t
  OBVIOUS
<1>2. /\ g \in Seq(Written) /\ Len(g) = Len(h) + Len(t) /\ Len(h) \in Nat /\ Len(t) \in Nat
      /\ \A k \in 1 .. Len(h) : g[k] = h[k]
      /\ \A k \in (Len(h) + 1) .. (Len(h) + Len(t)) : g[k] = t[k - Len(h)]
  BY <1>1, ConcatProperties, LenProperties
<1>3. ASSUME NEW j \in 1 .. Len(g), NEW k \in 1 .. Len(g), j < k, log[g[j]].chat = log[g[k]].chat
      PROVE  g[j] < g[k]
  <2>1. CASE k \in 1 .. Len(h)
    <3>1. j \in 1 .. Len(h)
      BY <1>2, <1>3, <2>1
    <3> QED
      BY <1>2, <1>3, <2>1, <3>1
  <2>2. CASE k \in (Len(h) + 1) .. (Len(h) + Len(t))
    <3>1. PICK b \in 1 .. Len(t) : b = k - Len(h) /\ g[k] = t[b]
      BY <1>2, <2>2
    <3>2. CASE j \in 1 .. Len(h)
      BY <1>2, <1>3, <3>1, <3>2
    <3>3. CASE j \in (Len(h) + 1) .. (Len(h) + Len(t))
      <4>1. PICK a \in 1 .. Len(t) : a = j - Len(h) /\ g[j] = t[a]
        BY <1>2, <3>3
      <4>2. a < b
        BY <1>2, <1>3, <3>1, <4>1
      <4> QED
        BY <3>1, <4>1, <4>2
    <3> QED
      BY <1>2, <3>2, <3>3
  <2> QED
    BY <1>2, <2>1, <2>2
<1> QED
  BY <1>1, <1>3

\* A channel publishes, in their order, messages that come after what it has
\* published of their chats.
LEMMA PublishedNext ==
  ASSUME PollInv, [PollNext]_pollVars, adapter # "email", heard' \notin {heard, <<>>}
  PROVE  \E s \in Seq(Written) :
            /\ Publish(s) /\ \A j, k \in 1 .. Len(s) : j < k => s[j] < s[k]
            /\ \A i \in Range(heard), j \in Range(s) : log[i].chat = log[j].chat => i < j
<1> USE DEF PollInv
<1>0. /\ 1 \in DOMAIN PollChats /\ Range(heard) \subseteq Written /\ Range(heard) \subseteq Nat
      /\ Written \subseteq Nat /\ \A t \in DOMAIN PollChats : cursor[t] \in Nat
      /\ turn \in DOMAIN PollChats
  <2>1. Range(heard) \subseteq Written
    BY ListFactsOfPoll DEF PollTypes, ListsTyped
  <2> QED
    BY <2>1, PollFacts DEF PollTypes, PollScalars
<1>1. TakeUpdates \/ (TakePage /\ adapter \in History) \/ ProcessMessage
  <2>1. TakeUpdates \/ (TakePage /\ adapter \in History) \/ ProcessMessage \/ PublishMails
    BY WhoPublishes
  <2> QED
    BY <2>1 DEF PublishMails
<1>2. CASE TakeUpdates
  <2>1. PICK new : new = {i \in Written \ settled : i > cursor[1]} /\ Publish(InOrder(new))
    BY <1>2 DEF TakeUpdates
  <2>2. /\ InOrder(new) \in Seq(Written) /\ Range(InOrder(new)) = new
        /\ \A j, k \in 1 .. Len(InOrder(new)) : j < k => InOrder(new)[j] < InOrder(new)[k]
    BY <2>1, OrderFacts DEF PollTypes
  <2>3. \A i \in Range(heard) : i <= cursor[1]
    BY <1>2 DEF HeardBelowCursor, TakeUpdates
  <2>4. \A i \in Range(heard), j \in new : i < j
    <3>1. ASSUME NEW i \in Range(heard), NEW j \in new PROVE i < j
      <4>1. i \in Nat /\ j \in Nat /\ cursor[1] \in Nat /\ i <= cursor[1] /\ j > cursor[1]
        BY <1>0, <2>1, <2>3
      <4> QED
        BY <4>1
    <3> QED
      BY <3>1
  <2> QED
    BY <2>1, <2>2, <2>4
<1>3. CASE TakePage /\ adapter \in History
  <2>1. PICK page \in Seq(Written) : /\ Publish(page) /\ Range(page) \subseteq NewIn(turn)
                                     /\ \A j, k \in 1 .. Len(page) : j < k => page[j] < page[k]
    BY <1>0, <1>3, PageFacts DEF PollTypes
  <2>2. ASSUME NEW i \in Range(heard), NEW j \in Range(page), log[i].chat = log[j].chat PROVE i < j
    <3>1. j \in Written /\ j > cursor[turn] /\ log[j].chat = PollChats[turn]
      BY <2>1 DEF NewIn
    <3>2. i <= cursor[turn]
      BY <1>0, <1>3, <2>2, <3>1 DEF HeardBelowCursor
    <3>3. i \in Nat /\ j \in Nat /\ cursor[turn] \in Nat
      BY <1>0, <3>1
    <3> QED
      BY <3>1, <3>2, <3>3
  <2> QED
    BY <2>1, <2>2
<1>4. CASE ProcessMessage
  <2>1. batch # <<>> /\ batch \in Seq(Written) /\ adapter \in Weixin
    BY <1>4 DEF ProcessMessage, PollTypes, HandsOf, ListsTyped
  <2>2. /\ Head(batch) = batch[1] /\ 1 \in 1 .. Len(batch) /\ Head(batch) \in Written
        /\ <<Head(batch)>> \in Seq(Written) /\ Range(<<Head(batch)>>) = {Head(batch)}
    BY <2>1, ListFactsOfPoll DEF PollTypes
  <2>3. PICK s \in Seq(Written) : s = <<Head(batch)>>
    BY <2>2
  <2>4. Publish(s) /\ Head(batch) \notin Range(remembered)
    BY <1>4, <2>3 DEF ProcessMessage
  <2>5. \A i \in Range(heard) : i < Head(batch)
    BY <2>1, <2>2, <2>4 DEF BatchIsNew
  <2>6. \A j, k \in 1 .. Len(s) : ~(j < k)
    BY <2>3
  <2> QED
    BY <2>2, <2>3, <2>4, <2>5, <2>6
<1> QED
  BY <1>1, <1>2, <1>3, <1>4

LEMMA HeardInOrderStep ==
  ASSUME PollInv, [PollNext]_pollVars
  PROVE  HeardInOrder'
<1> USE DEF PollInv
<1>0. adapter' = adapter /\ heard \in Seq(Written) /\ Len(heard) \in Nat
      /\ \A k \in 1 .. Len(heard) : heard[k] \in Written /\ heard[k] \in Range(heard)
  <2>1. heard \in Seq(Written)
    BY DEF PollTypes, ListsTyped
  <2> QED
    BY <2>1, PollScalarsStep, ListFactsOfPoll DEF PollTypes
<1>1. SUFFICES ASSUME adapter # "email" PROVE HeardInOrder'
  BY <1>0 DEF HeardInOrder
<1>2. CASE Write
  BY <1>0, <1>1, <1>2, WriteFacts DEF HeardInOrder, PollTypes
<1>3. CASE log' = log /\ heard' = heard
  BY <1>0, <1>3 DEF HeardInOrder
<1>4. CASE heard' = <<>>
  <2>1. Len(heard') = 0
    BY <1>4, EmptyList
  <2> QED
    BY <2>1 DEF HeardInOrder
<1>5. CASE log' = log /\ heard' \notin {heard, <<>>}
  <2>1. PICK s \in Seq(Written) :
           /\ Publish(s) /\ \A j, k \in 1 .. Len(s) : j < k => s[j] < s[k]
           /\ \A i \in Range(heard), j \in Range(s) : log[i].chat = log[j].chat => i < j
    BY <1>1, <1>5, PublishedNext
  <2>2. PICK t \in Seq(Written) :
           /\ heard' = heard \o t /\ \A j, k \in 1 .. Len(t) : j < k => t[j] < t[k]
           /\ \A k \in 1 .. Len(t) : t[k] \in Range(s)
    BY <2>1, ToldInOrder DEF PollTypes
  <2>3. \A j \in 1 .. Len(heard), k \in 1 .. Len(t) :
           log[heard[j]].chat = log[t[k]].chat => heard[j] < t[k]
    BY <1>0, <2>1, <2>2
  <2>4. \A j, k \in 1 .. Len(heard) : j < k /\ log[heard[j]].chat = log[heard[k]].chat => heard[j] < heard[k]
    BY <1>1 DEF HeardInOrder
  <2>5. \A j, k \in 1 .. Len(heard \o t) :
            j < k /\ log[(heard \o t)[j]].chat = log[(heard \o t)[k]].chat
               => (heard \o t)[j] < (heard \o t)[k]
    BY <1>0, <2>2, <2>3, <2>4, OrderConcat DEF PollTypes
  <2> QED
    BY <1>5, <2>2, <2>5 DEF HeardInOrder
<1> QED
  BY <1>2, <1>3, <1>4, <1>5, LogStays

\* What is heard after a step that publishes.
LEMMA HeardAfter ==
  ASSUME PollTypes, NEW s \in Seq(Written), Publish(s)
  PROVE  Range(heard') \subseteq Range(heard) \cup Range(s)
<1>1. Told(s) \in Seq(Written) /\ heard' = heard \o Told(s) /\ Range(Told(s)) \subseteq Range(s)
  BY PublishFacts DEF PollTypes
<1>2. Range(heard \o Told(s)) = Range(heard) \cup Range(Told(s))
  BY <1>1, RangeConcatenation DEF PollTypes, ListsTyped
<1> QED
  BY <1>1, <1>2

LEMMA HeardBelowStep ==
  ASSUME PollInv, [PollNext]_pollVars
  PROVE  HeardBelowCursor'
<1> USE DEF PollInv
<1>0. /\ 1 \in DOMAIN PollChats /\ adapter' = adapter /\ turn \in DOMAIN PollChats
      /\ Range(heard) \subseteq Written /\ Written \subseteq Nat /\ Len(log) \in Nat
      /\ cursor \in [DOMAIN PollChats -> 0 .. Len(log)] /\ \A t \in DOMAIN PollChats : cursor[t] \in Nat
  <2>1. Range(heard) \subseteq Written
    BY ListFactsOfPoll DEF PollTypes, ListsTyped
  <2> QED
    BY <2>1, PollScalarsStep, PollFacts DEF PollTypes, PollScalars, LogTyped
<1>1. CASE Write
  <2>1. \A i \in Range(heard) : log'[i] = log[i]
    BY <1>0, <1>1, WriteFacts DEF PollTypes
  <2>2. heard' = heard /\ cursor' = cursor
    BY <1>1, WriteFacts DEF PollTypes, pollMemory
  <2> QED
    BY <1>0, <2>1, <2>2 DEF HeardBelowCursor
<1>2. CASE heard' = <<>>
  <2>1. Range(heard') = {}
    BY <1>2, EmptyList
  <2> QED
    BY <2>1 DEF HeardBelowCursor
<1>3. CASE log' = log /\ heard' = heard /\ \A t \in DOMAIN PollChats : cursor[t] <= cursor'[t] /\ cursor'[t] \in Nat
  <2>1. ASSUME NEW i \in Range(heard), NEW t \in DOMAIN PollChats, i <= cursor[t] PROVE i <= cursor'[t]
    <3>1. i \in Nat
      BY <1>0
    <3> QED
      BY <1>0, <1>3, <2>1, <3>1
  <2> QED
    BY <1>0, <1>3, <2>1 DEF HeardBelowCursor
<1>4. CASE StartPolling
  <2>1. heard' = <<>>
    BY <1>4 DEF StartPolling, PollTypes, HandsOf
  <2> QED
    BY <1>2, <2>1
<1>5. CASE Ask \/ AskFails \/ SearchUnseen \/ FetchMail \/ FetchUnflagged \/ SkipMail \/ FetchBreaks \/ UNCHANGED pollVars
  <2>1. log' = log /\ heard' = heard /\ cursor' = cursor
    BY <1>5 DEF Ask, AskFails, SearchUnseen, FetchMail, FetchUnflagged, SkipMail, FetchBreaks, pollVars, pollMemory
  <2>2. \A t \in DOMAIN PollChats : cursor[t] <= cursor[t]
    BY <1>0
  <2> QED
    BY <1>0, <1>3, <2>1, <2>2
<1>6. CASE TakeUpdates
  <2>1. PICK new : /\ new = {i \in Written \ settled : i > cursor[1]} /\ Publish(InOrder(new))
                   /\ cursor' = IF new = {} THEN cursor ELSE [cursor EXCEPT ![1] = Last1(new)]
    BY <1>6 DEF TakeUpdates
  <2>2. InOrder(new) \in Seq(Written) /\ Range(InOrder(new)) = new
    BY <2>1, OrderFacts DEF PollTypes
  <2>3. Range(heard') \subseteq Range(heard) \cup new
    BY <2>1, <2>2, HeardAfter
  <2>4. \A i \in Range(heard) : i <= cursor[1]
    BY <1>6 DEF TakeUpdates, HeardBelowCursor
  <2>5. CASE new = {}
    BY <1>0, <1>6, <2>1, <2>3, <2>4, <2>5 DEF HeardBelowCursor, TakeUpdates, History
  <2>6. CASE new # {}
    <3>1. Last1(new) \in new /\ \A j \in new : j <= Last1(new)
      BY <2>1, <2>6, LastFacts DEF PollTypes
    <3>2. cursor'[1] = Last1(new) /\ Last1(new) > cursor[1] /\ Last1(new) \in Nat
      BY <1>0, <2>1, <2>6, <3>1
    <3>3. ASSUME NEW i \in Range(heard') PROVE i <= cursor'[1]
      <4>1. CASE i \in new
        BY <3>1, <3>2, <4>1
      <4>2. CASE i \in Range(heard)
        <5>1. i \in Nat /\ i <= cursor[1] /\ cursor[1] \in Nat
          BY <1>0, <2>4, <4>2
        <5> QED
          BY <3>2, <5>1
      <4> QED
        BY <2>3, <4>1, <4>2
    <3> QED
      BY <1>0, <1>6, <3>3 DEF HeardBelowCursor, TakeUpdates, History
  <2> QED
    BY <2>5, <2>6
<1>7. CASE TakeSlackHistory \/ TakeDiscordHistory
  <2>1. TakePage /\ adapter \in History /\ log' = log
    BY <1>7 DEF TakeSlackHistory, TakeDiscordHistory, History, TakePage
  <2>2. PICK page \in Seq(Written) :
          /\ Publish(page) /\ Range(page) \subseteq NewIn(turn)
          /\ page = <<>> => cursor' = cursor
          /\ page # <<>> => \E n \in Range(page) :
               cursor' = [cursor EXCEPT ![turn] = n] /\ \A i \in Range(page) : i <= n
    BY <1>0, <2>1, PageFacts DEF PollTypes
  <2>3. Range(heard') \subseteq Range(heard) \cup Range(page)
    BY <2>2, HeardAfter
  <2>4. ASSUME NEW i \in Range(heard'), NEW t \in DOMAIN PollChats, PollChats[t] = log[i].chat
        PROVE  i <= cursor'[t]
    <3>1. i \in Range(page) => page # <<>>
      BY EmptyList
    <3>2. CASE page = <<>>
      BY <2>1, <2>2, <2>3, <2>4, <3>1, <3>2 DEF HeardBelowCursor
    <3>3. CASE page # <<>>
      <4>1. PICK n \in Range(page) : cursor' = [cursor EXCEPT ![turn] = n] /\ \A j \in Range(page) : j <= n
        BY <2>2, <3>3
      <4>2. n \in Nat /\ n > cursor[turn]
        BY <1>0, <2>2 DEF NewIn
      <4>3. CASE i \in Range(page)
        <5>1. PollChats[t] = PollChats[turn]
          BY <2>2, <2>4, <4>3 DEF NewIn
        <5>2. t = turn
          BY <1>0, <5>1, PollAssumption
        <5> QED
          BY <1>0, <4>1, <4>3, <5>2
      <4>4. CASE i \in Range(heard)
        <5>1. i <= cursor[t] /\ i \in Nat /\ cursor[t] \in Nat
          BY <1>0, <2>1, <2>4, <4>4 DEF HeardBelowCursor
        <5>2. cursor[t] <= cursor'[t] /\ cursor'[t] \in Nat
          BY <1>0, <4>1, <4>2
        <5> QED
          BY <5>1, <5>2
      <4> QED
        BY <2>3, <4>3, <4>4
    <3> QED
      BY <3>2, <3>3
  <2> QED
    BY <1>0, <2>1, <2>4 DEF HeardBelowCursor, History, Weixin
<1>8. CASE TakeBatch
  <2>1. log' = log /\ heard' = heard
    BY <1>8 DEF TakeBatch
  <2>2. cursor' = cursor \/ \E n \in Written : n > cursor[1] /\ cursor' = [cursor EXCEPT ![1] = n]
    BY <1>8, BatchFacts DEF PollTypes
  <2>3. \A t \in DOMAIN PollChats : cursor[t] <= cursor'[t] /\ cursor'[t] \in Nat
    BY <1>0, <2>2
  <2> QED
    BY <1>3, <2>1, <2>3
<1>9. CASE ProcessMessage
  <2>1. batch # <<>> /\ batch \in Seq(Written) /\ cursor' = cursor /\ adapter \in Weixin
    BY <1>9 DEF ProcessMessage, PollTypes, HandsOf, ListsTyped
  <2>2. /\ Head(batch) = batch[1] /\ 1 \in 1 .. Len(batch)
        /\ <<Head(batch)>> \in Seq(Written) /\ Range(<<Head(batch)>>) = {Head(batch)}
    BY <2>1, ListFactsOfPoll DEF PollTypes
  <2>3. PICK s \in Seq(Written) : s = <<Head(batch)>>
    BY <2>2
  <2>4. heard' = heard \/ Publish(s)
    BY <1>9, <2>3 DEF ProcessMessage
  <2>5. Range(heard') \subseteq Range(heard) \cup {Head(batch)}
    BY <2>2, <2>3, <2>4, HeardAfter
  <2>6. Head(batch) <= cursor[1]
    BY <2>1, <2>2 DEF BatchIsNew
  <2> QED
    BY <1>0, <2>1, <2>5, <2>6 DEF HeardBelowCursor, History, Weixin
<1>10. CASE StopPolling \/ PollCrash
  BY <1>2, <1>10 DEF StopPolling, PollCrash, ForgetAll
<1>11. CASE PublishMails
  BY <1>0, <1>11 DEF PublishMails, HeardBelowCursor, History, Weixin
<1> QED
  BY <1>1, <1>4, <1>5, <1>6, <1>7, <1>8, <1>9, <1>10, <1>11 DEF PollNext

\* A repeated message is remembered, and what is new is new.
LEMMA TakenBatch ==
  ASSUME PollInv, [PollNext]_pollVars, TakeBatch
  PROVE  BatchIsNew'
<1> USE DEF PollInv
<1>0. /\ 1 \in DOMAIN PollChats /\ adapter' = adapter /\ adapter \in Weixin
      /\ Range(heard) \subseteq Written /\ Range(remembered) \subseteq Written /\ Written \subseteq Nat
      /\ cursor \in [DOMAIN PollChats -> 0 .. Len(log)] /\ cursor[1] \in Nat /\ SeenLimit \in Nat \ {0}
      /\ heard' = heard /\ remembered' = remembered
  <2>1. Range(heard) \subseteq Written /\ Range(remembered) \subseteq Written
    BY ListFactsOfPoll DEF PollTypes, ListsTyped
  <2> QED
    BY <2>1, PollScalarsStep, PollFacts DEF PollTypes, PollScalars, LogTyped, TakeBatch
<1>1. PICK again \in SUBSET Range(heard), new \in SUBSET Written :
         /\ new = {i \in Written : i > cursor[1]}
         /\ again = {} \/ \E i \in Range(heard) : again = {i} /\ i > cursor[1] - SeenLimit
         /\ InOrder(again) \in Seq(Written) /\ InOrder(new) \in Seq(Written)
         /\ batch' = InOrder(again) \o InOrder(new) /\ batch' \in Seq(Written)
         /\ Range(batch') = again \cup new
         /\ new = {} => cursor' = cursor
         /\ new # {} => \E n \in new : cursor' = [cursor EXCEPT ![1] = n] /\ \A i \in new : i <= n
  BY BatchFacts DEF PollTypes
<1>2. PICK p, q : p = InOrder(again) /\ q = InOrder(new)
  OBVIOUS
<1>3. /\ p \in Seq(Written) /\ Range(p) = again /\ \A j, k \in 1 .. Len(p) : j < k => p[j] < p[k]
      /\ q \in Seq(Written) /\ Range(q) = new /\ \A j, k \in 1 .. Len(q) : j < k => q[j] < q[k]
  <2>1. again \in SUBSET Written
    BY <1>0
  <2> QED
    BY <1>1, <1>2, <2>1, OrderFacts DEF PollTypes
<1>4. /\ Len(p) \in Nat /\ \A k \in 1 .. Len(p) : p[k] \in again
      /\ Len(q) \in Nat /\ \A k \in 1 .. Len(q) : q[k] \in new
  BY <1>3, ListFactsOfPoll DEF PollTypes
<1>5. /\ batch' = p \o q /\ Len(batch') = Len(p) + Len(q)
      /\ \A k \in 1 .. Len(p) : batch'[k] = p[k]
      /\ \A k \in (Len(p) + 1) .. (Len(p) + Len(q)) : batch'[k] = q[k - Len(p)]
  BY <1>1, <1>2, <1>3, ConcatProperties
<1>6. \A i \in again : i \in Nat /\ i <= cursor[1] /\ i \in Range(remembered)
  <2>1. ASSUME NEW i \in again PROVE i \in Nat /\ i <= cursor[1] /\ i \in Range(remembered)
    <3>0. PICK m \in Range(heard) : again = {m} /\ m > cursor[1] - SeenLimit
      BY <1>1
    <3>1. i \in Range(heard) /\ i > cursor[1] - SeenLimit /\ i \in Nat
      <4>1. i = m
        BY <3>0
      <4>2. m \in Nat
        BY <1>0
      <4> QED
        BY <3>0, <4>1, <4>2
    <3>2. i <= cursor[1]
      BY <1>0, <3>1 DEF HeardBelowCursor
    <3>3. ASSUME i \notin Range(remembered) PROVE FALSE
      <4>1. Len(remembered) = SeenLimit /\ \A k \in 1 .. Len(remembered) : i + k <= remembered[k]
        BY <1>0, <3>1, <3>3 DEF WindowIsRecent
      <4>2. SeenLimit \in 1 .. Len(remembered)
        BY <1>0, <4>1
      <4>3. remembered[SeenLimit] \in Range(remembered)
        BY <4>2, ListFactsOfPoll DEF PollTypes, ListsTyped
      <4>4. remembered[SeenLimit] <= cursor[1] /\ remembered[SeenLimit] \in Nat
        BY <1>0, <4>3 DEF BatchIsNew
      <4>5. i + SeenLimit <= remembered[SeenLimit]
        BY <4>1, <4>2
      <4> QED
        BY <1>0, <3>1, <4>4, <4>5
    <3> QED
      BY <3>1, <3>2, <3>3
  <2> QED
    BY <2>1
<1>7. \A j, k \in 1 .. Len(p) : ~(j < k)
  <2>1. ASSUME NEW j \in 1 .. Len(p), NEW k \in 1 .. Len(p), j < k PROVE FALSE
    <3>1. p[j] = p[k] /\ p[j] \in Nat
      BY <1>1, <1>4, <1>6
    <3>2. p[j] < p[k]
      BY <1>3, <2>1
    <3> QED
      BY <3>1, <3>2
  <2> QED
    BY <2>1
<1>8. \A i \in new : i \in Nat /\ i > cursor[1] /\ i <= cursor'[1]
  BY <1>0, <1>1
<1>9. cursor'[1] \in Nat /\ cursor[1] <= cursor'[1]
  BY <1>0, <1>1
<1>10. \A i \in Range(heard) \cup Range(remembered) : i \in Nat /\ i <= cursor[1]
  BY <1>0 DEF HeardBelowCursor, BatchIsNew
<1>11. ASSUME NEW k \in 1 .. Len(batch')
       PROVE  \/ k \in 1 .. Len(p) /\ batch'[k] = p[k] /\ p[k] \in again /\ k = 1
              \/ k - Len(p) \in 1 .. Len(q) /\ batch'[k] = q[k - Len(p)] /\ q[k - Len(p)] \in new
                 /\ k > Len(p)
  <2>1. CASE k \in 1 .. Len(p)
    <3>1. 1 \in 1 .. Len(p) /\ ~(1 < k)
      BY <1>4, <1>7, <2>1
    <3> QED
      BY <1>4, <1>5, <2>1, <3>1
  <2>2. CASE k \in (Len(p) + 1) .. (Len(p) + Len(q))
    BY <1>4, <1>5, <2>2
  <2> QED
    BY <1>4, <1>5, <2>1, <2>2
<1>12. \A k \in 1 .. Len(batch') : batch'[k] <= cursor'[1]
  <2>1. ASSUME NEW k \in 1 .. Len(batch') PROVE batch'[k] <= cursor'[1]
    <3>1. batch'[k] \in again \/ batch'[k] \in new
      BY <1>11
    <3>2. \A i \in again : i <= cursor'[1]
      BY <1>0, <1>6, <1>9
    <3> QED
      BY <1>8, <3>1, <3>2
  <2> QED
    BY <2>1
<1>13. \A i \in Range(remembered) : i <= cursor'[1]
  BY <1>0, <1>9, <1>10
<1>14. ASSUME NEW j \in 1 .. Len(batch'), NEW k \in 1 .. Len(batch'), j < k
       PROVE  batch'[j] < batch'[k]
  <2>1. ~(k \in 1 .. Len(p))
    BY <1>4, <1>7, <1>14
  <2>2. PICK b \in 1 .. Len(q) : b = k - Len(p) /\ batch'[k] = q[b] /\ q[b] \in new
    BY <1>11, <2>1
  <2>3. CASE j \in 1 .. Len(p)
    <3>1. batch'[j] \in again
      BY <1>4, <1>5, <2>3
    <3>2. \A m \in again, n \in new : m < n
      BY <1>0, <1>6, <1>8
    <3> QED
      BY <2>2, <3>1, <3>2
  <2>4. CASE ~(j \in 1 .. Len(p))
    <3>1. PICK a \in 1 .. Len(q) : a = j - Len(p) /\ batch'[j] = q[a]
      BY <1>11, <2>4
    <3>2. a < b
      BY <1>4, <1>14, <2>2, <3>1
    <3> QED
      BY <1>3, <2>2, <3>1, <3>2
  <2> QED
    BY <2>3, <2>4
<1>15. ASSUME NEW i \in Range(heard) \cup Range(remembered), NEW k \in 1 .. Len(batch')
       PROVE  i < batch'[k] \/ (k = 1 /\ batch'[1] \in Range(remembered))
  <2>1. CASE k = 1 /\ batch'[k] \in again
    BY <1>6, <2>1
  <2>2. CASE batch'[k] \in new
    <3>1. i \in Nat /\ i <= cursor[1] /\ batch'[k] \in Nat /\ batch'[k] > cursor[1]
      BY <1>8, <1>10, <2>2
    <3> QED
      BY <1>0, <3>1
  <2> QED
    BY <1>11, <2>1, <2>2
<1> QED
  BY <1>0, <1>12, <1>13, <1>14, <1>15 DEF BatchIsNew

LEMMA BatchStep ==
  ASSUME PollInv, [PollNext]_pollVars
  PROVE  BatchIsNew'
<1> USE DEF PollInv
<1>0. adapter' = adapter /\ batch \in Seq(Written) /\ remembered \in Seq(Written)
  BY PollScalarsStep DEF PollTypes, ListsTyped
<1>1. SUFFICES ASSUME adapter \in Weixin PROVE BatchIsNew'
  BY <1>0 DEF BatchIsNew
<1>2. CASE batch' = batch /\ remembered' = remembered /\ heard' = heard /\ cursor' = cursor
  BY <1>0, <1>1, <1>2 DEF BatchIsNew
<1>3. CASE batch' = <<>> /\ remembered' = <<>>
  <2>1. Len(batch') = 0 /\ Range(remembered') = {}
    BY <1>3, EmptyList
  <2> QED
    BY <2>1 DEF BatchIsNew
<1>4. CASE ProcessMessage
  <2>1. batch # <<>> /\ cursor' = cursor /\ batch' = Tail(batch)
    BY <1>4 DEF ProcessMessage, PollTypes, HandsOf
  <2>2. PICK i : i = Head(batch)
    OBVIOUS
  <2>3. /\ i = batch[1] /\ i \in Written /\ 1 \in 1 .. Len(batch) /\ Len(batch) \in Nat
        /\ Tail(batch) \in Seq(Written) /\ Len(Tail(batch)) = Len(batch) - 1
        /\ \A k \in 1 .. Len(Tail(batch)) : Tail(batch)[k] = batch[k + 1] /\ k + 1 \in 1 .. Len(batch)
        /\ <<i>> \in Seq(Written) /\ Range(<<i>>) = {i}
    BY <1>0, <2>1, <2>2, ListFactsOfPoll DEF PollTypes
  <2>4. /\ \A k \in 1 .. Len(batch) : batch[k] <= cursor[1]
        /\ \A j \in Range(remembered) : j <= cursor[1]
        /\ \A j, k \in 1 .. Len(batch) : j < k => batch[j] < batch[k]
        /\ \A j \in Range(heard) \cup Range(remembered), k \in 1 .. Len(batch) :
             j < batch[k] \/ (k = 1 /\ batch[1] \in Range(remembered))
    BY <1>1 DEF BatchIsNew
  <2>5. Range(heard') \cup Range(remembered') \subseteq Range(heard) \cup Range(remembered) \cup {i}
        /\ Range(remembered') \subseteq Range(remembered) \cup {i}
    <3>1. PICK longer : longer = Append(remembered, i)
      OBVIOUS
    <3>2. longer \in Seq(Written) /\ Range(longer) = Range(remembered) \cup {i}
      BY <1>0, <2>3, <3>1, ListFactsOfPoll DEF PollTypes
    <3>3. longer # <<>>
      BY <3>2, EmptyList
    <3>4. Range(Tail(longer)) \subseteq Range(longer)
      BY <3>2, <3>3, ListFactsOfPoll DEF PollTypes
    <3>5. PICK s \in Seq(Written) : s = <<i>>
      BY <2>3
    <3>6. \/ remembered' = remembered /\ heard' = heard
          \/ Range(remembered') \subseteq Range(longer) /\ Publish(s)
      BY <1>4, <2>2, <3>1, <3>4, <3>5 DEF ProcessMessage
    <3>7. Range(s) = {i}
      BY <2>3, <3>5
    <3> QED
      BY <3>2, <3>6, <3>7, HeardAfter
  <2>6. \A k \in 1 .. Len(Tail(batch)) : Tail(batch)[k] <= cursor[1]
    BY <2>3, <2>4
  <2>7. \A j \in Range(remembered') : j <= cursor[1]
    BY <2>3, <2>4, <2>5
  <2>8. ASSUME NEW j \in 1 .. Len(Tail(batch)), NEW k \in 1 .. Len(Tail(batch)), j < k
        PROVE  Tail(batch)[j] < Tail(batch)[k]
    <3>1. j + 1 < k + 1 /\ j + 1 \in 1 .. Len(batch) /\ k + 1 \in 1 .. Len(batch)
      BY <2>3, <2>8
    <3> QED
      BY <2>3, <2>4, <3>1
  <2>9. ASSUME NEW j \in Range(heard') \cup Range(remembered'), NEW k \in 1 .. Len(Tail(batch))
        PROVE  j < Tail(batch)[k]
    <3>1. k + 1 \in 1 .. Len(batch) /\ 1 < k + 1 /\ k + 1 # 1 /\ Tail(batch)[k] = batch[k + 1]
      BY <2>3
    <3>2. CASE j = i
      BY <2>3, <2>4, <3>1, <3>2
    <3>3. CASE j \in Range(heard) \cup Range(remembered)
      BY <2>4, <3>1, <3>3
    <3> QED
      BY <2>5, <3>2, <3>3
  <2> QED
    BY <2>1, <2>6, <2>7, <2>8, <2>9 DEF BatchIsNew
<1>5. CASE StartPolling
  <2>1. batch' = <<>> /\ remembered' = <<>>
    BY <1>5 DEF StartPolling, PollTypes, HandsOf
  <2> QED
    BY <1>3, <2>1
<1>6. CASE StopPolling \/ PollCrash
  BY <1>1, <1>3, <1>6 DEF StopPolling, PollCrash, ForgetAll, Weixin
<1>7. CASE Write \/ Ask \/ AskFails \/ UNCHANGED pollVars
  <2>1. batch' = batch /\ remembered' = remembered /\ heard' = heard /\ cursor' = cursor
    BY <1>7, WriteFacts DEF PollTypes, Ask, AskFails, pollVars, pollMemory
  <2> QED
    BY <1>2, <2>1
<1> QED
  BY <1>1, <1>4, <1>5, <1>6, <1>7, TakenBatch, ByAdapter DEF PollTypes

\* An id that leaves the window is as far back as the window is long.
LEMMA RememberedWindow ==
  ASSUME PollInv, [PollNext]_pollVars, ProcessMessage, Head(batch) \notin Range(remembered)
  PROVE  WindowIsRecent'
<1> USE DEF PollInv
<1>0. /\ adapter' = adapter /\ adapter \in Weixin /\ batch # <<>> /\ batch \in Seq(Written)
      /\ remembered \in Seq(Written) /\ SeenLimit \in Nat \ {0} /\ Len(remembered) <= SeenLimit
      /\ Range(heard) \subseteq Written /\ Written \subseteq Nat
  <2>1. Range(heard) \subseteq Written
    BY ListFactsOfPoll DEF PollTypes, ListsTyped
  <2> QED
    BY <2>1, PollScalarsStep, PollFacts DEF PollTypes, ListsTyped, HandsOf, ProcessMessage
<1>1. PICK i, n, old : i = Head(batch) /\ n = Len(remembered) /\ old = Append(remembered, i)
  OBVIOUS
<1>2. /\ i \in Written /\ i \in Nat /\ i = batch[1] /\ 1 \in 1 .. Len(batch)
      /\ <<i>> \in Seq(Written) /\ Range(<<i>>) = {i}
  BY <1>0, <1>1, ListFactsOfPoll DEF PollTypes
<1>3. /\ n \in Nat /\ old \in Seq(Written) /\ Len(old) = n + 1
      /\ \A k \in 1 .. n : old[k] = remembered[k] /\ remembered[k] \in Nat /\ remembered[k] \in Range(remembered)
      /\ old[n + 1] = i
  <2>1. /\ n \in Nat /\ \A k \in 1 .. n : remembered[k] \in Nat /\ remembered[k] \in Range(remembered)
    BY <1>0, <1>1, ListFactsOfPoll DEF PollTypes
  <2>2. /\ old \in Seq(Written) /\ Len(old) = n + 1 /\ old[n + 1] = i
        /\ \A k \in 1 .. n : old[k] = remembered[k]
    BY <1>0, <1>1, <1>2, AppendFacts
  <2> QED
    BY <2>1, <2>2
<1>4. \A m \in Range(heard) \cup Range(remembered) : m < i
  BY <1>0, <1>1, <1>2 DEF BatchIsNew
<1>5. /\ \A j, k \in 1 .. n : j <= k => remembered[j] + (k - j) <= remembered[k]
      /\ \A m \in Range(heard) \ Range(remembered) :
           n = SeenLimit /\ \A k \in 1 .. n : m + k <= remembered[k]
  BY <1>0, <1>1 DEF WindowIsRecent
<1>6. ASSUME NEW j \in 1 .. n + 1, NEW k \in 1 .. n + 1, j <= k
      PROVE  old[j] + (k - j) <= old[k]
  <2>1. CASE k \in 1 .. n
    <3>1. j \in 1 .. n
      BY <1>3, <1>6, <2>1
    <3> QED
      BY <1>3, <1>5, <1>6, <2>1, <3>1
  <2>2. CASE k = n + 1 /\ j = n + 1
    BY <1>2, <1>3, <2>2
  <2>3. CASE k = n + 1 /\ j \in 1 .. n
    <3>1. n \in 1 .. n /\ j <= n
      BY <1>3, <2>3
    <3>2. remembered[j] + (n - j) <= remembered[n] /\ remembered[n] < i
      BY <1>3, <1>4, <1>5, <2>3, <3>1
    <3> QED
      BY <1>2, <1>3, <2>3, <3>1, <3>2
  <2> QED
    BY <1>3, <2>1, <2>2, <2>3
<1>7. remembered' = (IF n + 1 > SeenLimit THEN Tail(old) ELSE old) /\ Publish(<<i>>)
  BY <1>1, <1>3 DEF ProcessMessage
<1>8. Range(heard') \subseteq Range(heard) \cup {i}
  <2>1. PICK s \in Seq(Written) : s = <<i>>
    BY <1>2
  <2>2. Publish(s) /\ Range(s) = {i}
    BY <1>2, <1>7, <2>1
  <2> QED
    BY <2>2, HeardAfter
<1>9. Range(old) = Range(remembered) \cup {i}
  BY <1>0, <1>1, <1>2, ListFactsOfPoll DEF PollTypes
<1>10. CASE ~(n + 1 > SeenLimit)
  <2>1. remembered' = old
    BY <1>7, <1>10
  <2>2. ASSUME NEW m \in Range(heard') \ Range(remembered') PROVE FALSE
    <3>1. m \in Range(heard) \ Range(remembered)
      BY <1>8, <1>9, <2>1
    <3>2. n = SeenLimit
      BY <1>5, <3>1
    <3> QED
      BY <1>0, <1>10, <3>2
  <2> QED
    BY <1>0, <1>3, <1>6, <2>1, <2>2 DEF WindowIsRecent
<1>11. CASE n + 1 > SeenLimit
  <2>0. n = SeenLimit /\ n \in 1 .. n
    BY <1>0, <1>1, <1>3, <1>11
  <2>1. remembered' = Tail(old) /\ old # <<>>
    <3>1. old # <<>>
      BY <1>9, EmptyList
    <3> QED
      BY <1>7, <1>11, <3>1
  <2>2. /\ Tail(old) \in Seq(Written) /\ Len(Tail(old)) = n /\ Head(old) = old[1]
        /\ Range(old) = {Head(old)} \cup Range(Tail(old))
        /\ \A k \in 1 .. n : Tail(old)[k] = old[k + 1]
    <3>1. /\ Tail(old) \in Seq(Written) /\ Len(Tail(old)) = Len(old) - 1 /\ Head(old) = old[1]
          /\ Range(old) = {Head(old)} \cup Range(Tail(old))
          /\ \A k \in 1 .. Len(Tail(old)) : Tail(old)[k] = old[k + 1]
      BY <1>3, <2>1, ListFactsOfPoll DEF PollTypes
    <3>2. Len(Tail(old)) = n
      BY <1>3, <3>1
    <3> QED
      BY <3>1, <3>2
  <2>3. i \in Range(Tail(old))
    <3>1. Tail(old)[n] \in Range(Tail(old)) /\ Tail(old)[n] = old[n + 1]
      <4>1. Range(Tail(old)) = {Tail(old)[k] : k \in 1 .. Len(Tail(old))}
        BY <2>2, ListFactsOfPoll DEF PollTypes
      <4> QED
        BY <2>0, <2>2, <4>1
    <3> QED
      BY <1>3, <3>1
  <2>4. ASSUME NEW j \in 1 .. n, NEW k \in 1 .. n, j <= k
        PROVE  Tail(old)[j] + (k - j) <= Tail(old)[k]
    <3>1. j + 1 \in 1 .. n + 1 /\ k + 1 \in 1 .. n + 1 /\ j + 1 <= k + 1 /\ (k + 1) - (j + 1) = k - j
      BY <1>3, <2>4
    <3>2. old[j + 1] + ((k + 1) - (j + 1)) <= old[k + 1]
      BY <1>6, <3>1
    <3> QED
      BY <2>2, <3>1, <3>2
  <2>5. ASSUME NEW m \in Range(heard') \ Range(remembered'), NEW k \in 1 .. n
        PROVE  m + k <= Tail(old)[k]
    <3>1. m \in Range(heard) /\ m \notin Range(Tail(old)) /\ m \in Nat
      BY <1>0, <1>8, <2>1, <2>3
    <3>2. k + 1 \in 1 .. n + 1 /\ 1 \in 1 .. n + 1 /\ 1 <= k + 1 /\ (k + 1) - 1 = k
      BY <1>3
    <3>3. CASE m \in Range(remembered)
      <4>1. m = old[1]
        BY <1>9, <2>2, <3>1, <3>3
      <4>2. old[1] + ((k + 1) - 1) <= old[k + 1]
        BY <1>6, <3>2
      <4> QED
        BY <2>2, <3>2, <4>1, <4>2
    <3>4. CASE m \notin Range(remembered)
      <4>1. \A l \in 1 .. n : m + l <= remembered[l]
        BY <1>5, <3>1, <3>4
      <4>2. CASE k + 1 \in 1 .. n
        <5>1. m + (k + 1) <= remembered[k + 1] /\ Tail(old)[k] = remembered[k + 1] /\ remembered[k + 1] \in Nat
          BY <1>3, <2>2, <4>1, <4>2
        <5>2. k \in Nat /\ m + k <= m + (k + 1)
          BY <1>3, <3>1
        <5> QED
          BY <1>3, <3>1, <5>1, <5>2
      <4>3. CASE k = n
        <5>1. m + n <= remembered[n] /\ remembered[n] < i /\ remembered[n] \in Nat /\ Tail(old)[n] = i
          BY <1>3, <1>4, <2>0, <2>2, <4>1
        <5> QED
          BY <1>2, <1>3, <3>1, <4>3, <5>1
      <4> QED
        BY <1>3, <4>2, <4>3
    <3> QED
      BY <3>3, <3>4
  <2> QED
    BY <1>0, <2>0, <2>1, <2>2, <2>4, <2>5 DEF WindowIsRecent
<1> QED
  BY <1>10, <1>11

LEMMA RecentStep ==
  ASSUME PollInv, [PollNext]_pollVars
  PROVE  WindowIsRecent'
<1> USE DEF PollInv
<1>0. adapter' = adapter
  BY PollScalarsStep
<1>1. SUFFICES ASSUME adapter \in Weixin PROVE WindowIsRecent'
  BY <1>0 DEF WindowIsRecent
<1>2. CASE remembered' = remembered /\ heard' = heard
  BY <1>0, <1>1, <1>2 DEF WindowIsRecent
<1>3. CASE remembered' = <<>> /\ heard' = <<>>
  <2>1. Len(remembered') = 0 /\ Range(heard') = {}
    BY <1>3, EmptyList
  <2> QED
    BY <2>1 DEF WindowIsRecent
<1>4. CASE ProcessMessage
  <2>1. CASE Head(batch) \in Range(remembered)
    BY <1>2, <1>4, <2>1 DEF ProcessMessage
  <2> QED
    BY <1>4, <2>1, RememberedWindow
<1>5. CASE StartPolling
  BY <1>2, <1>5 DEF StartPolling
<1>6. CASE StopPolling \/ PollCrash
  BY <1>3, <1>6 DEF StopPolling, PollCrash, ForgetAll
<1>7. CASE Write \/ Ask \/ AskFails \/ TakeBatch \/ UNCHANGED pollVars
  BY <1>2, <1>7, WriteFacts DEF PollTypes, Ask, AskFails, TakeBatch, pollVars, pollMemory
<1> QED
  BY <1>1, <1>4, <1>5, <1>6, <1>7, ByAdapter DEF PollTypes

-----------------------------------------------------------------------------
\* However many messages there are: what is not asked for again was published,
\* is in hand or was lost in a way the code accepts.
THEOREM PollInvariant == PollSpec => []PollInv
<1>1. PollInit => PollInv
  <2> SUFFICES ASSUME PollInit PROVE PollInv
    OBVIOUS
  <2>1. Len(log) = 0 /\ log \in Seq([chat : Range(PollChats), wanted : BOOLEAN]) /\ Written = {}
        /\ \A S : <<>> \in Seq(S)
    BY EmptyList DEF PollInit, Written
  <2>2. Len(<<>>) = 0 /\ Range(<<>>) = {}
    BY EmptyList
  <2>3. 1 \in DOMAIN PollChats /\ {MaxMessages, MaxLives, SeenLimit} \subseteq Nat
    <3>1. PollChats \in Seq(Range(PollChats)) /\ PollChats # <<>>
      BY PollAssumption
    <3>2. Len(PollChats) \in Nat /\ Len(PollChats) # 0 /\ DOMAIN PollChats = 1 .. Len(PollChats)
      BY <3>1, LenProperties, EmptySeq
    <3> QED
      BY <3>2, PollAssumption
  <2>4. PollScalars
    BY <2>3 DEF PollInit, PollScalars
  <2>5. LogTyped
    BY <2>1, <2>3 DEF PollInit, LogTyped
  <2>6. NotesTyped
    BY <2>1 DEF PollInit, NotesTyped
  <2>7. ListsTyped
    BY <2>1, <2>2, <2>3 DEF PollInit, ListsTyped
  <2>8. HandsOf
    BY DEF PollInit, HandsOf
  <2>9. NothingPassedOver /\ OffsetPublished
    BY <2>1 DEF NothingPassedOver, OffsetPublished
  <2>10. SettledUpTo /\ RememberedTold /\ UnseenOnce
    BY <2>1, <2>2 DEF PollInit, SettledUpTo, RememberedTold, UnseenOnce
  <2>11. HeardInOrder /\ HeardBelowCursor
    BY <2>1, <2>2 DEF PollInit, HeardInOrder, HeardBelowCursor
  <2>12. BatchIsNew /\ WindowIsRecent
    BY <2>1, <2>2 DEF PollInit, BatchIsNew, WindowIsRecent
  <2> QED
    BY <2>4, <2>5, <2>6, <2>7, <2>8, <2>9, <2>10, <2>11, <2>12 DEF PollInv, PollTypes
<1>2. PollInv /\ [PollNext]_pollVars => PollInv'
  <2> SUFFICES ASSUME PollInv, [PollNext]_pollVars PROVE PollInv'
    OBVIOUS
  <2>1. PollTypes'
    BY PollScalarsStep, LogTypedStep, NotesTypedStep, ListsTypedStep, HandsStep DEF PollInv, PollTypes
  <2> QED
    BY <2>1, PassedStep, OffsetStep, SettledStep, RememberedStep, UnseenStep, HeardInOrderStep,
       HeardBelowStep, BatchStep, RecentStep DEF PollInv
<1> QED
  BY <1>1, <1>2, PTL DEF PollSpec

\* NothingPassedOver: the cursor, the confirmation and the \Seen flag run ahead
\* of the bus only where the code accepts it.
THEOREM NothingIsPassedOver == PollSpec => []NothingPassedOver
<1>1. PollInv => NothingPassedOver
  BY DEF PollInv
<1> QED
  BY <1>1, PollInvariant, PTL

\* The inbox: what the channel has published in this life, with its chats.
PollTaken == IF adapter = "email" THEN <<>> ELSE AsTaken(heard)

Taken == [chat : Range(PollChats), at : Nat]

TakenOf(h, l) == [k \in DOMAIN h |-> [chat |-> l[h[k]].chat, at |-> h[k]]]

\* What is taken is what was heard, one by one.
LEMMA TakenFacts ==
  ASSUME NEW l \in Seq([chat : Range(PollChats), wanted : BOOLEAN]), NEW h \in Seq(1 .. Len(l))
  PROVE  /\ TakenOf(h, l) \in Seq(Taken) /\ Len(TakenOf(h, l)) = Len(h) /\ Len(h) \in Nat
         /\ DOMAIN TakenOf(h, l) = 1 .. Len(h)
         /\ \A k \in 1 .. Len(h) : /\ TakenOf(h, l)[k] = [chat |-> l[h[k]].chat, at |-> h[k]]
                                  /\ h[k] \in 1 .. Len(l)
<1>1. Len(h) \in Nat /\ DOMAIN h = 1 .. Len(h) /\ Len(l) \in Nat
      /\ \A k \in 1 .. Len(h) : h[k] \in 1 .. Len(l)
  BY LenProperties, ElementOfSeq
<1>2. \A i \in 1 .. Len(l) : l[i].chat \in Range(PollChats)
  <2>1. \A i \in 1 .. Len(l) : l[i] \in [chat : Range(PollChats), wanted : BOOLEAN]
    BY ElementOfSeq
  <2> QED
    BY <2>1
<1>3. TakenOf(h, l) = [k \in 1 .. Len(h) |-> [chat |-> l[h[k]].chat, at |-> h[k]]]
  BY <1>1 DEF TakenOf
<1>4. \A k \in 1 .. Len(h) : [chat |-> l[h[k]].chat, at |-> h[k]] \in Taken
  BY <1>1, <1>2 DEF Taken
<1>5. TakenOf(h, l) \in Seq(Taken) /\ Len(TakenOf(h, l)) = Len(h)
  BY <1>1, <1>3, <1>4, IsASeq
<1> QED
  BY <1>1, <1>3, <1>5

\* A step of the channel is one of the inbox: messages are taken in order, the
\* process forgets, or nothing happens.
LEMMA PollStepIsInboxStep ==
  ASSUME PollInv, PollInv', [PollNext]_pollVars
  PROVE  [PollInbox!Take \/ PollInbox!Forget]_PollTaken
<1>0. adapter' = adapter
  BY PollScalarsStep DEF PollInv
<1>1. CASE adapter = "email"
  BY <1>0, <1>1 DEF PollTaken
<1>2. SUFFICES ASSUME adapter # "email" PROVE [PollInbox!Take \/ PollInbox!Forget]_PollTaken
  BY <1>1
<1>3. PollTaken = TakenOf(heard, log) /\ PollTaken' = TakenOf(heard', log')
  BY <1>0, <1>2 DEF PollTaken, AsTaken, TakenOf
<1>4. PICK old, new : old = PollTaken /\ new = PollTaken'
  OBVIOUS
<1>5. /\ old \in Seq(Taken) /\ Len(old) = Len(heard) /\ Len(heard) \in Nat
      /\ \A k \in 1 .. Len(heard) :
           old[k] = [chat |-> log[heard[k]].chat, at |-> heard[k]] /\ heard[k] \in Written
  BY <1>3, <1>4, TakenFacts DEF PollInv, PollTypes, LogTyped, ListsTyped, Written
<1>6. /\ new \in Seq(Taken) /\ Len(new) = Len(heard') /\ Len(heard') \in Nat
      /\ DOMAIN new = 1 .. Len(heard')
      /\ \A k \in 1 .. Len(heard') : new[k] = [chat |-> log'[heard'[k]].chat, at |-> heard'[k]]
  BY <1>3, <1>4, TakenFacts DEF PollInv, PollTypes, LogTyped, ListsTyped, Written
<1>7. \A i \in Written : log'[i] = log[i]
  BY WriteFacts, LogStays DEF PollInv, PollTypes
<1>8. CASE heard' = heard
  <2>1. \A k \in 1 .. Len(heard) : new[k] = old[k]
    <3>1. ASSUME NEW k \in 1 .. Len(heard) PROVE new[k] = old[k]
      <4>1. heard[k] \in Written /\ k \in 1 .. Len(heard')
        BY <1>5, <1>8
      <4>2. log'[heard[k]] = log[heard[k]]
        BY <1>7, <4>1
      <4> QED
        BY <1>5, <1>6, <1>8, <4>1, <4>2
    <3> QED
      BY <3>1
  <2>2. new = old
    BY <1>5, <1>6, <1>8, <2>1, SeqEqual
  <2> QED
    BY <1>4, <2>2
<1>9. CASE heard' = <<>>
  <2>1. new \in Seq(Taken) /\ Len(new) = 0
    BY <1>6, <1>9, EmptyList
  <2>2. new = <<>>
    BY <2>1, EmptySeq
  <2> QED
    BY <1>4, <2>2 DEF PollInbox!Forget, PollTaken
<1>10. CASE heard' \notin {heard, <<>>}
  <2>1. PICK s \in Seq(Written) : Publish(s)
    BY <1>2, <1>10, PublishedNext
  <2>2. /\ Told(s) \in Seq(Written) /\ heard' = heard \o Told(s)
    BY <2>1, PublishFacts DEF PollInv, PollTypes
  <2>3. /\ Len(heard') = Len(heard) + Len(Told(s)) /\ Len(Told(s)) \in Nat
        /\ \A k \in 1 .. Len(heard) : heard'[k] = heard[k]
    BY <2>2, ConcatProperties, LenProperties DEF PollInv, PollTypes, ListsTyped
  <2>4. Len(old) <= Len(new) /\ \A k \in 1 .. Len(old) : k \in 1 .. Len(heard')
    BY <1>5, <1>6, <2>3
  <2>5. \A k \in 1 .. Len(old) : new[k] = old[k]
    <3>1. ASSUME NEW k \in 1 .. Len(heard) PROVE new[k] = old[k]
      <4>0. k \in 1 .. Len(heard')
        BY <1>5, <2>3
      <4>1. heard'[k] = heard[k] /\ heard[k] \in Written /\ k \in 1 .. Len(heard')
        BY <1>5, <2>3, <4>0
      <4>2. log'[heard[k]] = log[heard[k]]
        BY <1>7, <4>1
      <4> QED
        BY <1>5, <1>6, <4>1, <4>2
    <3> QED
      BY <1>5, <3>1
  <2>6. IsPrefix(old, new)
    BY <1>5, <1>6, <2>4, <2>5, PrefixFacts
  <2>7. PollInbox!InChatOrder(new)
    <3>1. \A j, k \in 1 .. Len(heard') :
             j < k /\ log'[heard'[j]].chat = log'[heard'[k]].chat => heard'[j] < heard'[k]
      BY <1>0, <1>2 DEF PollInv, HeardInOrder
    <3>2. \A j, k \in DOMAIN new : j < k /\ new[j].chat = new[k].chat => new[j].at < new[k].at
      BY <1>6, <3>1
    <3> QED
      BY <3>2 DEF PollInbox!InChatOrder
  <2> QED
    BY <1>4, <2>6, <2>7 DEF PollInbox!Take, PollInbox!IsPrefix, IsPrefix, PollTaken
<1> QED
  BY <1>8, <1>9, <1>10

\* PollKeepsOrder: in one life of the process no message is published twice, and
\* those of a chat are published in order.
THEOREM PollRefinesInbox == PollSpec => PollKeepsOrder
<1>1. PollInit => PollTaken = <<>>
  <2> SUFFICES ASSUME PollInit PROVE PollTaken = <<>>
    OBVIOUS
  <2>1. heard = <<>> /\ DOMAIN heard = {}
    BY DEF PollInit
  <2>2. AsTaken(heard) = <<>>
    BY <2>1 DEF AsTaken
  <2> QED
    BY <2>2 DEF PollTaken
<1>2. PollInv /\ PollInv' /\ [PollNext]_pollVars
        => [PollInbox!Take \/ PollInbox!Forget]_PollTaken
  BY PollStepIsInboxStep
<1> QED
  BY <1>1, <1>2, PollInvariant, PTL
  DEF PollSpec, PollKeepsOrder, PollInbox!InboxSpec, PollInbox!InboxInit, PollTaken

\* The types of the channels that poll.
LEMMA PollTypesHold ==
  ASSUME PollTypes PROVE PollTypeOK
<1>1. /\ Range(batch) \subseteq Written /\ Range(gathered) \subseteq Written
      /\ Range(remembered) \subseteq Written /\ Range(heard) \subseteq Written
  BY ListFactsOfPoll DEF PollTypes, ListsTyped
<1> QED
  BY <1>1 DEF PollTypes, PollScalars, LogTyped, NotesTyped, ListsTyped, PollTypeOK

-----------------------------------------------------------------------------
(* The channels side by side *)

\* Each module keeps its own specification among the others.
LEMMA ChannelParts ==
  MCSpec => PollSpec /\ PushSpec /\ SendSpec /\ BridgeSpec
<1>1. MCInit => PollInit /\ PushInit /\ SendInit /\ BridgeInit
  BY DEF MCInit
<1>2. [MCNext]_vars => [PollNext]_pollVars
  BY DEF MCNext, vars
<1>3. [MCNext]_vars => [PushNext]_pushVars
  BY DEF MCNext, vars
<1>4. [MCNext]_vars => [SendNext]_sendVars
  BY DEF MCNext, vars
<1>5. [MCNext]_vars => [BridgeNext]_bridgeVars
  BY DEF MCNext, vars
<1> QED
  BY <1>1, <1>2, <1>3, <1>4, <1>5, PTL
  DEF MCSpec, PollSpec, PushSpec, SendSpec, BridgeSpec

\* The types of the channels that are told, and of what they send.
LEMMA OtherTypesHold ==
  /\ PushInv => PushTypeOK
  /\ SendInv => SendTypeOK
<1>1. PushInv => PushTypeOK
  BY DEF PushInv, PushTypes, PushTypeOK, PostRecord
<1>2. SendInv => SendTypeOK
  BY DEF SendInv, SendTypes, SendTypeOK, SendPart, Deltas
<1> QED
  BY <1>1, <1>2

\* Within one life of the process every channel that promises it publishes its
\* messages once and those of a chat in order, and WhatsApp's bridge tells nobody
\* that lacks its token.
THEOREM ChannelsAreInboxes == MCSpec => ChannelsKeepOrder
<1>1. PollInv => PollTypeOK
  BY PollTypesHold DEF PollInv
<1> QED
  BY <1>1, OtherTypesHold, ChannelParts, PollInvariant, PollRefinesInbox, PushInvariant,
     PushRefinesInbox, SendInvariant, BridgeRefinesInbox, TokenIsNeeded, PTL
  DEF ChannelsKeepOrder
=============================================================================
