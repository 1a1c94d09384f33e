-------------------------- MODULE TcpSessionProofs --------------------------
(***************************************************************************)
(* The write side of a TCP session, for any number of sessions, broadcasts  *)
(* and sends and any size of the write queue: the count of a shared frame   *)
(* covers its holders, and messages keep their order.                       *)
(***************************************************************************)
EXTENDS TcpSession, FiniteSetTheorems, TLAPS

(* What a send and a receive make of a queue. *)
LEMMA AppendFacts ==
  ASSUME NEW S, NEW q \in Seq(S), NEW x \in S
  PROVE  /\ Append(q, x) \in Seq(S)
         /\ Len(Append(q, x)) = Len(q) + 1
         /\ \A i \in 1..Len(q) : Append(q, x)[i] = q[i]
         /\ Append(q, x)[Len(q) + 1] = x
  OBVIOUS

LEMMA TailFacts ==
  ASSUME NEW S, NEW q \in Seq(S), q # <<>>
  PROVE  /\ Tail(q) \in Seq(S)
         /\ Len(Tail(q)) = Len(q) - 1
         /\ Len(q) \in Nat \ {0}
         /\ \A i \in 1..Len(Tail(q)) : Tail(q)[i] = q[i + 1]
         /\ Head(q) = q[1]
         /\ Head(q) \in S
  OBVIOUS

-----------------------------------------------------------------------------
In(x, q) == \E i \in 1..Len(q) : q[i] = x
Distinct(q) == \A i, j \in 1..Len(q) : q[i] = q[j] => i = j

(* What a queue holds after a send and after a receive. *)
LEMMA InAppend ==
  ASSUME NEW S, NEW q \in Seq(S), NEW x \in S
  PROVE  /\ \A y : In(y, Append(q, x)) <=> In(y, q) \/ y = x
         /\ Distinct(q) /\ ~In(x, q) => Distinct(Append(q, x))
<1>. DEFINE r == Append(q, x)
            n == Len(q)
<1>1. /\ n \in Nat /\ Len(r) = n + 1 /\ r[n + 1] = x
      /\ \A i \in 1..n : r[i] = q[i]
  BY AppendFacts
<1>. HIDE DEF r
<1>2. \A y : In(y, r) <=> In(y, q) \/ y = x
  <2>. TAKE y
  <2>1. In(y, r) => In(y, q) \/ y = x
    BY <1>1 DEF In
  <2>2. In(y, q) => In(y, r)
    BY <1>1 DEF In
  <2>3. y = x => In(y, r)
    BY <1>1 DEF In
  <2>. QED BY <2>1, <2>2, <2>3, Zenon
<1>3. ASSUME Distinct(q), ~In(x, q), NEW i \in 1..(n + 1), NEW j \in 1..(n + 1), r[i] = r[j]
      PROVE  i = j
  <2>1. CASE i \in 1..n /\ j \in 1..n
    BY <1>3, <2>1, <1>1, Zenon DEF Distinct
  <2>2. CASE i = n + 1 /\ j \in 1..n
    BY <1>3, <2>2, <1>1, Zenon DEF In
  <2>3. CASE j = n + 1 /\ i \in 1..n
    BY <1>3, <2>3, <1>1, Zenon DEF In
  <2>. QED BY <2>1, <2>2, <2>3, <1>1
<1>. QED BY <1>1, <1>2, <1>3, Zenon DEF Distinct, r

LEMMA InTail ==
  ASSUME NEW S, NEW q \in Seq(S), q # <<>>, Distinct(q)
  PROVE  /\ In(Head(q), q)
         /\ \A y : In(y, Tail(q)) <=> In(y, q) /\ y # Head(q)
         /\ Distinct(Tail(q))
<1>. DEFINE r == Tail(q)
            n == Len(q)
<1>1. /\ n \in Nat \ {0} /\ Len(r) = n - 1 /\ Head(q) = q[1]
      /\ \A i \in 1..(n - 1) : r[i] = q[i + 1]
  BY TailFacts
<1>. HIDE DEF r
<1>2. In(Head(q), q)
  BY <1>1 DEF In
<1>3. \A y : In(y, r) <=> In(y, q) /\ y # Head(q)
  <2>. TAKE y
  <2>1. ASSUME In(y, r) PROVE In(y, q) /\ y # Head(q)
    <3>1. PICK i \in 1..(n - 1) : r[i] = y
      BY <2>1, <1>1, Zenon DEF In
    <3>2. i + 1 \in 1..n /\ q[i + 1] = y /\ i + 1 # 1 /\ 1 \in 1..n
      BY <3>1, <1>1
    <3>. QED BY <3>2, <1>1, Zenon DEF In, Distinct
  <2>2. ASSUME In(y, q), y # Head(q) PROVE In(y, r)
    <3>1. PICK i \in 1..n : q[i] = y
      BY <2>2, Zenon DEF In
    <3>2. i - 1 \in 1..(n - 1) /\ r[i - 1] = y
      BY <3>1, <2>2, <1>1
    <3>. QED BY <3>2, <1>1, Zenon DEF In
  <2>. QED BY <2>1, <2>2, Zenon
<1>4. Distinct(r)
  <2>. SUFFICES ASSUME NEW i \in 1..(n - 1), NEW j \in 1..(n - 1), r[i] = r[j] PROVE i = j
    BY <1>1, Zenon DEF Distinct
  <2>1. i + 1 \in 1..n /\ j + 1 \in 1..n /\ q[i + 1] = q[j + 1]
    BY <1>1
  <2>. QED BY <2>1 DEF Distinct
<1>. QED BY <1>2, <1>3, <1>4, Zenon DEF r

(* Cardinality, one element more or less. *)
LEMMA OneLess ==
  ASSUME NEW A, IsFiniteSet(A), NEW x \in A
  PROVE  Cardinality(A) \in Nat /\ Cardinality(A \ {x}) = Cardinality(A) - 1
  BY FS_RemoveElement, FS_CardinalityType

LEMMA OneMore ==
  ASSUME NEW A, IsFiniteSet(A), NEW x, x \notin A
  PROVE  Cardinality(A) \in Nat /\ Cardinality(A \cup {x}) = Cardinality(A) + 1
  BY FS_AddElement, FS_CardinalityType

(* A message is at most once in all of a session's hands: in those of its    *)
(* sender, which has not come to the session yet, in its queue, or in those  *)
(* of its write loop.                                                        *)
Apart ==
  /\ \A m \in Msgs, s \in Conns : s \in todo[m] => ~In(m, writeCh[s]) /\ whand[s] # m
  /\ \A m \in Msgs, s \in Conns : In(m, writeCh[s]) => whand[s] # m
  /\ \A s \in Conns : Distinct(writeCh[s])

(* Where the senders and the write loops are. *)
Posts ==
  /\ \A m \in Casts : at[m] = "idle" => todo[m] = Conns
  /\ \A m \in Msgs : at[m] \in {"precheck", "water", "select"} => to[m] \in todo[m]
  /\ \A s \in Conns : whand[s] # None <=> wpc[s] \in {"deadline", "write"}

Counted(m) == refs[m] >= Holders(m) /\ (~config.timeout => refs[m] = Holders(m))
FrameInv == SessionTypeOK /\ Apart /\ Posts /\ \A m \in Casts : Counted(m)

(* The three sets whose sizes Holders adds up. *)
LEMMA HolderSets ==
  ASSUME SessionTypeOK, NEW m \in Casts
  PROVE  /\ IsFiniteSet(Unsent(m)) /\ IsFiniteSet(QueuedIn(m)) /\ IsFiniteSet(WritingIn(m))
         /\ Cardinality(Unsent(m)) \in Nat
         /\ Cardinality(QueuedIn(m)) \in Nat
         /\ Cardinality(WritingIn(m)) \in Nat
         /\ m \in Msgs /\ refs[m] \in Int
<1>1. m \in Msgs /\ refs[m] \in Int
  BY Zenon DEF Msgs, SessionTypeOK
<1>2. Unsent(m) \subseteq Conns /\ QueuedIn(m) \subseteq Conns /\ WritingIn(m) \subseteq Conns
  BY <1>1, Zenon DEF SessionTypeOK, Unsent, QueuedIn, WritingIn
<1>3. IsFiniteSet(Unsent(m)) /\ IsFiniteSet(QueuedIn(m)) /\ IsFiniteSet(WritingIn(m))
  BY <1>2, ConnsAssumption, FS_Subset, Zenon
<1>. QED BY <1>1, <1>3, FS_CardinalityType, Zenon

(* A frame nobody's hold on which changes. *)
LEMMA CountKept ==
  ASSUME NEW m \in Casts, Counted(m), UNCHANGED config, refs'[m] = refs[m],
         Unsent(m)' = Unsent(m), QueuedIn(m)' = QueuedIn(m), WritingIn(m)' = WritingIn(m)
  PROVE  Counted(m)'
  BY Zenon DEF Counted, Holders

(* A holder gives its hold up and releases the frame. *)
LEMMA CountReleased ==
  ASSUME SessionTypeOK, NEW m \in Casts, Counted(m), UNCHANGED config, refs'[m] = refs[m] - 1, NEW s,
         \/ /\ s \in Unsent(m) /\ Unsent(m)' = Unsent(m) \ {s}
            /\ QueuedIn(m)' = QueuedIn(m) /\ WritingIn(m)' = WritingIn(m)
         \/ /\ s \in QueuedIn(m) /\ QueuedIn(m)' = QueuedIn(m) \ {s}
            /\ Unsent(m)' = Unsent(m) /\ WritingIn(m)' = WritingIn(m)
         \/ /\ s \in WritingIn(m) /\ WritingIn(m)' = WritingIn(m) \ {s}
            /\ Unsent(m)' = Unsent(m) /\ QueuedIn(m)' = QueuedIn(m)
  PROVE  Counted(m)'
<1>. DEFINE u == Cardinality(Unsent(m))
            q == Cardinality(QueuedIn(m))
            w == Cardinality(WritingIn(m))
<1>1. u \in Nat /\ q \in Nat /\ w \in Nat /\ refs[m] \in Int
  BY HolderSets, Zenon
<1>2. Holders(m) = u + q + w
  BY Zenon DEF Holders
<1>3. \/ Holders(m)' = (u - 1) + q + w
      \/ Holders(m)' = u + (q - 1) + w
      \/ Holders(m)' = u + q + (w - 1)
  BY HolderSets, OneLess, Zenon DEF Holders
<1>. HIDE DEF u, q, w
<1>. QED BY <1>1, <1>2, <1>3 DEF Counted

(* A hold passes from one to the next. *)
LEMMA CountPassed ==
  ASSUME SessionTypeOK, NEW m \in Casts, Counted(m), UNCHANGED config, refs'[m] = refs[m], NEW s,
         \/ /\ s \in Unsent(m) /\ Unsent(m)' = Unsent(m) \ {s}
            /\ s \notin QueuedIn(m) /\ QueuedIn(m)' = QueuedIn(m) \cup {s} /\ WritingIn(m)' = WritingIn(m)
         \/ /\ s \in QueuedIn(m) /\ QueuedIn(m)' = QueuedIn(m) \ {s}
            /\ s \notin WritingIn(m) /\ WritingIn(m)' = WritingIn(m) \cup {s} /\ Unsent(m)' = Unsent(m)
  PROVE  Counted(m)'
<1>. DEFINE u == Cardinality(Unsent(m))
            q == Cardinality(QueuedIn(m))
            w == Cardinality(WritingIn(m))
<1>1. u \in Nat /\ q \in Nat /\ w \in Nat /\ refs[m] \in Int
  BY HolderSets, Zenon
<1>2. Holders(m) = u + q + w
  BY Zenon DEF Holders
<1>3. \/ Holders(m)' = (u - 1) + (q + 1) + w
      \/ Holders(m)' = u + (q - 1) + (w + 1)
  BY HolderSets, OneLess, OneMore, Zenon DEF Holders
<1>. HIDE DEF u, q, w
<1>. QED BY <1>1, <1>2, <1>3 DEF Counted

(* What each kind of step does to the holders of the frames. *)
FramesOK == Apart /\ \A m \in Casts : Counted(m)

LEMMA FrameIdle ==
  ASSUME FrameInv, UNCHANGED <<config, refs, todo, writeCh, whand>>,
         \A m \in Casts : at'[m] = "idle" <=> at[m] = "idle"
  PROVE  FramesOK'
<1>1. Apart'
  BY Zenon DEF FrameInv, Apart
<1>2. ASSUME NEW m \in Casts PROVE Counted(m)'
  BY CountKept, Zenon DEF FrameInv, Unsent, QueuedIn, WritingIn
<1>. QED BY <1>1, <1>2, Zenon DEF FramesOK

LEMMA FrameMade ==
  ASSUME FrameInv, NEW m \in Casts, Broadcast(m)
  PROVE  FramesOK'
<1>0. /\ UNCHANGED <<config, todo, writeCh, whand>> /\ at[m] = "idle" /\ todo[m] = Conns /\ m \in Msgs
      /\ at'[m] # "idle" /\ refs'[m] = Cardinality(Conns)
      /\ \A n \in Casts : n # m => at'[n] = at[n] /\ refs'[n] = refs[n]
  BY Zenon DEF Broadcast, FrameInv, Posts, SessionTypeOK, loopVars, Msgs
<1>1. Apart'
  BY <1>0, Zenon DEF FrameInv, Apart
<1>2. ASSUME NEW n \in Casts, n # m PROVE Counted(n)'
  BY <1>0, <1>2, CountKept, Zenon DEF FrameInv, Unsent, QueuedIn, WritingIn
<1>3. Counted(m)'
  <2>1. Unsent(m)' = Conns /\ QueuedIn(m)' = {} /\ WritingIn(m)' = {}
    <3>1. \A s \in Conns : ~In(m, writeCh[s]) /\ whand[s] # m
      BY <1>0, Zenon DEF FrameInv, Apart
    <3>2. Unsent(m)' = Conns
      BY <1>0, Zenon DEF Unsent
    <3>3. QueuedIn(m)' = {}
      BY <1>0, <3>1, Zenon DEF QueuedIn, In
    <3>4. WritingIn(m)' = {}
      BY <1>0, <3>1, Zenon DEF WritingIn
    <3>. QED BY <3>2, <3>3, <3>4, Zenon
  <2>2. Holders(m)' = Cardinality(Conns)
    BY <2>1, ConnsAssumption, FS_EmptySet, FS_CardinalityType DEF Holders
  <2>3. Cardinality(Conns) \in Nat
    BY ConnsAssumption, FS_CardinalityType, Zenon
  <2>. QED BY <1>0, <2>2, <2>3 DEF Counted
<1>. QED BY <1>1, <1>2, <1>3, Zenon DEF FramesOK

(* The sender of m leaves s out and drops the reference. *)
LEMMA FrameLeft ==
  ASSUME FrameInv, NEW m \in Msgs, NEW s \in todo[m], at[m] # "idle",
         \A n \in Msgs : at'[n] = "idle" <=> at[n] = "idle",
         todo' = [todo EXCEPT ![m] = @ \ {s}], Release(m), UNCHANGED <<config, writeCh, whand>>
  PROVE  FramesOK'
<1>0. /\ todo'[m] = todo[m] \ {s}
      /\ \A n \in Msgs : n # m => todo'[n] = todo[n]
  BY Zenon DEF FrameInv, SessionTypeOK
<1>1. Apart'
  <2>1. \A n \in Msgs : todo'[n] \subseteq todo[n]
    BY <1>0, Zenon
  <2>. QED BY <2>1, Zenon DEF FrameInv, Apart
<1>2. \A n \in Casts : n \in Msgs /\ (n # m => refs'[n] = refs[n])
  BY Zenon DEF Release, Msgs, FrameInv, SessionTypeOK
<1>3. ASSUME NEW n \in Casts, n # m PROVE Counted(n)'
  <2>1. Unsent(n)' = Unsent(n)
    BY <1>0, <1>2, <1>3, Zenon DEF Unsent
  <2>. QED BY <1>2, <1>3, <2>1, CountKept, Zenon DEF FrameInv, QueuedIn, WritingIn
<1>4. ASSUME m \in Casts PROVE Counted(m)'
  <2>1. refs'[m] = refs[m] - 1
    BY <1>4, Zenon DEF Release, FrameInv, SessionTypeOK
  <2>2. s \in Unsent(m) /\ Unsent(m)' = Unsent(m) \ {s}
    BY <1>0, Zenon DEF Unsent
  <2>. QED BY <1>4, <2>1, <2>2, CountReleased, Zenon DEF FrameInv, QueuedIn, WritingIn
<1>. QED BY <1>1, <1>3, <1>4, Zenon DEF FramesOK

LEMMA FrameQueued ==
  ASSUME FrameInv, NEW m \in Msgs, NEW s \in todo[m], at[m] # "idle",
         \A n \in Msgs : at'[n] = "idle" <=> at[n] = "idle",
         todo' = [todo EXCEPT ![m] = @ \ {s}],
         writeCh' = [writeCh EXCEPT ![s] = Append(@, m)], UNCHANGED <<config, refs, whand>>
  PROVE  FramesOK'
<1>0. /\ todo'[m] = todo[m] \ {s} /\ s \in Conns
      /\ \A n \in Msgs : n # m => todo'[n] = todo[n]
      /\ writeCh[s] \in Seq(Msgs) /\ writeCh'[s] = Append(writeCh[s], m)
      /\ \A r \in Conns : r # s => writeCh'[r] = writeCh[r]
      /\ ~In(m, writeCh[s]) /\ whand[s] # m /\ Distinct(writeCh[s])
  BY Zenon DEF FrameInv, SessionTypeOK, Apart
<1>1. /\ \A n : In(n, writeCh'[s]) <=> In(n, writeCh[s]) \/ n = m
      /\ Distinct(writeCh'[s])
  <2>0. writeCh[s] \in Seq(Msgs)
    BY <1>0, Zenon
  <2>1. \A n : In(n, Append(writeCh[s], m)) <=> In(n, writeCh[s]) \/ n = m
    BY <2>0, InAppend, Zenon
  <2>2. Distinct(writeCh[s]) /\ ~In(m, writeCh[s]) => Distinct(Append(writeCh[s], m))
    BY <2>0, InAppend, Zenon
  <2>. QED BY <1>0, <2>1, <2>2, Zenon
<1>2. Apart'
  <2>1. \A n \in Msgs, r \in Conns : r \in todo'[n] => ~In(n, writeCh'[r]) /\ whand'[r] # n
    <3>. TAKE n \in Msgs, r \in Conns
    <3>1. CASE n = m
      BY <3>1, <1>0, Zenon DEF FrameInv, Apart
    <3>2. CASE n # m
      <4>1. r \in todo[n] => ~In(n, writeCh[r]) /\ whand[r] # n
        BY Zenon DEF FrameInv, Apart
      <4>2. In(n, writeCh'[r]) => In(n, writeCh[r])
        BY <3>2, <1>0, <1>1, Zenon
      <4>. QED BY <3>2, <1>0, <4>1, <4>2, Zenon
    <3>. QED BY <3>1, <3>2, Zenon
  <2>2. \A n \in Msgs, r \in Conns : In(n, writeCh'[r]) => whand'[r] # n
    BY <1>0, <1>1, Zenon DEF FrameInv, Apart
  <2>3. \A r \in Conns : Distinct(writeCh'[r])
    BY <1>0, <1>1, Zenon DEF FrameInv, Apart
  <2>. QED BY <2>1, <2>2, <2>3, Zenon DEF Apart
<1>3. \A n \in Casts : QueuedIn(n)' = IF n = m THEN QueuedIn(n) \cup {s} ELSE QueuedIn(n)
  <2>1. \A n \in Casts, r \in Conns : In(n, writeCh'[r]) <=> In(n, writeCh[r]) \/ (n = m /\ r = s)
    BY <1>0, <1>1, Zenon
  <2>2. \A n : /\ QueuedIn(n) = {r \in Conns : In(n, writeCh[r])}
               /\ QueuedIn(n)' = {r \in Conns : In(n, writeCh'[r])}
    BY Zenon DEF QueuedIn, In
  <2>. QED BY <1>0, <2>1, <2>2, Zenon
<1>4. ASSUME NEW n \in Casts, n # m PROVE Counted(n)'
  <2>1. Unsent(n)' = Unsent(n)
    BY <1>0, <1>4, Zenon DEF Unsent, Msgs
  <2>. QED BY <1>3, <1>4, <2>1, CountKept, Zenon DEF FrameInv, WritingIn
<1>5. ASSUME m \in Casts PROVE Counted(m)'
  <2>1. s \in Unsent(m) /\ Unsent(m)' = Unsent(m) \ {s}
    BY <1>0, Zenon DEF Unsent
  <2>2. s \notin QueuedIn(m)
    BY <1>0, Zenon DEF QueuedIn, In
  <2>. QED BY <1>3, <1>5, <2>1, <2>2, CountPassed, Zenon DEF FrameInv, WritingIn
<1>. QED BY <1>2, <1>4, <1>5, Zenon DEF FramesOK


(* The head h of a queue is received, by the write loop or by Close. *)
LEMMA FrameReceived ==
  ASSUME FrameInv, NEW s \in Conns, NEW h, h = Head(writeCh[s]), writeCh[s] # <<>>,
         writeCh' = [writeCh EXCEPT ![s] = Tail(@)]
  PROVE  /\ h \in Msgs /\ s \notin todo[h] /\ whand[s] # h /\ s \in QueuedIn(h)
         /\ \A n : \A r \in Conns : In(n, writeCh'[r]) <=> In(n, writeCh[r]) /\ ~(n = h /\ r = s)
         /\ \A r \in Conns : Distinct(writeCh'[r])
         /\ \A n : QueuedIn(n)' = IF n = h THEN QueuedIn(n) \ {s} ELSE QueuedIn(n)
<1>0. /\ writeCh[s] \in Seq(Msgs) /\ writeCh'[s] = Tail(writeCh[s])
      /\ \A r \in Conns : r # s => writeCh'[r] = writeCh[r]
      /\ Distinct(writeCh[s])
  BY Zenon DEF FrameInv, SessionTypeOK, Apart
<1>1. h \in Msgs
  BY <1>0, TailFacts, Zenon
<1>2. /\ In(h, writeCh[s]) /\ Distinct(writeCh'[s])
      /\ \A n : In(n, writeCh'[s]) <=> In(n, writeCh[s]) /\ n # h
  <2>1. /\ In(h, writeCh[s]) /\ Distinct(Tail(writeCh[s]))
        /\ \A n : In(n, Tail(writeCh[s])) <=> In(n, writeCh[s]) /\ n # h
    BY <1>0, InTail, Zenon
  <2>. QED BY <1>0, <2>1, Zenon
<1>3. s \notin todo[h] /\ whand[s] # h
  BY <1>1, <1>2, Zenon DEF FrameInv, Apart
<1>4. \A n : \A r \in Conns : In(n, writeCh'[r]) <=> In(n, writeCh[r]) /\ ~(n = h /\ r = s)
  BY <1>0, <1>2, Zenon
<1>5. \A r \in Conns : Distinct(writeCh'[r])
  BY <1>0, <1>2, Zenon DEF FrameInv, Apart
<1>6. \A n : /\ QueuedIn(n) = {r \in Conns : In(n, writeCh[r])}
             /\ QueuedIn(n)' = {r \in Conns : In(n, writeCh'[r])}
  BY Zenon DEF QueuedIn, In
<1>7. \A n : QueuedIn(n)' = IF n = h THEN QueuedIn(n) \ {s} ELSE QueuedIn(n)
  <2>1. \A n : \A r \in Conns : In(n, writeCh'[r]) <=> In(n, writeCh[r]) /\ ~(n = h /\ r = s)
    BY <1>4, Zenon
  <2>. QED BY <1>6, <2>1, <1>0, <1>2, Zenon
<1>8. s \in QueuedIn(h)
  BY <1>2, <1>6, Zenon
<1>. QED BY <1>1, <1>3, <1>4, <1>5, <1>7, <1>8, Zenon

LEMMA FrameTaken ==
  ASSUME FrameInv, NEW s \in Conns, writeCh[s] # <<>>, whand[s] = None,
         whand' = [whand EXCEPT ![s] = Head(writeCh[s])],
         writeCh' = [writeCh EXCEPT ![s] = Tail(@)], UNCHANGED <<config, refs, todo, at>>
  PROVE  FramesOK'
<1>. DEFINE h == Head(writeCh[s])
<1>1. /\ h \in Msgs /\ s \notin todo[h] /\ whand[s] # h /\ s \in QueuedIn(h)
      /\ \A n : \A r \in Conns : In(n, writeCh'[r]) <=> In(n, writeCh[r]) /\ ~(n = h /\ r = s)
      /\ \A r \in Conns : Distinct(writeCh'[r])
      /\ \A n : QueuedIn(n)' = IF n = h THEN QueuedIn(n) \ {s} ELSE QueuedIn(n)
  BY FrameReceived, Zenon
<1>2. whand'[s] = h /\ \A r \in Conns : r # s => whand'[r] = whand[r]
  BY Zenon DEF FrameInv, SessionTypeOK
<1>. HIDE DEF h
<1>3. \A n \in Msgs : n # None
  BY MsgsAssumption, Zenon
<1>4. Apart'
  <2>1. ASSUME NEW n \in Msgs, NEW r \in Conns
        PROVE  /\ r \in todo'[n] => ~In(n, writeCh'[r]) /\ whand'[r] # n
               /\ In(n, writeCh'[r]) => whand'[r] # n
    <3>1. /\ r \in todo[n] => ~In(n, writeCh[r]) /\ whand[r] # n
          /\ In(n, writeCh[r]) => whand[r] # n
      BY Zenon DEF FrameInv, Apart
    <3>2. CASE r = s
      <4>1. In(n, writeCh'[r]) => In(n, writeCh[r]) /\ n # h
        BY <1>1, <3>2, Zenon
      <4>2. r \in todo[n] => n # h
        BY <1>1, <3>2, Zenon
      <4>. QED BY <1>2, <3>1, <3>2, <4>1, <4>2, Zenon
    <3>3. CASE r # s
      BY <1>1, <1>2, <3>1, <3>3, Zenon
    <3>. QED BY <3>2, <3>3, Zenon
  <2>. QED BY <1>1, <2>1, Zenon DEF Apart
<1>5. ASSUME NEW n \in Casts PROVE Counted(n)'
  <2>0. n # None /\ n \in Msgs
    BY <1>3, Zenon DEF Msgs
  <2>1. CASE n = h
    <3>1. s \notin WritingIn(n) /\ WritingIn(n)' = WritingIn(n) \cup {s}
      BY <1>1, <1>2, <2>1, Zenon DEF WritingIn
    <3>. QED BY <1>1, <2>1, <3>1, CountPassed, Zenon DEF FrameInv, Unsent
  <2>2. CASE n # h
    <3>1. WritingIn(n)' = WritingIn(n)
      BY <1>2, <2>0, <2>2, Zenon DEF WritingIn
    <3>. QED BY <1>1, <2>2, <3>1, CountKept, Zenon DEF FrameInv, Unsent
  <2>. QED BY <2>1, <2>2, Zenon
<1>. QED BY <1>4, <1>5, Zenon DEF FramesOK

(* Close releases what it takes from the queue. *)
LEMMA FrameDropped ==
  ASSUME FrameInv, NEW s \in Conns, writeCh[s] # <<>>, Release(Head(writeCh[s])),
         writeCh' = [writeCh EXCEPT ![s] = Tail(@)], UNCHANGED <<config, whand, todo, at>>
  PROVE  FramesOK'
<1>. DEFINE h == Head(writeCh[s])
<1>1. /\ h \in Msgs /\ s \notin todo[h] /\ whand[s] # h /\ s \in QueuedIn(h)
      /\ \A n : \A r \in Conns : In(n, writeCh'[r]) <=> In(n, writeCh[r]) /\ ~(n = h /\ r = s)
      /\ \A r \in Conns : Distinct(writeCh'[r])
      /\ \A n : QueuedIn(n)' = IF n = h THEN QueuedIn(n) \ {s} ELSE QueuedIn(n)
  BY FrameReceived, Zenon
<1>2. Release(h)
  BY Zenon
<1>. HIDE DEF h
<1>3. \A n \in Casts : refs'[n] = IF n = h THEN refs[n] - 1 ELSE refs[n]
  BY <1>2, Zenon DEF Release, FrameInv, SessionTypeOK
<1>4. Apart'
  BY <1>1, Zenon DEF FrameInv, Apart
<1>5. ASSUME NEW n \in Casts PROVE Counted(n)'
  <2>1. CASE n = h
    BY <1>1, <1>3, <2>1, CountReleased, Zenon DEF FrameInv, Unsent, WritingIn
  <2>2. CASE n # h
    BY <1>1, <1>3, <2>2, CountKept, Zenon DEF FrameInv, Unsent, WritingIn
  <2>. QED BY <2>1, <2>2, Zenon
<1>. QED BY <1>4, <1>5, Zenon DEF FramesOK

(* The write loop is done with its entry, and releases it unless the write   *)
(* deadline could not be set.                                                *)
LEMMA FrameWritten ==
  ASSUME FrameInv, NEW s \in Conns, whand[s] # None, whand' = [whand EXCEPT ![s] = None],
         Release(whand[s]) \/ (config.timeout /\ UNCHANGED refs),
         UNCHANGED <<config, writeCh, todo, at>>
  PROVE  FramesOK'
<1>. DEFINE h == whand[s]
<1>1. h \in Msgs /\ h # None /\ s \in WritingIn(h)
  BY Zenon DEF FrameInv, SessionTypeOK, WritingIn
<1>2. whand'[s] = None /\ \A r \in Conns : r # s => whand'[r] = whand[r]
  BY Zenon DEF FrameInv, SessionTypeOK
<1>3. \A n \in Msgs : n # None
  BY MsgsAssumption, Zenon
<1>4. \/ \A n \in Casts : refs'[n] = IF n = h THEN refs[n] - 1 ELSE refs[n]
      \/ config.timeout /\ UNCHANGED refs
  BY Zenon DEF Release, FrameInv, SessionTypeOK
<1>5. \A n \in Casts : WritingIn(n)' = IF n = h THEN WritingIn(n) \ {s} ELSE WritingIn(n)
  <2>. SUFFICES ASSUME NEW n \in Casts PROVE WritingIn(n)' = IF n = h THEN WritingIn(n) \ {s} ELSE WritingIn(n)
    BY Zenon
  <2>1. n # None
    BY <1>3, Zenon DEF Msgs
  <2>. QED BY <1>2, <2>1, Zenon DEF WritingIn
<1>. HIDE DEF h
<1>6. Apart'
  BY <1>2, <1>3, Zenon DEF FrameInv, Apart
<1>7. ASSUME NEW n \in Casts PROVE Counted(n)'
  <2>1. CASE n # h
    BY <1>4, <1>5, <2>1, CountKept, Zenon DEF FrameInv, Unsent, QueuedIn
  <2>2. CASE n = h /\ refs'[n] = refs[n] - 1
    BY <1>1, <1>5, <2>2, CountReleased, Zenon DEF FrameInv, Unsent, QueuedIn
  <2>3. CASE n = h /\ config.timeout /\ UNCHANGED refs
    <3>1. /\ IsFiniteSet(WritingIn(n)) /\ Cardinality(WritingIn(n)) \in Nat
          /\ Cardinality(Unsent(n)) \in Nat /\ Cardinality(QueuedIn(n)) \in Nat /\ refs[n] \in Int
      BY HolderSets, Zenon DEF FrameInv
    <3>2. Cardinality(WritingIn(n)') = Cardinality(WritingIn(n)) - 1
      BY <1>1, <1>5, <2>3, <3>1, OneLess, Zenon
    <3>3. Unsent(n)' = Unsent(n) /\ QueuedIn(n)' = QueuedIn(n)
      BY Zenon DEF Unsent, QueuedIn
    <3>4. refs[n] >= Holders(n) /\ config' = config
      BY Zenon DEF FrameInv, Counted
    <3>. QED BY <2>3, <3>1, <3>2, <3>3, <3>4 DEF Counted, Holders
  <2>. QED BY <1>4, <2>1, <2>2, <2>3, Zenon
<1>. QED BY <1>6, <1>7, Zenon DEF FramesOK

(* Types, and where everybody is, one lemma per goroutine. *)
LEMMA ReleaseTypes ==
  ASSUME NEW m, refs \in [Casts -> Int], Release(m)
  PROVE  refs' \in [Casts -> Int]
  BY DEF Release

LEMMA SenderPosts ==
  ASSUME SessionTypeOK, Posts, NEW m \in Msgs, SendStep(m)
  PROVE  SessionTypeOK' /\ Posts'
<1>. USE DEF SendStates
<1>0. Casts \subseteq Msgs
  BY Zenon DEF Msgs
<1>1. CASE Broadcast(m)
  <2>1. refs' \in [Casts -> Int]
    BY <1>1, ConnsAssumption, FS_CardinalityType DEF Broadcast, SessionTypeOK
  <2>2. SessionTypeOK'
    BY <1>1, <2>1, Zenon DEF Broadcast, SessionTypeOK, loopVars
  <2>. QED BY <1>1, <1>0, <2>2, Zenon DEF Broadcast, SessionTypeOK, Posts, loopVars
<1>2. CASE Send(m)
  <2>1. SessionTypeOK'
    BY <1>2, Zenon DEF Send, SessionTypeOK, loopVars
  <2>. QED BY <1>2, <1>0, <2>1, Zenon DEF Send, SessionTypeOK, Posts, loopVars
<1>3. ASSUME CallReturns(m), at[m] # "idle", refs' \in [Casts -> Int],
             writeCh' \in [Conns -> Seq(Msgs)], \A s \in Conns : Len(writeCh'[s]) <= WriteQueue,
             sent' \in [Conns -> Seq(Msgs)], UNCHANGED <<config, cpc, loopVars>>
      PROVE  SessionTypeOK' /\ Posts'
  <2>1. todo' \in [Msgs -> SUBSET Conns] /\ at' \in [Msgs -> SendStates] /\ to' \in [Msgs -> Conns \cup {None}]
    BY <1>3, Zenon DEF CallReturns, SessionTypeOK
  <2>2. SessionTypeOK'
    BY <1>3, <2>1, Zenon DEF SessionTypeOK, loopVars
  <2>3. at'[m] \in {"state", "done"} /\ \A n \in Msgs : n # m => at'[n] = at[n] /\ todo'[n] = todo[n] /\ to'[n] = to[n]
    BY <1>3, Zenon DEF CallReturns, SessionTypeOK
  <2>. QED BY <1>0, <1>3, <2>2, <2>3, Zenon DEF Posts, loopVars
<1>4. CASE CheckState(m)
  <2>0. PICK s \in todo[m] :
          \/ /\ to' = [to EXCEPT ![m] = s]
             /\ at' = [at EXCEPT ![m] = IF m \in Casts THEN "water" ELSE "precheck"]
             /\ UNCHANGED <<refs, todo>>
          \/ /\ Release(m)
             /\ at' = [at EXCEPT ![m] = IF todo[m] = {s} THEN "done" ELSE "state"]
             /\ todo' = [todo EXCEPT ![m] = @ \ {s}]
             /\ UNCHANGED to
    BY <1>4, Zenon DEF CheckState
  <2>1. refs' \in [Casts -> Int]
    BY <2>0, ReleaseTypes, Zenon DEF SessionTypeOK
  <2>2. s \in Conns /\ UNCHANGED <<config, cpc, writeCh, loopVars, sent>> /\ at[m] = "state"
    BY <1>4, Zenon DEF SessionTypeOK, CheckState
  <2>3. todo' \in [Msgs -> SUBSET Conns] /\ at' \in [Msgs -> SendStates] /\ to' \in [Msgs -> Conns \cup {None}]
    <3>1. to' \in [Msgs -> Conns \cup {None}]
      BY <2>0, <2>2, Zenon DEF SessionTypeOK
    <3>2. at' \in [Msgs -> SendStates]
      BY <2>0, Zenon DEF SessionTypeOK
    <3>3. todo[m] \ {s} \in SUBSET Conns
      BY Zenon DEF SessionTypeOK
    <3>4. todo' \in [Msgs -> SUBSET Conns]
      BY <2>0, <3>3, Zenon DEF SessionTypeOK
    <3>. QED BY <3>1, <3>2, <3>4, Zenon
  <2>4. SessionTypeOK'
    BY <2>1, <2>2, <2>3, Zenon DEF SessionTypeOK, loopVars
  <2>5. /\ at'[m] # "idle" /\ (at'[m] \in {"precheck", "water", "select"} => to'[m] \in todo'[m])
        /\ \A n \in Msgs : n # m => at'[n] = at[n] /\ todo'[n] = todo[n] /\ to'[n] = to[n]
    BY <2>0, Zenon DEF SessionTypeOK
  <2>. QED BY <1>0, <2>2, <2>4, <2>5, Zenon DEF Posts, loopVars
<1>5. CASE CheckHighWater(m)
  <2>0. UNCHANGED <<config, cpc, writeCh, loopVars, sent>> /\ at[m] \in {"precheck", "water"}
    BY <1>5, Zenon DEF CheckHighWater
  <2>1. CASE CallFails(m)
    BY <1>3, <2>0, <2>1, ReleaseTypes, Zenon DEF CallFails, SessionTypeOK
  <2>2. CASE at' = [at EXCEPT ![m] = IF @ = "precheck" THEN "water" ELSE "select"] /\ UNCHANGED <<refs, todo, to>>
    <3>1. SessionTypeOK'
      BY <2>0, <2>2, Zenon DEF SessionTypeOK, loopVars
    <3>. QED BY <1>0, <2>0, <2>2, <3>1, Zenon DEF Posts, SessionTypeOK, loopVars
  <2>. QED BY <1>5, <2>1, <2>2, Zenon DEF CheckHighWater
<1>6. CASE Enqueue(m)
  <2>0. UNCHANGED <<config, cpc, loopVars>> /\ at[m] = "select"
    BY <1>6, Zenon DEF Enqueue
  <2>1. CASE CallFails(m) /\ UNCHANGED <<writeCh, sent>>
    BY <1>3, <2>0, <2>1, ReleaseTypes, Zenon DEF CallFails, SessionTypeOK
  <2>2. CASE ~(CallFails(m) /\ UNCHANGED <<writeCh, sent>>)
    <3>. DEFINE s == to[m]
    <3>0. /\ Len(writeCh[s]) < WriteQueue /\ CallReturns(m) /\ UNCHANGED refs
          /\ writeCh' = [writeCh EXCEPT ![s] = Append(@, m)]
          /\ sent' = [sent EXCEPT ![s] = Append(@, m)]
      BY <1>6, <2>2, Zenon DEF Enqueue
    <3>1. s \in Conns
      BY <2>0, Zenon DEF Posts, SessionTypeOK
    <3>2. writeCh[s] \in Seq(Msgs) /\ sent[s] \in Seq(Msgs)
      BY <3>1, Zenon DEF SessionTypeOK
    <3>3. Append(writeCh[s], m) \in Seq(Msgs) /\ Append(sent[s], m) \in Seq(Msgs)
          /\ Len(Append(writeCh[s], m)) <= WriteQueue
      BY <3>0, <3>2, AppendFacts, QueueAssumption
    <3>4. writeCh' \in [Conns -> Seq(Msgs)] /\ sent' \in [Conns -> Seq(Msgs)]
          /\ \A r \in Conns : Len(writeCh'[r]) <= WriteQueue
      BY <3>0, <3>1, <3>3, Zenon DEF SessionTypeOK
    <3>. QED BY <1>3, <2>0, <3>0, <3>4, Zenon DEF SessionTypeOK
  <2>. QED BY <2>1, <2>2, Zenon
<1>. QED BY <1>1, <1>2, <1>4, <1>5, <1>6, Zenon DEF SendStep

(* One entry less in the queue of s. *)
LEMMA TailTypes ==
  ASSUME SessionTypeOK, NEW s \in Conns, writeCh[s] # <<>>, writeCh' = [writeCh EXCEPT ![s] = Tail(@)]
  PROVE  /\ writeCh' \in [Conns -> Seq(Msgs)] /\ \A r \in Conns : Len(writeCh'[r]) <= WriteQueue
         /\ Head(writeCh[s]) \in Msgs
<1>1. writeCh[s] \in Seq(Msgs) /\ Len(writeCh[s]) <= WriteQueue
  BY Zenon DEF SessionTypeOK
<1>2. /\ Tail(writeCh[s]) \in Seq(Msgs) /\ Len(Tail(writeCh[s])) <= WriteQueue
      /\ Head(writeCh[s]) \in Msgs
  BY <1>1, TailFacts, QueueAssumption
<1>. QED BY <1>2, Zenon DEF SessionTypeOK

LEMMA ClosePosts ==
  ASSUME SessionTypeOK, Posts, NEW s \in Conns, CloseBegin(s) \/ CloseStep(s)
  PROVE  SessionTypeOK' /\ Posts'
<1>. USE DEF CloseStates
<1>1. CASE CloseBegin(s) \/ CloseCancel(s) \/ CloseConn(s)
  <2>1. SessionTypeOK'
    BY <1>1, Zenon DEF CloseBegin, CloseCancel, CloseConn, SessionTypeOK, sendVars, loopVars
  <2>. QED BY <1>1, <2>1, Zenon DEF CloseBegin, CloseCancel, CloseConn, Posts, sendVars, loopVars
<1>2. CASE ReleaseQueuedFrames(s)
  <2>1. UNCHANGED <<config, sendVars, loopVars, sent>>
    BY <1>2, Zenon DEF ReleaseQueuedFrames
  <2>2. cpc' \in [Conns -> CloseStates] /\ refs' \in [Casts -> Int]
    BY <1>2, ReleaseTypes, Zenon DEF ReleaseQueuedFrames, SessionTypeOK
  <2>3. writeCh' \in [Conns -> Seq(Msgs)] /\ \A r \in Conns : Len(writeCh'[r]) <= WriteQueue
    BY <1>2, TailTypes, Zenon DEF ReleaseQueuedFrames, SessionTypeOK
  <2>4. SessionTypeOK'
    BY <2>1, <2>2, <2>3, Zenon DEF SessionTypeOK, sendVars, loopVars
  <2>. QED BY <2>1, <2>4, Zenon DEF Posts, sendVars, loopVars
<1>. QED BY <1>1, <1>2, Zenon DEF CloseStep

(* A step of the write loop of s, which then holds h and is at c. *)
LEMMA LoopMoves ==
  ASSUME SessionTypeOK, Posts, NEW s \in Conns, UNCHANGED <<config, sendVars, cpc, sent>>,
         NEW h \in Msgs \cup {None}, NEW c \in LoopStates, h # None <=> c \in {"deadline", "write"},
         wpc' = [wpc EXCEPT ![s] = c], whand' = [whand EXCEPT ![s] = h],
         refs' \in [Casts -> Int], wire' \in [Conns -> Seq(Msgs)], wbuf' \in [Conns -> Seq(Msgs)],
         writeCh' \in [Conns -> Seq(Msgs)], \A r \in Conns : Len(writeCh'[r]) <= WriteQueue
  PROVE  SessionTypeOK' /\ Posts'
<1>1. wpc' \in [Conns -> LoopStates] /\ whand' \in [Conns -> Msgs \cup {None}]
  BY Zenon DEF SessionTypeOK
<1>2. SessionTypeOK'
  BY <1>1, Zenon DEF SessionTypeOK, sendVars
<1>3. /\ wpc'[s] = c /\ whand'[s] = h
      /\ \A r \in Conns : r # s => wpc'[r] = wpc[r] /\ whand'[r] = whand[r]
  BY Zenon DEF SessionTypeOK
<1>4. \A r \in Conns : whand'[r] # None <=> wpc'[r] \in {"deadline", "write"}
  BY <1>3, Zenon DEF Posts
<1>. QED BY <1>2, <1>4, Zenon DEF Posts, sendVars

LEMMA LoopPosts ==
  ASSUME SessionTypeOK, Posts, NEW s \in Conns, WriteLoop(s)
  PROVE  SessionTypeOK' /\ Posts'
<1>0. /\ None \notin Msgs /\ (whand[s] # None <=> wpc[s] \in {"deadline", "write"})
      /\ whand[s] \in Msgs \cup {None} /\ whand = [whand EXCEPT ![s] = whand[s]]
      /\ refs \in [Casts -> Int] /\ wire \in [Conns -> Seq(Msgs)] /\ wbuf \in [Conns -> Seq(Msgs)]
      /\ writeCh \in [Conns -> Seq(Msgs)] /\ \A r \in Conns : Len(writeCh[r]) <= WriteQueue
      /\ wire[s] \in Seq(Msgs) /\ wbuf[s] \in Seq(Msgs)
  BY MsgsAssumption, Zenon DEF Posts, SessionTypeOK
<1>1. CASE LoopTakes(s) \/ BatchReceive(s)
  <2>1. /\ writeCh' \in [Conns -> Seq(Msgs)] /\ \A r \in Conns : Len(writeCh'[r]) <= WriteQueue
        /\ Head(writeCh[s]) \in Msgs
    BY <1>1, TailTypes, Zenon DEF LoopTakes, BatchReceive
  <2>2. PICK c \in {"deadline", "write"} : wpc' = [wpc EXCEPT ![s] = c]
    BY <1>1, Zenon DEF LoopTakes, BatchReceive
  <2>3. /\ whand' = [whand EXCEPT ![s] = Head(writeCh[s])] /\ Head(writeCh[s]) \in Msgs \cup {None}
        /\ Head(writeCh[s]) # None /\ UNCHANGED <<config, refs, sendVars, cpc, wbuf, sent, wire>> /\ c \in LoopStates
    BY <1>0, <1>1, <2>1, Zenon DEF LoopTakes, BatchReceive, LoopStates
  <2>. QED BY <1>0, <2>1, <2>2, <2>3, LoopMoves, Zenon
<1>2. CASE LoopSeesDone(s) \/ BatchMore(s) \/ LoopGone(s)
  <2>1. PICK c \in {"exit", "recv", "flush", "gone"} : wpc' = [wpc EXCEPT ![s] = c]
    BY <1>2, Zenon DEF LoopSeesDone, BatchMore, LoopGone
  <2>2. /\ UNCHANGED <<config, refs, sendVars, cpc, writeCh, whand, wbuf, sent, wire>>
        /\ whand[s] = None /\ c \in LoopStates /\ c \notin {"deadline", "write"}
    BY <1>0, <1>2, Zenon DEF LoopSeesDone, BatchMore, LoopGone, LoopStates
  <2>. QED BY <1>0, <2>1, <2>2, LoopMoves, Zenon
<1>3. CASE SetWriteDeadline(s)
  <2>1. UNCHANGED <<config, refs, sendVars, cpc, writeCh, wbuf, sent, wire>> /\ whand[s] # None
    BY <1>0, <1>3, Zenon DEF SetWriteDeadline
  <2>2. CASE wpc' = [wpc EXCEPT ![s] = "exit"] /\ whand' = [whand EXCEPT ![s] = None]
    BY <1>0, <2>1, <2>2, LoopMoves, Zenon DEF LoopStates
  <2>3. CASE wpc' = [wpc EXCEPT ![s] = "write"] /\ UNCHANGED whand
    BY <1>0, <2>1, <2>3, LoopMoves, Zenon DEF LoopStates
  <2>. QED BY <1>3, <2>2, <2>3, Zenon DEF SetWriteDeadline
<1>4. CASE WriteOne(s)
  <2>0. /\ UNCHANGED <<config, sendVars, cpc, writeCh, sent>> /\ Release(whand[s])
        /\ whand' = [whand EXCEPT ![s] = None] /\ whand[s] \in Msgs
    BY <1>4, <1>0, Zenon DEF WriteOne
  <2>1. PICK c \in {"select", "more", "exit"} : wpc' = [wpc EXCEPT ![s] = c]
    BY <1>4, Zenon DEF WriteOne
  <2>2. /\ Append(wire[s], whand[s]) \in Seq(Msgs) /\ Append(wbuf[s], whand[s]) \in Seq(Msgs)
        /\ wire[s] \o wbuf[s] \in Seq(Msgs) /\ <<whand[s]>> \in Seq(Msgs)
    BY <1>0, <2>0
  <2>3. \/ wire' = wire
        \/ wire' = [wire EXCEPT ![s] = Append(wire[s], whand[s])]
        \/ wire' = [wire EXCEPT ![s] = wire[s] \o wbuf[s]]
    BY <1>4, Zenon DEF WriteOne
  <2>4. \/ wbuf' = wbuf
        \/ wbuf' = [wbuf EXCEPT ![s] = Append(wbuf[s], whand[s])]
        \/ wbuf' = [wbuf EXCEPT ![s] = <<whand[s]>>]
    BY <1>4, Zenon DEF WriteOne
  <2>5. wire' \in [Conns -> Seq(Msgs)]
    BY <1>0, <2>2, <2>3, Zenon
  <2>6. wbuf' \in [Conns -> Seq(Msgs)]
    BY <1>0, <2>2, <2>4, Zenon
  <2>7. refs' \in [Casts -> Int] /\ c \in LoopStates /\ c \notin {"deadline", "write"}
    BY <1>0, <2>0, ReleaseTypes, Zenon DEF LoopStates
  <2>. QED BY <1>0, <2>0, <2>1, <2>5, <2>6, <2>7, LoopMoves, Zenon
<1>5. CASE Flush(s)
  <2>0. UNCHANGED <<config, refs, sendVars, cpc, writeCh, whand, sent>> /\ whand[s] = None
    BY <1>0, <1>5, Zenon DEF Flush
  <2>1. wire[s] \o wbuf[s] \in Seq(Msgs) /\ <<>> \in Seq(Msgs)
    BY <1>0
  <2>2. PICK c \in {"select", "exit"} : wpc' = [wpc EXCEPT ![s] = c]
    BY <1>5, Zenon DEF Flush
  <2>3. c \in LoopStates /\ c \notin {"deadline", "write"}
    BY Zenon DEF LoopStates
  <2>4. wire' \in [Conns -> Seq(Msgs)] /\ wbuf' \in [Conns -> Seq(Msgs)]
    BY <1>0, <1>5, <2>1, Zenon DEF Flush
  <2>. QED BY <1>0, <2>0, <2>2, <2>3, <2>4, LoopMoves, Zenon
<1>6. CASE LoopCloses(s)
  BY <1>6, ClosePosts, Zenon DEF LoopCloses
<1>. QED BY <1>1, <1>2, <1>3, <1>4, <1>5, <1>6, Zenon DEF WriteLoop

(* The invariant is kept by every step. *)
LEMMA FrameStep == FrameInv /\ [SessionNext]_sessionVars => FrameInv'
<1>. SUFFICES ASSUME FrameInv, [SessionNext]_sessionVars PROVE FrameInv'
  BY Zenon
<1>0. SessionTypeOK /\ Posts
  BY Zenon DEF FrameInv
<1>1. ASSUME NEW m \in Msgs, SendStep(m) PROVE FramesOK'
  <2>0. todo \in [Msgs -> SUBSET Conns] /\ at \in [Msgs -> SendStates] /\ Casts \subseteq Msgs
    BY <1>0, Zenon DEF SessionTypeOK, Msgs
  <2>1. CASE Broadcast(m)
    BY <2>1, FrameMade, Zenon DEF Broadcast
  <2>2. CASE Send(m)
    <3>1. \A n \in Casts : at'[n] = at[n]
      BY <2>0, <2>2, MsgsAssumption, Zenon DEF Send
    <3>. QED BY <2>2, <3>1, FrameIdle, Zenon DEF Send, loopVars
  <2>3. CASE CheckState(m)
    <3>0. PICK s \in todo[m] :
            \/ /\ to' = [to EXCEPT ![m] = s]
               /\ at' = [at EXCEPT ![m] = IF m \in Casts THEN "water" ELSE "precheck"]
               /\ UNCHANGED <<refs, todo>>
            \/ /\ Release(m)
               /\ at' = [at EXCEPT ![m] = IF todo[m] = {s} THEN "done" ELSE "state"]
               /\ todo' = [todo EXCEPT ![m] = @ \ {s}]
               /\ UNCHANGED to
      BY <2>3, Zenon DEF CheckState
    <3>1. UNCHANGED <<config, writeCh, whand>> /\ at[m] # "idle"
      BY <2>3, Zenon DEF CheckState, loopVars
    <3>2. \A n \in Msgs : at'[n] = "idle" <=> at[n] = "idle"
      BY <2>0, <3>0, <3>1, Zenon
    <3>. QED BY <2>0, <3>0, <3>1, <3>2, FrameIdle, FrameLeft, Zenon
  <2>4. ASSUME CallReturns(m), at[m] \in {"precheck", "water", "select"}
        PROVE  /\ to[m] \in todo[m] /\ at[m] # "idle"
               /\ todo' = [todo EXCEPT ![m] = @ \ {to[m]}]
               /\ \A n \in Msgs : at'[n] = "idle" <=> at[n] = "idle"
    BY <1>0, <2>0, <2>4, Zenon DEF CallReturns, Posts
  <2>5. CASE CheckHighWater(m)
    <3>1. UNCHANGED <<config, writeCh, whand>> /\ at[m] \in {"precheck", "water"}
      BY <2>5, Zenon DEF CheckHighWater, loopVars
    <3>2. CASE CallFails(m)
      BY <2>4, <3>1, <3>2, FrameLeft, Zenon DEF CallFails
    <3>3. CASE at' = [at EXCEPT ![m] = IF @ = "precheck" THEN "water" ELSE "select"] /\ UNCHANGED <<refs, todo, to>>
      <4>1. \A n \in Msgs : at'[n] = "idle" <=> at[n] = "idle"
        BY <2>0, <3>1, <3>3, Zenon
      <4>. QED BY <2>0, <3>1, <3>3, <4>1, FrameIdle, Zenon
    <3>. QED BY <2>5, <3>2, <3>3, Zenon DEF CheckHighWater
  <2>6. CASE Enqueue(m)
    <3>1. UNCHANGED <<config, whand>> /\ at[m] = "select"
      BY <2>6, Zenon DEF Enqueue, loopVars
    <3>2. CASE CallFails(m) /\ UNCHANGED <<writeCh, sent>>
      BY <2>4, <3>1, <3>2, FrameLeft, Zenon DEF CallFails
    <3>3. CASE ~(CallFails(m) /\ UNCHANGED <<writeCh, sent>>)
      <4>1. CallReturns(m) /\ UNCHANGED refs /\ writeCh' = [writeCh EXCEPT ![to[m]] = Append(@, m)]
        BY <2>6, <3>3, Zenon DEF Enqueue
      <4>. QED BY <2>4, <3>1, <4>1, FrameQueued, Zenon
    <3>. QED BY <3>2, <3>3, Zenon
  <2>. QED BY <1>1, <2>1, <2>2, <2>3, <2>5, <2>6, Zenon DEF SendStep
<1>2. ASSUME NEW s \in Conns, CloseBegin(s) \/ CloseStep(s) PROVE FramesOK'
  <2>1. CASE CloseBegin(s) \/ CloseCancel(s) \/ CloseConn(s)
    BY <2>1, FrameIdle, Zenon DEF CloseBegin, CloseCancel, CloseConn, sendVars, loopVars
  <2>2. CASE ReleaseQueuedFrames(s)
    BY <2>2, FrameIdle, FrameDropped, Zenon DEF ReleaseQueuedFrames, sendVars, loopVars
  <2>. QED BY <1>2, <2>1, <2>2, Zenon DEF CloseStep
<1>3. ASSUME NEW s \in Conns, WriteLoop(s) PROVE FramesOK'
  <2>0. whand[s] # None <=> wpc[s] \in {"deadline", "write"}
    BY <1>0, Zenon DEF Posts
  <2>1. CASE LoopTakes(s) \/ BatchReceive(s)
    BY <2>0, <2>1, FrameTaken, Zenon DEF LoopTakes, BatchReceive, sendVars
  <2>2. CASE LoopSeesDone(s) \/ BatchMore(s) \/ LoopGone(s) \/ Flush(s)
    BY <2>2, FrameIdle, Zenon DEF LoopSeesDone, BatchMore, LoopGone, Flush, sendVars
  <2>3. CASE SetWriteDeadline(s)
    BY <2>0, <2>3, FrameIdle, FrameWritten, Zenon DEF SetWriteDeadline, sendVars
  <2>4. CASE WriteOne(s)
    BY <2>0, <2>4, FrameWritten, Zenon DEF WriteOne, sendVars
  <2>5. CASE LoopCloses(s)
    BY <1>2, <2>5, Zenon DEF LoopCloses
  <2>. QED BY <1>3, <2>1, <2>2, <2>3, <2>4, <2>5, Zenon DEF WriteLoop
<1>4. CASE UNCHANGED sessionVars
  <2>1. FramesOK'
    BY <1>4, FrameIdle, Zenon DEF sessionVars, sendVars, loopVars
  <2>2. SessionTypeOK' /\ Posts'
    BY <1>0, <1>4, Zenon DEF SessionTypeOK, Posts, sessionVars, sendVars, loopVars
  <2>. QED BY <2>1, <2>2, Zenon DEF FrameInv, FramesOK
<1>. QED
  BY <1>0, <1>1, <1>2, <1>3, <1>4, SenderPosts, ClosePosts, LoopPosts, Zenon
     DEF SessionNext, SessionsOver, FrameInv, FramesOK

(* Initially no frame has been made. *)
LEMMA FrameStarts == SessionInit => FrameInv
<1>. SUFFICES ASSUME SessionInit PROVE FrameInv
  BY Zenon
<1>1. \A m \in Unicasts : Target[m] \in Conns
  BY TargetAssumption, Zenon
<1>2. SessionTypeOK
  BY <1>1, QueueAssumption DEF SessionInit, SessionTypeOK, Msgs, SendStates, CloseStates, LoopStates
<1>3. \A s \in Conns : writeCh[s] = <<>> /\ Len(writeCh[s]) = 0 /\ whand[s] = None
  BY DEF SessionInit
<1>4. \A s \in Conns : \A m : ~In(m, writeCh[s])
  BY <1>3 DEF In
<1>5. Apart
  BY <1>3, <1>4, MsgsAssumption DEF Apart, Distinct
<1>6. Posts
  BY Zenon DEF SessionInit, Posts, Msgs
<1>7. ASSUME NEW m \in Casts PROVE Counted(m)
  <2>1. m \in Msgs /\ m # None
    BY MsgsAssumption, Zenon DEF Msgs
  <2>2. Unsent(m) = {} /\ QueuedIn(m) = {} /\ WritingIn(m) = {}
    BY <1>3, <1>4, <2>1, Zenon DEF SessionInit, Unsent, QueuedIn, WritingIn, In
  <2>3. refs[m] = 0
    BY Zenon DEF SessionInit
  <2>. QED BY <2>2, <2>3, FS_EmptySet DEF Counted, Holders
<1>. QED BY <1>2, <1>5, <1>6, <1>7, Zenon DEF FrameInv

(* For any number of sessions, broadcasts and sends, whatever Close does     *)
(* beside them: the count of a shared frame covers everybody who may still   *)
(* write it, and without a write timeout it is the number of them, so the    *)
(* frame's buffer is neither recycled early nor kept.                        *)
THEOREM FramesCountedAlways == SessionSpec => []FramesCounted
<1>1. FrameInv => FramesCounted
  BY Zenon DEF FrameInv, Counted, FramesCounted, NeverReleasedEarly, RefsExact
<1>. QED BY <1>1, FrameStarts, FrameStep, PTL DEF SessionSpec

-----------------------------------------------------------------------------
(* The order of a session's messages.  What enqueue accepted, z, says which  *)
(* of two messages comes first; wire w, buffer b, the entry h in the write   *)
(* loop's hand and queue q stand in line.                                    *)
Before(z, x, y) == \E k, l \in 1..Len(z) : k < l /\ z[k] = x /\ z[l] = y
Sorted(z, q) == \A i, j \in 1..Len(q) : i < j => Before(z, q[i], q[j])
Held(x, h) == x = h /\ h # None
InLine(z, w, b, h, q) ==
  /\ Sorted(z, w) /\ Sorted(z, b) /\ Sorted(z, q)
  /\ \A x, y : In(x, w) /\ (In(y, b) \/ Held(y, h) \/ In(y, q)) => Before(z, x, y)
  /\ \A x, y : In(x, b) /\ (Held(y, h) \/ In(y, q)) => Before(z, x, y)
  /\ \A x, y : Held(x, h) /\ In(y, q) => Before(z, x, y)
  /\ \A x : In(x, w) \/ In(x, b) \/ Held(x, h) \/ In(x, q) => In(x, z)

LEMMA InShort == \A x, y : ~In(x, <<>>) /\ (In(x, <<y>>) <=> x = y)
  BY DEF In

LEMMA SortedShort == \A z, x : Sorted(z, <<>>) /\ Sorted(z, <<x>>)
  BY DEF Sorted

LEMMA SortedAppend ==
  ASSUME NEW S, NEW q \in Seq(S), NEW x \in S, NEW z, Sorted(z, q), \A y : In(y, q) => Before(z, y, x)
  PROVE  Sorted(z, Append(q, x))
<1>. DEFINE r == Append(q, x)
            n == Len(q)
<1>1. /\ n \in Nat /\ Len(r) = n + 1 /\ r[n + 1] = x
      /\ \A i \in 1..n : r[i] = q[i]
  BY AppendFacts
<1>. HIDE DEF r
<1>2. ASSUME NEW i \in 1..(n + 1), NEW j \in 1..(n + 1), i < j PROVE Before(z, r[i], r[j])
  <2>1. i \in 1..n /\ (j \in 1..n \/ j = n + 1)
    BY <1>1, <1>2
  <2>2. CASE j \in 1..n
    BY <1>1, <1>2, <2>1, <2>2, Zenon DEF Sorted
  <2>3. CASE j = n + 1
    BY <1>1, <2>1, <2>3, Zenon DEF In
  <2>. QED BY <2>1, <2>2, <2>3, Zenon
<1>. QED BY <1>1, <1>2, Zenon DEF Sorted, r

LEMMA SortedTail ==
  ASSUME NEW S, NEW q \in Seq(S), q # <<>>, NEW z, Sorted(z, q)
  PROVE  /\ Sorted(z, Tail(q)) /\ In(Head(q), q)
         /\ \A y : In(y, Tail(q)) => In(y, q) /\ Before(z, Head(q), y)
<1>. DEFINE r == Tail(q)
            n == Len(q)
<1>1. /\ n \in Nat \ {0} /\ Len(r) = n - 1 /\ Head(q) = q[1]
      /\ \A i \in 1..(n - 1) : r[i] = q[i + 1]
  BY TailFacts
<1>. HIDE DEF r
<1>2. ASSUME NEW i \in 1..(n - 1), NEW j \in 1..(n - 1), i < j PROVE Before(z, r[i], r[j])
  <2>1. i + 1 \in 1..n /\ j + 1 \in 1..n /\ i + 1 < j + 1
    BY <1>1, <1>2
  <2>2. Before(z, q[i + 1], q[j + 1])
    BY <2>1, Zenon DEF Sorted
  <2>. QED BY <1>1, <2>2, Zenon
<1>3. Sorted(z, r)
  BY <1>1, <1>2, Zenon DEF Sorted
<1>4. In(Head(q), q)
  BY <1>1 DEF In
<1>5. ASSUME NEW y, In(y, r) PROVE In(y, q) /\ Before(z, Head(q), y)
  <2>1. PICK i \in 1..(n - 1) : r[i] = y
    BY <1>1, <1>5, Zenon DEF In
  <2>2. i + 1 \in 1..n /\ 1 \in 1..n /\ 1 < i + 1 /\ q[i + 1] = y
    BY <1>1, <2>1
  <2>. QED BY <1>1, <2>2, Zenon DEF In, Sorted
<1>. QED BY <1>3, <1>4, <1>5, Zenon DEF r

LEMMA SortedConcat ==
  ASSUME NEW S, NEW p \in Seq(S), NEW q \in Seq(S)
  PROVE  /\ \A y : In(y, p \o q) <=> In(y, p) \/ In(y, q)
         /\ \A z : Sorted(z, p) /\ Sorted(z, q) /\ (\A x, y : In(x, p) /\ In(y, q) => Before(z, x, y))
                     => Sorted(z, p \o q)
<1>. DEFINE r == p \o q
            n == Len(p)
            k == Len(q)
<1>1. /\ n \in Nat /\ k \in Nat /\ Len(r) = n + k
      /\ \A i \in 1..n : r[i] = p[i]
      /\ \A i \in 1..k : r[n + i] = q[i]
  OBVIOUS
<1>. HIDE DEF r
<1>2. \A i \in 1..(n + k) : i \in 1..n \/ (i - n \in 1..k /\ r[i] = q[i - n])
  <2>. TAKE i \in 1..(n + k)
  <2>1. i \in 1..n \/ (i - n \in 1..k /\ n + (i - n) = i)
    BY <1>1
  <2>. QED BY <1>1, <2>1
<1>3. ASSUME NEW y PROVE In(y, r) <=> In(y, p) \/ In(y, q)
  <2>1. In(y, r) => In(y, p) \/ In(y, q)
    BY <1>1, <1>2, Zenon DEF In
  <2>2. In(y, p) => In(y, r)
    BY <1>1 DEF In
  <2>3. In(y, q) => In(y, r)
    BY <1>1 DEF In
  <2>. QED BY <2>1, <2>2, <2>3, Zenon
<1>4. ASSUME NEW z, Sorted(z, p), Sorted(z, q), \A x, y : In(x, p) /\ In(y, q) => Before(z, x, y),
             NEW i \in 1..(n + k), NEW j \in 1..(n + k), i < j
      PROVE  Before(z, r[i], r[j])
  <2>1. CASE i \in 1..n /\ j \in 1..n
    BY <1>1, <1>4, <2>1, Zenon DEF Sorted
  <2>2. CASE i \in 1..n /\ j \notin 1..n
    <3>1. j - n \in 1..k /\ r[j] = q[j - n] /\ r[i] = p[i]
      BY <1>1, <1>2, <2>2, Zenon
    <3>. QED BY <1>4, <2>2, <3>1, Zenon DEF In
  <2>3. CASE i \notin 1..n
    <3>1. j \notin 1..n /\ i - n < j - n
      BY <1>1, <1>4, <2>3
    <3>2. i - n \in 1..k /\ r[i] = q[i - n] /\ j - n \in 1..k /\ r[j] = q[j - n]
      BY <1>2, <2>3, <3>1, Zenon
    <3>. QED BY <1>4, <3>1, <3>2, Zenon DEF Sorted
  <2>. QED BY <2>1, <2>2, <2>3, Zenon
<1>5. ASSUME NEW z, Sorted(z, p), Sorted(z, q), \A x, y : In(x, p) /\ In(y, q) => Before(z, x, y)
      PROVE  Sorted(z, r)
  BY <1>1, <1>4, <1>5, Zenon DEF Sorted
<1>. QED BY <1>3, <1>5, Zenon DEF r

(* A message is accepted: it comes after all that were. *)
LEMMA LineSent ==
  ASSUME NEW z \in Seq(Msgs), NEW w, NEW b, NEW h, NEW q \in Seq(Msgs), NEW m \in Msgs,
         InLine(z, w, b, h, q)
  PROVE  InLine(Append(z, m), w, b, h, Append(q, m))
<1>. DEFINE y == Append(z, m)
            n == Len(z)
<1>1. /\ n \in Nat /\ Len(y) = n + 1 /\ y[n + 1] = m
      /\ \A i \in 1..n : y[i] = z[i] /\ i \in 1..(n + 1) /\ i < n + 1
      /\ n + 1 \in 1..(n + 1)
  BY AppendFacts
<1>2. \A x : In(x, y) <=> In(x, z) \/ x = m
  BY InAppend, Zenon
<1>3. \A x : In(x, Append(q, m)) <=> In(x, q) \/ x = m
  BY InAppend, Zenon
<1>. HIDE DEF y
<1>4. \A x, v : Before(z, x, v) => Before(y, x, v)
  BY <1>1, Zenon DEF Before
<1>5. \A x : In(x, z) => Before(y, x, m)
  <2>. SUFFICES ASSUME NEW x, In(x, z) PROVE Before(y, x, m)
    BY Zenon
  <2>1. PICK i \in 1..n : z[i] = x
    BY Zenon DEF In
  <2>2. i \in 1..Len(y) /\ n + 1 \in 1..Len(y) /\ i < n + 1 /\ y[i] = x /\ y[n + 1] = m
    BY <1>1, <2>1, Zenon
  <2>. QED BY <2>2, Zenon DEF Before
<1>6. Sorted(y, w) /\ Sorted(y, b) /\ Sorted(y, q)
  BY <1>4, Zenon DEF InLine, Sorted
<1>7. Sorted(y, Append(q, m))
  BY <1>5, <1>6, SortedAppend, Zenon DEF InLine
<1>. QED BY <1>2, <1>3, <1>4, <1>5, <1>6, <1>7, Zenon DEF InLine, y

(* The line moves on: the queue's head into the write loop's hand, or out. *)
LEMMA LineMoves ==
  ASSUME NEW z, NEW w, NEW b, NEW h, NEW q \in Seq(Msgs), InLine(z, w, b, h, q)
  PROVE  /\ InLine(z, w, b, None, q)
         /\ q # <<>> => InLine(z, w, b, h, Tail(q))
         /\ q # <<>> /\ h = None => InLine(z, w, b, Head(q), Tail(q))
<1>1. InLine(z, w, b, None, q)
  BY Zenon DEF InLine, Held
<1>2. ASSUME q # <<>> PROVE InLine(z, w, b, h, Tail(q)) /\ (h = None => InLine(z, w, b, Head(q), Tail(q)))
  <2>1. /\ Sorted(z, Tail(q)) /\ In(Head(q), q)
        /\ \A y : In(y, Tail(q)) => In(y, q) /\ Before(z, Head(q), y)
    BY <1>2, SortedTail, Zenon DEF InLine
  <2>2. InLine(z, w, b, h, Tail(q))
    BY <2>1, Zenon DEF InLine
  <2>3. h = None => InLine(z, w, b, Head(q), Tail(q))
    BY <2>1, Zenon DEF InLine, Held
  <2>. QED BY <2>2, <2>3, Zenon
<1>. QED BY <1>1, <1>2, Zenon

(* The hand's entry is written: to the wire when there is no buffer, into    *)
(* the buffer, or into a buffer flushed for it.                              *)
LEMMA LineWritten ==
  ASSUME NEW z, NEW w \in Seq(Msgs), NEW b \in Seq(Msgs), NEW h \in Msgs, NEW q, InLine(z, w, b, h, q)
  PROVE  /\ b = <<>> => InLine(z, Append(w, h), b, None, q)
         /\ InLine(z, w, Append(b, h), None, q)
         /\ InLine(z, w \o b, <<h>>, None, q)
<1>0. h # None /\ Held(h, h)
  BY MsgsAssumption, Zenon DEF Held
<1>1. b = <<>> => InLine(z, Append(w, h), b, None, q)
  <2>1. Sorted(z, Append(w, h))
    BY <1>0, SortedAppend, Zenon DEF InLine
  <2>2. \A y : In(y, Append(w, h)) <=> In(y, w) \/ y = h
    BY InAppend, Zenon
  <2>3. \A y : ~In(y, <<>>)
    BY InShort, Zenon
  <2>4. \A x, y : In(x, Append(w, h)) /\ In(y, q) => Before(z, x, y)
    BY <1>0, <2>2, Zenon DEF InLine
  <2>5. \A x : In(x, Append(w, h)) => In(x, z)
    BY <1>0, <2>2, Zenon DEF InLine
  <2>. QED BY <2>1, <2>3, <2>4, <2>5, Zenon DEF InLine, Held
<1>2. InLine(z, w, Append(b, h), None, q)
  <2>1. Sorted(z, Append(b, h))
    BY <1>0, SortedAppend, Zenon DEF InLine
  <2>2. \A y : In(y, Append(b, h)) <=> In(y, b) \/ y = h
    BY InAppend, Zenon
  <2>. QED BY <1>0, <2>1, <2>2, Zenon DEF InLine, Held
<1>3. InLine(z, w \o b, <<h>>, None, q)
  <2>1. Sorted(z, w \o b) /\ Sorted(z, <<h>>)
    BY SortedConcat, SortedShort, Zenon DEF InLine
  <2>2. \A y : (In(y, w \o b) <=> In(y, w) \/ In(y, b)) /\ (In(y, <<h>>) <=> y = h)
    BY SortedConcat, InShort, Zenon
  <2>. QED BY <1>0, <2>1, <2>2, Zenon DEF InLine, Held
<1>. QED BY <1>1, <1>2, <1>3, Zenon

LEMMA LineFlushed ==
  ASSUME NEW z, NEW w \in Seq(Msgs), NEW b \in Seq(Msgs), NEW h, NEW q, InLine(z, w, b, h, q)
  PROVE  InLine(z, w \o b, <<>>, h, q)
<1>1. Sorted(z, w \o b) /\ Sorted(z, <<>>)
  BY SortedConcat, SortedShort, Zenon DEF InLine
<1>2. \A y : (In(y, w \o b) <=> In(y, w) \/ In(y, b)) /\ ~In(y, <<>>)
  BY SortedConcat, InShort, Zenon
<1>. QED BY <1>1, <1>2, Zenon DEF InLine

Line(s) == InLine(sent[s], wire[s], wbuf[s], whand[s], writeCh[s])
OrderInv == \A s \in Conns : Line(s) /\ (~config.buffer => wbuf[s] = <<>>)

LEMMA OrderStarts == SessionInit => OrderInv
<1>. SUFFICES ASSUME SessionInit, NEW s \in Conns PROVE Line(s) /\ wbuf[s] = <<>>
  BY Zenon DEF OrderInv
<1>1. sent[s] = <<>> /\ wire[s] = <<>> /\ wbuf[s] = <<>> /\ whand[s] = None /\ writeCh[s] = <<>>
  BY Zenon DEF SessionInit
<1>. QED BY <1>1, InShort, SortedShort, Zenon DEF Line, InLine, Held

(* A step changes the line of one session. *)
LEMMA OrderStep == FrameInv /\ OrderInv /\ [SessionNext]_sessionVars => OrderInv'
<1>. SUFFICES ASSUME FrameInv, OrderInv, [SessionNext]_sessionVars PROVE OrderInv'
  BY Zenon
<1>0. /\ sent \in [Conns -> Seq(Msgs)] /\ wire \in [Conns -> Seq(Msgs)] /\ wbuf \in [Conns -> Seq(Msgs)]
      /\ whand \in [Conns -> Msgs \cup {None}] /\ writeCh \in [Conns -> Seq(Msgs)]
      /\ \A s \in Conns : whand[s] # None <=> wpc[s] \in {"deadline", "write"}
  BY Zenon DEF FrameInv, SessionTypeOK, Posts
<1>1. ASSUME UNCHANGED <<config, sent, wire, wbuf, whand, writeCh>> PROVE OrderInv'
  BY <1>1, Zenon DEF OrderInv, Line
<1>2. ASSUME NEW s \in Conns, UNCHANGED config,
             \A r \in Conns : r # s => /\ sent'[r] = sent[r] /\ wire'[r] = wire[r] /\ wbuf'[r] = wbuf[r]
                                       /\ whand'[r] = whand[r] /\ writeCh'[r] = writeCh[r],
             Line(s)', ~config.buffer => wbuf'[s] = <<>>
      PROVE  OrderInv'
  BY <1>2, Zenon DEF OrderInv, Line
<1>3. ASSUME NEW m \in Msgs, SendStep(m) PROVE OrderInv'
  <2>1. CASE Enqueue(m) /\ ~UNCHANGED <<writeCh, sent>>
    <3>0. to[m] \in Conns
      BY <2>1, Zenon DEF Enqueue, FrameInv, Posts, SessionTypeOK
    <3>2. PICK s \in Conns : s = to[m]
      BY <3>0, Zenon
    <3>1. /\ writeCh' = [writeCh EXCEPT ![s] = Append(@, m)] /\ sent' = [sent EXCEPT ![s] = Append(@, m)]
          /\ UNCHANGED <<config, loopVars>> /\ at[m] = "select"
      BY <2>1, <3>2, Zenon DEF Enqueue
    <3>3. writeCh'[s] = Append(writeCh[s], m) /\ sent'[s] = Append(sent[s], m)
      BY <1>0, <3>1, <3>2, Zenon
    <3>4. /\ InLine(sent[s], wire[s], wbuf[s], whand[s], writeCh[s])
          /\ sent[s] \in Seq(Msgs) /\ writeCh[s] \in Seq(Msgs)
      BY <1>0, <3>2, Zenon DEF OrderInv, Line
    <3>5. InLine(Append(sent[s], m), wire[s], wbuf[s], whand[s], Append(writeCh[s], m))
      BY <3>4, LineSent, Zenon
    <3>6. Line(s)'
      BY <3>1, <3>3, <3>5, Zenon DEF Line, loopVars
    <3>7. \A r \in Conns : r # s => sent'[r] = sent[r] /\ writeCh'[r] = writeCh[r]
      BY <1>0, <3>1, Zenon
    <3>. QED BY <1>2, <3>1, <3>2, <3>6, <3>7, Zenon DEF OrderInv, loopVars
  <2>2. CASE ~(Enqueue(m) /\ ~UNCHANGED <<writeCh, sent>>)
    <3>1. UNCHANGED <<config, sent, wire, wbuf, whand, writeCh>>
      BY <1>3, <2>2, Zenon DEF SendStep, Broadcast, Send, CheckState, CheckHighWater, Enqueue, loopVars
    <3>. QED BY <1>1, <3>1, Zenon
  <2>. QED BY <2>1, <2>2, Zenon
<1>4. ASSUME NEW s \in Conns, CloseBegin(s) \/ CloseStep(s) PROVE OrderInv'
  <2>1. CASE ReleaseQueuedFrames(s) /\ writeCh[s] # <<>>
    <3>1. writeCh' = [writeCh EXCEPT ![s] = Tail(@)] /\ UNCHANGED <<config, loopVars, sent>>
      BY <2>1, Zenon DEF ReleaseQueuedFrames
    <3>2. writeCh'[s] = Tail(writeCh[s])
      BY <1>0, <3>1, Zenon
    <3>3. Line(s)'
      BY <1>0, <2>1, <3>1, <3>2, LineMoves, Zenon DEF OrderInv, Line, loopVars
    <3>. QED BY <1>0, <1>2, <3>1, <3>3, Zenon DEF OrderInv, loopVars
  <2>2. CASE ~(ReleaseQueuedFrames(s) /\ writeCh[s] # <<>>)
    <3>1. UNCHANGED <<config, sent, wire, wbuf, whand, writeCh>>
      BY <1>4, <2>2, Zenon DEF CloseStep, CloseBegin, CloseCancel, CloseConn, ReleaseQueuedFrames, loopVars
    <3>. QED BY <1>1, <3>1, Zenon
  <2>. QED BY <2>1, <2>2, Zenon
<1>5. ASSUME NEW s \in Conns, WriteLoop(s) PROVE OrderInv'
  <2>0. Line(s) /\ (~config.buffer => wbuf[s] = <<>>)
    BY Zenon DEF OrderInv
  <2>1. CASE LoopTakes(s) \/ BatchReceive(s)
    <3>1. /\ writeCh[s] # <<>> /\ whand[s] = None
          /\ writeCh' = [writeCh EXCEPT ![s] = Tail(@)] /\ whand' = [whand EXCEPT ![s] = Head(writeCh[s])]
          /\ UNCHANGED <<config, sent, wire, wbuf>>
      BY <1>0, <2>1, Zenon DEF LoopTakes, BatchReceive
    <3>2. writeCh'[s] = Tail(writeCh[s]) /\ whand'[s] = Head(writeCh[s])
      BY <1>0, <3>1, Zenon
    <3>3. Line(s)'
      BY <1>0, <2>0, <3>1, <3>2, LineMoves, Zenon DEF Line
    <3>. QED BY <1>0, <1>2, <2>0, <3>1, <3>3, Zenon
  <2>2. CASE SetWriteDeadline(s) /\ ~UNCHANGED whand
    <3>1. whand' = [whand EXCEPT ![s] = None] /\ UNCHANGED <<config, sent, wire, wbuf, writeCh>>
      BY <2>2, Zenon DEF SetWriteDeadline
    <3>2. whand'[s] = None
      BY <1>0, <3>1, Zenon
    <3>3. Line(s)'
      BY <1>0, <2>0, <3>1, <3>2, LineMoves, Zenon DEF Line
    <3>. QED BY <1>0, <1>2, <2>0, <3>1, <3>3, Zenon
  <2>3. CASE WriteOne(s)
    <3>0. /\ whand' = [whand EXCEPT ![s] = None] /\ UNCHANGED <<config, sent, writeCh>>
          /\ whand'[s] = None /\ whand[s] \in Msgs
          /\ InLine(sent[s], wire[s], wbuf[s], whand[s], writeCh[s])
          /\ wire[s] \in Seq(Msgs) /\ wbuf[s] \in Seq(Msgs) /\ writeCh[s] \in Seq(Msgs)
      BY <1>0, <2>0, <2>3, Zenon DEF WriteOne, Line
    <3>1. CASE ~config.buffer /\ wire' = [wire EXCEPT ![s] = Append(@, whand[s])] /\ UNCHANGED wbuf
      <4>1. wire'[s] = Append(wire[s], whand[s])
        BY <1>0, <3>1, Zenon
      <4>2. Line(s)'
        <5>1. InLine(sent[s], Append(wire[s], whand[s]), wbuf[s], None, writeCh[s])
          BY <2>0, <3>0, <3>1, LineWritten, Zenon
        <5>. QED BY <3>0, <3>1, <4>1, <5>1, Zenon DEF Line
      <4>. QED BY <1>0, <1>2, <2>0, <3>0, <3>1, <4>2, Zenon
    <3>2. CASE config.buffer /\ wbuf' = [wbuf EXCEPT ![s] = Append(@, whand[s])] /\ UNCHANGED wire
      <4>1. wbuf'[s] = Append(wbuf[s], whand[s])
        BY <1>0, <3>2, Zenon
      <4>2. Line(s)'
        <5>1. InLine(sent[s], wire[s], Append(wbuf[s], whand[s]), None, writeCh[s])
          BY <3>0, LineWritten, Zenon
        <5>. QED BY <3>0, <3>2, <4>1, <5>1, Zenon DEF Line
      <4>. QED BY <1>0, <1>2, <3>0, <3>2, <4>2, Zenon
    <3>3. CASE config.buffer /\ wire' = [wire EXCEPT ![s] = @ \o wbuf[s]] /\ wbuf' = [wbuf EXCEPT ![s] = <<whand[s]>>]
      <4>1. wire'[s] = wire[s] \o wbuf[s] /\ wbuf'[s] = <<whand[s]>>
        BY <1>0, <3>3, Zenon
      <4>2. Line(s)'
        <5>1. InLine(sent[s], wire[s] \o wbuf[s], <<whand[s]>>, None, writeCh[s])
          BY <3>0, LineWritten, Zenon
        <5>. QED BY <3>0, <4>1, <5>1, Zenon DEF Line
      <4>. QED BY <1>0, <1>2, <3>0, <3>3, <4>2, Zenon
    <3>4. CASE UNCHANGED <<wbuf, wire>>
      <4>1. Line(s)'
        BY <3>0, <3>4, LineMoves, Zenon DEF Line
      <4>. QED BY <1>0, <1>2, <2>0, <3>0, <3>4, <4>1, Zenon
    <3>. QED BY <2>3, <3>1, <3>2, <3>3, <3>4, Zenon DEF WriteOne
  <2>4. CASE Flush(s) /\ ~UNCHANGED <<wbuf, wire>>
    <3>1. /\ wire' = [wire EXCEPT ![s] = @ \o wbuf[s]] /\ wbuf' = [wbuf EXCEPT ![s] = <<>>]
          /\ UNCHANGED <<config, sent, whand, writeCh>>
      BY <2>4, Zenon DEF Flush
    <3>2. wire'[s] = wire[s] \o wbuf[s] /\ wbuf'[s] = <<>>
      BY <1>0, <3>1, Zenon
    <3>3. Line(s)'
      BY <1>0, <2>0, <3>1, <3>2, LineFlushed, Zenon DEF Line
    <3>. QED BY <1>0, <1>2, <3>1, <3>2, <3>3, Zenon
  <2>5. CASE LoopCloses(s)
    BY <1>4, <2>5, Zenon DEF LoopCloses
  <2>6. CASE \/ LoopSeesDone(s) \/ BatchMore(s) \/ LoopGone(s)
             \/ (SetWriteDeadline(s) /\ UNCHANGED whand) \/ (Flush(s) /\ UNCHANGED <<wbuf, wire>>)
    BY <1>1, <2>6, Zenon DEF LoopSeesDone, BatchMore, LoopGone, SetWriteDeadline, Flush
  <2>. QED BY <1>5, <2>1, <2>2, <2>3, <2>4, <2>5, <2>6, Zenon DEF WriteLoop
<1>6. CASE UNCHANGED sessionVars
  BY <1>1, <1>6, Zenon DEF sessionVars, loopVars
<1>. QED BY <1>3, <1>4, <1>5, <1>6, Zenon DEF SessionNext, SessionsOver

(* The peer sees messages in the order enqueue accepted them, however        *)
(* batches, flushes and Close interleave and whatever Close drops.           *)
THEOREM WireAlwaysInOrder == SessionSpec => []WireInOrder
<1>1. OrderInv => WireInOrder
  BY Zenon DEF OrderInv, Line, InLine, Sorted, Before, WireInOrder
<1>. QED BY <1>1, FrameStarts, FrameStep, OrderStarts, OrderStep, PTL DEF SessionSpec
(*END*)
=============================================================================
