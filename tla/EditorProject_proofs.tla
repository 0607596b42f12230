------------------------- MODULE EditorProject_proofs -------------------------
(* What holds of the editor's project for any number of edits, sessions and  *)
(* opens and for any bounds of the history: its stacks connect, and what ends *)
(* late keeps out of the v11 sessions of others.                              *)
EXTENDS EditorProject, SequenceTheorems, WellFoundedInduction, TLAPS

Stack == Seq(Entry)

-----------------------------------------------------------------------------
(* Sequences.                                                                *)

LEMMA LeastNumber ==
  ASSUME NEW T, T \subseteq Nat, T # {}
  PROVE  \E x \in T : \A y \in T : x <= y
<1>1. PICK x \in T : \A y \in T : ~ (<<y, x>> \in OpToRel(<, Nat))
  BY NatLessThanWellFounded, WFMin
<1>2. \A y \in T : ~ (y < x)
  BY <1>1 DEF OpToRel
<1>3. QED
  BY <1>2

LEMMA FrontAndLast ==
  ASSUME NEW S, NEW s \in Seq(S), s # <<>>
  PROVE  /\ Len(s) \in Nat \ {0}
         /\ Front(s) \in Seq(S)
         /\ Len(Front(s)) = Len(s) - 1
         /\ \A i \in 1..Len(s) - 1 : Front(s)[i] = s[i]
         /\ Last(s) = s[Len(s)] /\ Last(s) \in S
<1>1. Len(s) \in Nat \ {0}
  BY EmptySeq
<1>2. Last(s) = s[Len(s)] /\ Last(s) \in S
  BY <1>1 DEF Last
<1>3. \A i \in 1..Len(s) - 1 : s[i] \in S
  BY <1>1
<1>4. /\ SubSeq(s, 1, Len(s) - 1) \in Seq(S)
      /\ Len(SubSeq(s, 1, Len(s) - 1)) = Len(s) - 1
      /\ \A i \in 1..Len(s) - 1 : SubSeq(s, 1, Len(s) - 1)[i] = s[i]
  <2> DEFINE k == Len(s) - 1
  <2>1. k \in Nat /\ \A i \in 1..k : s[i] \in S
    BY <1>1, <1>3
  <2> HIDE DEF k
  <2>2. /\ SubSeq(s, 1, k) \in Seq(S)
        /\ Len(SubSeq(s, 1, k)) = IF 1 <= k THEN k - 1 + 1 ELSE 0
        /\ \A i \in 1..k - 1 + 1 : SubSeq(s, 1, k)[i] = s[1 + i - 1]
    BY <2>1, SubSeqProperties
  <2>3. /\ SubSeq(s, 1, k) \in Seq(S)
        /\ Len(SubSeq(s, 1, k)) = k
        /\ \A i \in 1..k : SubSeq(s, 1, k)[i] = s[i]
    BY <2>1, <2>2
  <2>4. QED
    BY <2>3 DEF k
<1>5. QED
  BY <1>1, <1>2, <1>4 DEF Front

LEMMA Appended ==
  ASSUME NEW S, NEW s \in Seq(S), NEW e \in S
  PROVE  /\ s \o <<e>> \in Seq(S)
         /\ Len(s) \in Nat /\ Len(s \o <<e>>) = Len(s) + 1
         /\ \A i \in 1..Len(s) : (s \o <<e>>)[i] = s[i]
         /\ (s \o <<e>>)[Len(s) + 1] = e
<1>1. Len(s) \in Nat /\ <<e>> \in Seq(S) /\ Len(<<e>>) = 1
  OBVIOUS
<1>2. QED
  BY <1>1, ConcatProperties

\* t is what is left of s when elements are dropped from its front.
Suffix(t, s) ==
  /\ Len(t) <= Len(s)
  /\ \A i \in 1..Len(t) : t[i] = s[i + Len(s) - Len(t)]

LEMMA SuffixSelf ==
  ASSUME NEW S, NEW s \in Seq(S)
  PROVE  Suffix(s, s)
<1>1. Len(s) \in Nat
  OBVIOUS
<1>2. QED
  BY <1>1 DEF Suffix

LEMMA SuffixOfTail ==
  ASSUME NEW S, NEW s \in Seq(S), NEW t \in Seq(S), Suffix(t, s), t # <<>>
  PROVE  Tail(t) \in Seq(S) /\ Suffix(Tail(t), s)
<1>1. Tail(t) \in Seq(S) /\ Len(Tail(t)) = Len(t) - 1 /\ \A i \in 1..Len(Tail(t)) : Tail(t)[i] = t[i + 1]
  BY HeadTailProperties
<1>2. Len(t) \in Nat \ {0} /\ Len(s) \in Nat
  BY EmptySeq
<1>3. QED
  BY <1>1, <1>2 DEF Suffix

-----------------------------------------------------------------------------
(* Bounded drops from the front of each stack.                               *)

\* What is left of the stacks u and r.
Left(s, u, r) ==
  /\ s = [undo |-> s.undo, redo |-> s.redo]
  /\ s.undo \in Stack /\ s.redo \in Stack
  /\ Suffix(s.undo, u) /\ Suffix(s.redo, r)

LEMMA IsLeft ==
  ASSUME NEW u, NEW r, NEW a \in Stack, NEW b \in Stack, Suffix(a, u), Suffix(b, r)
  PROVE  Left([undo |-> a, redo |-> b], u, r)
BY DEF Left

LEMMA TrimmedLeft ==
  ASSUME NEW u \in Stack, NEW r \in Stack, NEW s, Left(s, u, r)
  PROVE  Left(Trimmed(s), u, r)
<1> DEFINE a == s.undo
           b == s.redo
<1>1. s = [undo |-> a, redo |-> b] /\ a \in Stack /\ b \in Stack /\ Suffix(a, u) /\ Suffix(b, r)
  BY DEF Left
<1> HIDE DEF a, b
<1>2. CASE Trimmed(s) = s
  BY <1>2
<1>3. CASE Trimmed(s) # s
  <2>1. ~(a = <<>> /\ b = <<>>)
    <3>1. SUFFICES ASSUME a = <<>>, b = <<>> PROVE FALSE
      OBVIOUS
    <3>2. a \o b = <<>>
      BY <3>1
    <3>3. QED
      BY <1>3, <3>2 DEF Trimmed, a, b
  <2>2. Len(a) \in Nat /\ Len(b) \in Nat /\ (a = <<>> => Len(a) = 0) /\ (b # <<>> => Len(b) # 0)
    BY <1>1, EmptySeq DEF Stack
  <2>3. CASE Len(a) >= Len(b)
    <3>1. a # <<>>
      BY <2>1, <2>2, <2>3
    <3>2. Trimmed(s) = [s EXCEPT !.undo = Tail(@)]
      BY <1>3, <2>3 DEF Trimmed, a, b
    <3>3. Trimmed(s) = [undo |-> Tail(a), redo |-> b]
      BY <1>1, <3>2
    <3>4. Tail(a) \in Stack /\ Suffix(Tail(a), u)
      BY <1>1, <3>1, SuffixOfTail DEF Stack
    <3>5. QED
      BY <1>1, <3>3, <3>4, IsLeft
  <2>4. CASE ~(Len(a) >= Len(b))
    <3>1. b # <<>>
      <4>1. b = <<>> => Len(b) = 0
        OBVIOUS
      <4>2. QED
        BY <2>2, <2>4, <4>1
    <3>2. Trimmed(s) = [s EXCEPT !.redo = Tail(@)]
      BY <1>3, <2>4 DEF Trimmed, a, b
    <3>3. Trimmed(s) = [undo |-> a, redo |-> Tail(b)]
      BY <1>1, <3>2
    <3>4. Tail(b) \in Stack /\ Suffix(Tail(b), r)
      BY <1>1, <3>1, SuffixOfTail DEF Stack
    <3>5. QED
      BY <1>1, <3>3, <3>4, IsLeft
  <2>5. QED
    BY <2>3, <2>4
<1>4. QED
  BY <1>2, <1>3

\* f trims u and r, entry by entry, k times.
Trims(f, k, u, r) ==
  f = [n \in 0..k |-> IF n = 0 THEN [undo |-> u, redo |-> r] ELSE Trimmed(f[n - 1])]

LEMMA TrimsExist ==
  ASSUME NEW u, NEW r, NEW k \in Nat
  PROVE  \E f : Trims(f, k, u, r)
<1> DEFINE Bad == {j \in Nat : ~ \E f : Trims(f, j, u, r)}
<1>1. SUFFICES ASSUME Bad # {} PROVE FALSE
  OBVIOUS
<1>2. PICK j \in Bad : \A i \in Bad : j <= i
  <2>1. Bad \subseteq Nat
    OBVIOUS
  <2> HIDE DEF Bad
  <2>2. QED
    BY <1>1, <2>1, LeastNumber
<1>3. j \in Nat /\ ~ \E f : Trims(f, j, u, r)
  OBVIOUS
<1>4. CASE j = 0
  <2> DEFINE f == [n \in 0..0 |-> [undo |-> u, redo |-> r]]
  <2>1. Trims(f, 0, u, r)
    BY DEF Trims
  <2>2. QED
    BY <1>3, <1>4, <2>1
<1>5. CASE j # 0
  <2>1. j - 1 \in Nat /\ j - 1 \notin Bad
    BY <1>2, <1>3, <1>5
  <2>2. PICK f : Trims(f, j - 1, u, r)
    BY <2>1
  <2> DEFINE g == [n \in 0..j |-> IF n = j THEN Trimmed(f[j - 1]) ELSE f[n]]
  <2>3. g = [n \in 0..j |-> IF n = 0 THEN [undo |-> u, redo |-> r] ELSE Trimmed(g[n - 1])]
    <3>1. SUFFICES ASSUME NEW n \in 0..j
                   PROVE  g[n] = IF n = 0 THEN [undo |-> u, redo |-> r] ELSE Trimmed(g[n - 1])
      OBVIOUS
    <3>2. \A m \in 0..j - 1 : f[m] = IF m = 0 THEN [undo |-> u, redo |-> r] ELSE Trimmed(f[m - 1])
      BY <2>2, Zenon DEF Trims
    <3>3. CASE n = j
      <4>1. g[n] = Trimmed(f[j - 1])
        BY <3>3
      <4>2. g[n - 1] = f[j - 1]
        BY <1>3, <1>5, <3>3
      <4>3. n # 0
        BY <1>5, <3>3
      <4> HIDE DEF g
      <4>4. QED
        BY <3>3, <4>1, <4>2, <4>3
    <3>4. CASE n # j
      <4>1. g[n] = f[n] /\ n \in 0..j - 1
        BY <1>3, <3>1, <3>4
      <4>2. n # 0 => g[n - 1] = f[n - 1]
        BY <1>3, <3>1, <3>4
      <4> HIDE DEF g
      <4>3. QED
        BY <3>2, <4>1, <4>2
    <3>5. QED
      BY <3>3, <3>4
  <2>4. Trims(g, j, u, r)
    BY <2>3, Zenon DEF Trims
  <2>5. QED
    BY <1>3, <2>4
<1>6. QED
  BY <1>4, <1>5

LEMMA TrimsLeave ==
  ASSUME NEW u \in Stack, NEW r \in Stack, NEW k \in Nat, NEW f, Trims(f, k, u, r)
  PROVE  Left(f[k], u, r)
<1> DEFINE Bad == {n \in 0..k : ~Left(f[n], u, r)}
<1>1. SUFFICES ASSUME Bad # {} PROVE FALSE
  OBVIOUS
<1>2. PICK n \in Bad : \A i \in Bad : n <= i
  <2>1. Bad \subseteq Nat
    OBVIOUS
  <2> HIDE DEF Bad
  <2>2. QED
    BY <1>1, <2>1, LeastNumber
<1>3. n \in 0..k /\ ~Left(f[n], u, r)
  OBVIOUS
<1>4. f[n] = IF n = 0 THEN [undo |-> u, redo |-> r] ELSE Trimmed(f[n - 1])
  BY <1>3, Zenon DEF Trims
<1>5. CASE n = 0
  <2>1. Suffix(u, u) /\ Suffix(r, r)
    BY SuffixSelf DEF Stack
  <2>2. QED
    BY <1>3, <1>4, <1>5, <2>1, IsLeft
<1>6. CASE n # 0
  <2>1. Left(f[n - 1], u, r)
    BY <1>2, <1>3, <1>6
  <2>2. QED
    BY <1>3, <1>4, <1>6, <2>1, TrimmedLeft
<1>7. QED
  BY <1>5, <1>6

LEMMA BoundedLeft ==
  ASSUME NEW u \in Stack, NEW r \in Stack
  PROVE  Left(Bounded(u, r), u, r)
<1> DEFINE k == Len(u \o r)
           f == CHOOSE g : Trims(g, k, u, r)
<1>1. k \in Nat
  BY DEF Stack
<1>2. Bounded(u, r) = f[k]
  BY DEF Bounded, Trims
<1> HIDE DEF k
<1>3. Trims(f, k, u, r)
  BY <1>1, TrimsExist
<1> HIDE DEF f
<1>4. QED
  BY <1>1, <1>2, <1>3, TrimsLeave

-----------------------------------------------------------------------------
(* Stacks that connect to a content.                                         *)

LEMMA EmptyConnects ==
  ASSUME NEW c
  PROVE  <<>> \in Stack /\ UndoConnects(<<>>, c) /\ RedoConnects(<<>>, c)
BY DEF UndoConnects, RedoConnects, Stack

LEMMA SuffixConnects ==
  ASSUME NEW s \in Stack, NEW t \in Stack, Suffix(t, s), NEW c
  PROVE  /\ UndoConnects(s, c) => UndoConnects(t, c)
         /\ RedoConnects(s, c) => RedoConnects(t, c)
<1> DEFINE d == Len(s) - Len(t)
<1>1. /\ Len(s) \in Nat /\ Len(t) \in Nat /\ d \in Nat
      /\ DOMAIN s = 1..Len(s) /\ DOMAIN t = 1..Len(t) /\ Len(s) = Len(t) + d
  BY LenProperties DEF Stack, Suffix
<1>2. \A i \in 1..Len(t) : t[i] = s[i + d]
  <2>1. \A i \in 1..Len(t) : i + Len(s) - Len(t) = i + d
    BY <1>1
  <2>2. QED
    BY <2>1 DEF Suffix
<1> HIDE DEF d
<1>3. \A i \in DOMAIN t : /\ i + d \in DOMAIN s /\ t[i] = s[i + d]
                          /\ (i = Len(t)) <=> (i + d = Len(s))
                          /\ i # Len(t) => t[i + 1] = s[(i + d) + 1]
  <2>1. SUFFICES ASSUME NEW i \in 1..Len(t)
                 PROVE  /\ i + d \in 1..Len(s) /\ t[i] = s[i + d]
                        /\ (i = Len(t)) <=> (i + d = Len(s))
                        /\ i # Len(t) => t[i + 1] = s[(i + d) + 1]
    BY <1>1
  <2>2. /\ i + d \in 1..Len(s)
        /\ (i = Len(t)) <=> (i + d = Len(s))
        /\ i # Len(t) => i + 1 \in 1..Len(t) /\ (i + 1) + d = (i + d) + 1
    <3> DEFINE m == Len(s)
               k == Len(t)
    <3>1. m \in Nat /\ k \in Nat /\ d \in Nat /\ m = k + d /\ i \in 1..k
      BY <1>1
    <3> HIDE DEF m, k
    <3>2. /\ i + d \in 1..m
          /\ (i = k) <=> (i + d = m)
          /\ i # k => i + 1 \in 1..k /\ (i + 1) + d = (i + d) + 1
      BY <3>1
    <3>3. QED
      BY <3>2 DEF m, k
  <2>3. i # Len(t) => t[i + 1] = s[(i + d) + 1]
    BY <1>2, <2>2
  <2>4. QED
    BY <1>2, <2>2, <2>3
<1>4. UndoConnects(s, c) => UndoConnects(t, c)
  BY <1>3 DEF UndoConnects
<1>5. RedoConnects(s, c) => RedoConnects(t, c)
  BY <1>3 DEF RedoConnects
<1>6. QED
  BY <1>4, <1>5

LEMMA FrontConnects ==
  ASSUME NEW s \in Stack, s # <<>>, NEW c
  PROVE  /\ UndoConnects(s, c) =>
              /\ Last(s).from # Garbage
              /\ Last(s).kind = "patch" => Last(s).to = c
              /\ UndoConnects(Front(s), Last(s).from)
         /\ RedoConnects(s, c) =>
              /\ Leads(Last(s)) # Garbage
              /\ Last(s).kind = "patch" => Last(s).from = c
              /\ RedoConnects(Front(s), Leads(Last(s)))
<1> DEFINE k == Len(s)
           f == Front(s)
<1>1. /\ k \in Nat \ {0} /\ DOMAIN s = 1..k /\ DOMAIN f = 1..k - 1 /\ Len(f) = k - 1
      /\ \A i \in 1..k - 1 : f[i] = s[i]
      /\ Last(s) = s[k]
  BY FrontAndLast, LenProperties DEF Stack
<1> HIDE DEF k, f
<1>2. k \in DOMAIN s
  BY <1>1
<1>3. \A i \in DOMAIN f : /\ i \in DOMAIN s /\ f[i] = s[i] /\ i # k
                          /\ i = Len(f) => s[i + 1] = Last(s)
                          /\ i # Len(f) => f[i + 1] = s[i + 1]
  <2>1. SUFFICES ASSUME NEW i \in 1..k - 1
                 PROVE  /\ i \in 1..k /\ f[i] = s[i] /\ i # k
                        /\ i = k - 1 => s[i + 1] = s[k]
                        /\ i # k - 1 => f[i + 1] = s[i + 1]
    BY <1>1
  <2>2. i = k - 1 => i + 1 = k
    BY <1>1
  <2>3. i # k - 1 => i + 1 \in 1..k - 1
    BY <1>1
  <2>4. QED
    BY <1>1, <2>2, <2>3
<1>4. ASSUME UndoConnects(s, c)
      PROVE  /\ Last(s).from # Garbage
             /\ Last(s).kind = "patch" => Last(s).to = c
             /\ UndoConnects(f, Last(s).from)
  <2>1. \A i \in DOMAIN s : /\ s[i].from # Garbage
                            /\ s[i].kind = "patch" => s[i].to = IF i = k THEN c ELSE s[i + 1].from
    BY <1>4 DEF UndoConnects, k
  <2>2. s[k].from # Garbage /\ (s[k].kind = "patch" => s[k].to = c)
    BY <1>2, <2>1
  <2>3. \A i \in DOMAIN f :
          /\ f[i].from # Garbage
          /\ f[i].kind = "patch" => f[i].to = IF i = Len(f) THEN Last(s).from ELSE f[i + 1].from
    BY <1>3, <2>1
  <2>4. QED
    BY <1>1, <2>2, <2>3 DEF UndoConnects
<1>5. ASSUME RedoConnects(s, c)
      PROVE  /\ Leads(Last(s)) # Garbage
             /\ Last(s).kind = "patch" => Last(s).from = c
             /\ RedoConnects(f, Leads(Last(s)))
  <2>1. \A i \in DOMAIN s : /\ Leads(s[i]) # Garbage
                            /\ s[i].kind = "patch" => s[i].from = IF i = k THEN c ELSE Leads(s[i + 1])
    BY <1>5 DEF RedoConnects, k
  <2>2. Leads(s[k]) # Garbage /\ (s[k].kind = "patch" => s[k].from = c)
    BY <1>2, <2>1
  <2>3. \A i \in DOMAIN f :
          /\ Leads(f[i]) # Garbage
          /\ f[i].kind = "patch" => f[i].from = IF i = Len(f) THEN Leads(Last(s)) ELSE Leads(f[i + 1])
    BY <1>3, <2>1
  <2>4. QED
    BY <1>1, <2>2, <2>3 DEF RedoConnects
<1>6. QED
  BY <1>4, <1>5 DEF f

LEMMA AppendConnects ==
  ASSUME NEW s \in Stack, NEW e \in Entry, NEW c
  PROVE  /\ (/\ UndoConnects(s, e.from) /\ e.from # Garbage
             /\ e.kind = "patch" => e.to = c)
              => UndoConnects(s \o <<e>>, c)
         /\ (/\ RedoConnects(s, Leads(e)) /\ Leads(e) # Garbage
             /\ e.kind = "patch" => e.from = c)
              => RedoConnects(s \o <<e>>, c)
<1> DEFINE k == Len(s)
           t == s \o <<e>>
<1>1. /\ k \in Nat /\ DOMAIN s = 1..k /\ DOMAIN t = 1..k + 1 /\ Len(t) = k + 1
      /\ \A i \in 1..k : t[i] = s[i]
      /\ t[k + 1] = e
  BY Appended, LenProperties DEF Stack
<1> HIDE DEF k, t
<1>2. \A i \in DOMAIN t : \/ i = k + 1 /\ i = Len(t) /\ t[i] = e
                          \/ /\ i \in DOMAIN s /\ t[i] = s[i] /\ i # Len(t)
                             /\ i = k => t[i + 1] = e
                             /\ i # k => t[i + 1] = s[i + 1]
  <2>1. SUFFICES ASSUME NEW i \in 1..k + 1
                 PROVE  \/ i = k + 1 /\ t[i] = e
                        \/ /\ i \in 1..k /\ t[i] = s[i] /\ i # k + 1
                           /\ i = k => t[i + 1] = e
                           /\ i # k => t[i + 1] = s[i + 1]
    BY <1>1
  <2>2. i = k + 1 \/ (i \in 1..k /\ i # k + 1)
    BY <1>1
  <2>3. i \in 1..k /\ i # k => i + 1 \in 1..k
    BY <1>1
  <2>4. QED
    BY <1>1, <2>2, <2>3
<1>3. ASSUME UndoConnects(s, e.from), e.from # Garbage, e.kind = "patch" => e.to = c
      PROVE  UndoConnects(t, c)
  <2>1. \A i \in DOMAIN s : /\ s[i].from # Garbage
                            /\ s[i].kind = "patch" => s[i].to = IF i = k THEN e.from ELSE s[i + 1].from
    BY <1>3 DEF UndoConnects, k
  <2>2. QED
    BY <1>2, <1>3, <2>1 DEF UndoConnects
<1>4. ASSUME RedoConnects(s, Leads(e)), Leads(e) # Garbage, e.kind = "patch" => e.from = c
      PROVE  RedoConnects(t, c)
  <2>1. \A i \in DOMAIN s : /\ Leads(s[i]) # Garbage
                            /\ s[i].kind = "patch" => s[i].from = IF i = k THEN Leads(e) ELSE Leads(s[i + 1])
    BY <1>4 DEF RedoConnects, k
  <2> HIDE DEF Leads
  <2>2. QED
    BY <1>2, <1>4, <2>1 DEF RedoConnects
<1>5. QED
  BY <1>3, <1>4 DEF t

-----------------------------------------------------------------------------
(* What the operations make of the stacks.                                   *)

History == [undo : Stack, redo : Stack, key : Key \cup SnapshotKey \cup {None},
            recent : BOOLEAN]

\* While a key of replaceProject counts in a legacy session, the last entry is
\* the snapshot it was given for.
TopSnapshot(h) ==
  ~editor.v11 /\ h.key \in SnapshotKey /\ h.undo # <<>> => Last(h.undo).kind # "patch"

LEMMA KeysApart ==
  /\ \A key \in Key \cup {None} : key \notin SnapshotKey
  /\ None \notin SnapshotKey
BY EditorProjectAssumption

\* The stacks connect to a content that is one.
Connects(undo, redo, c) ==
  c \in Nat /\ UndoConnects(undo, c) /\ RedoConnects(redo, c)

LEMMA EntriesTyped ==
  ASSUME NEW a \in Content, NEW b \in Content, NEW atlas \in BOOLEAN
  PROVE  /\ Patch(a, b) \in Entry /\ Snapshot(a, atlas) \in Entry
         /\ Patch(a, b).kind = "patch" /\ Patch(a, b).from = a /\ Patch(a, b).to = b
         /\ Leads(Patch(a, b)) = b
         /\ Snapshot(a, atlas).kind # "patch" /\ Snapshot(a, atlas).from = a
         /\ Leads(Snapshot(a, atlas)) = a
BY DEF Patch, Snapshot, Entry, Content, Leads

LEMMA NumbersAreContents ==
  /\ \A c \in Nat : c \in Content /\ c # Garbage
  /\ \A c \in Content : c # Garbage => c \in Nat
  /\ Garbage \in Content
BY EditorProjectAssumption DEF Content, Garbage

LEMMA BoundedConnects ==
  ASSUME NEW u \in Stack, NEW r \in Stack, NEW c
  PROVE  /\ Bounded(u, r).undo \in Stack /\ Bounded(u, r).redo \in Stack
         /\ UndoConnects(u, c) => UndoConnects(Bounded(u, r).undo, c)
         /\ RedoConnects(r, c) => RedoConnects(Bounded(u, r).redo, c)
<1>1. /\ Bounded(u, r).undo \in Stack /\ Bounded(u, r).redo \in Stack
      /\ Suffix(Bounded(u, r).undo, u) /\ Suffix(Bounded(u, r).redo, r)
  BY BoundedLeft DEF Left
<1>2. QED
  BY <1>1, SuffixConnects

LEMMA PushedConnects ==
  ASSUME NEW u \in Stack, NEW e \in Entry, NEW c, UndoConnects(u, e.from),
         e.from # Garbage, e.kind = "patch" => e.to = c
  PROVE  /\ Pushed(u, e) \in Stack /\ UndoConnects(Pushed(u, e), c)
         /\ Pushed(u, e) # <<>> /\ Last(Pushed(u, e)) = e
<1> DEFINE t == IF Len(u) >= MaxHistory THEN Tail(u) ELSE u
<1>1. t \in Stack /\ Suffix(t, u)
  <2>1. Suffix(u, u)
    BY SuffixSelf DEF Stack
  <2>2. Len(u) >= MaxHistory => u # <<>>
    BY EditorProjectAssumption, EmptySeq
  <2>3. QED
    BY <2>1, <2>2, SuffixOfTail DEF Stack
<1> HIDE DEF t
<1>2. UndoConnects(t, e.from)
  BY <1>1, SuffixConnects
<1>3. Pushed(u, e) = t \o <<e>>
  BY DEF Pushed, t
<1>4. t \o <<e>> \in Stack /\ UndoConnects(t \o <<e>>, c)
  BY <1>1, <1>2, Appended, AppendConnects DEF Stack
<1>5. t \o <<e>> # <<>> /\ Last(t \o <<e>>) = e
  BY <1>1, Appended, EmptySeq DEF Stack, Last
<1>6. QED
  BY <1>3, <1>4, <1>5

LEMMA WithPatchConnects ==
  ASSUME history \in History, Connects(history.undo, history.redo, editor.content),
         NEW to \in Nat, NEW key \in Key \cup {None}
  PROVE  /\ WithPatch(editor.content, to, key) \in History
         /\ Connects(WithPatch(editor.content, to, key).undo,
                     WithPatch(editor.content, to, key).redo, to)
         /\ WithPatch(editor.content, to, key).key \notin SnapshotKey
<1> DEFINE u == history.undo
           from == editor.content
           patch == Patch(from, to)
           merged == [Last(u) EXCEPT !.to = to]
           w == WithPatch(from, to, key)
<1>1. u \in Stack /\ from \in Nat /\ UndoConnects(u, from)
  BY DEF History, Connects
<1>2. from \in Content /\ from # Garbage /\ to \in Content
  BY <1>1, NumbersAreContents
<1>3. patch \in Entry /\ patch.from = from /\ patch.to = to
  BY <1>2, EntriesTyped
<1>4. /\ u \o <<patch>> \in Stack /\ UndoConnects(u \o <<patch>>, to)
      /\ Pushed(u, patch) \in Stack /\ UndoConnects(Pushed(u, patch), to)
  <2> HIDE DEF u, from, patch
  <2>1. QED
    BY <1>1, <1>2, <1>3, PushedConnects, AppendConnects, Appended DEF Stack
<1>5. Merges(key) => Front(u) \o <<merged>> \in Stack /\ UndoConnects(Front(u) \o <<merged>>, to)
  <2>1. SUFFICES ASSUME u # <<>>
                 PROVE  Front(u) \o <<merged>> \in Stack /\ UndoConnects(Front(u) \o <<merged>>, to)
    BY DEF Merges, GoesOn
  <2>2. Front(u) \in Stack /\ Last(u) \in Entry
    BY <1>1, <2>1, FrontAndLast DEF Stack
  <2>3. Last(u).from # Garbage /\ UndoConnects(Front(u), Last(u).from)
    BY <1>1, <2>1, FrontConnects
  <2>4. merged \in Entry /\ merged.from = Last(u).from /\ merged.to = to
    BY <1>2, <2>2 DEF Entry
  <2> HIDE DEF u, merged
  <2>5. QED
    BY <2>2, <2>3, <2>4, Appended, AppendConnects DEF Stack
<1> DEFINE next == IF Merges(key) THEN Front(u) \o <<merged>> ELSE u \o <<patch>>
<1>6. next \in Stack /\ UndoConnects(next, to)
  BY <1>4, <1>5
<1>7. Bounded(next, <<>>).undo \in Stack /\ UndoConnects(Bounded(next, <<>>).undo, to)
  <2> HIDE DEF next
  <2>1. QED
    BY <1>6, BoundedConnects, EmptyConnects
<1>8. /\ w = [undo |-> IF editor.v11 THEN Bounded(next, <<>>).undo
                       ELSE IF Merges(key) THEN Front(u) \o <<merged>> ELSE Pushed(u, patch),
              redo |-> <<>>, key |-> key, recent |-> TRUE]
  BY DEF WithPatch
<1> HIDE DEF u, from, patch, merged, next
<1>9. w.undo \in Stack /\ UndoConnects(w.undo, to) /\ w.redo = <<>> /\ w \in History
  BY <1>4, <1>5, <1>7, <1>8, EmptyConnects DEF History
<1>10. Connects(w.undo, w.redo, to)
  BY <1>9, EmptyConnects DEF Connects
<1>11. w.key \notin SnapshotKey
  BY <1>8, KeysApart
<1>12. QED
  BY <1>9, <1>10, <1>11 DEF from

\* Behind a snapshot the stack connects whatever the content is.
LEMMA SnapshotConnects ==
  ASSUME NEW u \in Stack, NEW c, UndoConnects(u, c), u # <<>>, Last(u).kind # "patch", NEW to
  PROVE  UndoConnects(u, to)
<1>1. Len(u) \in Nat /\ DOMAIN u = 1..Len(u)
  BY LenProperties DEF Stack
<1>2. u[Len(u)].kind # "patch"
  BY DEF Last
<1>3. QED
  BY <1>1, <1>2 DEF UndoConnects

LEMMA WithSnapshotConnects ==
  ASSUME history \in History, Connects(history.undo, history.redo, editor.content),
         TopSnapshot(history), NEW atlas \in BOOLEAN, NEW key \in SnapshotKey \cup {None},
         NEW to \in Nat, NEW w, w = WithSnapshot(editor.content, atlas, key)
  PROVE  w \in History /\ Connects(w.undo, w.redo, to) /\ TopSnapshot(w)
<1> DEFINE u == history.undo
           from == editor.content
           kept == Bounded(u \o <<Snapshot(from, atlas)>>, <<>>).undo
           pushed == Pushed(u, Snapshot(from, FALSE))
<1>1. u \in Stack /\ from \in Nat /\ UndoConnects(u, from)
  BY DEF History, Connects
<1>2. from \in Content /\ from # Garbage
  BY <1>1, NumbersAreContents
<1>3. \A b \in BOOLEAN : /\ Snapshot(from, b) \in Entry
                         /\ Snapshot(from, b).kind # "patch"
                         /\ Snapshot(from, b).from = from
  BY <1>2, EntriesTyped
<1>4. CASE ~editor.v11 /\ GoesOn(key)
  <2>1. w = [history EXCEPT !.redo = <<>>]
    BY <1>4 DEF WithSnapshot
  <2>2. /\ w.undo = u /\ w.redo = <<>> /\ w.key = history.key /\ w \in History
    BY <2>1, EmptyConnects DEF History
  <2>3. u # <<>> /\ Last(u).kind # "patch"
    BY <1>4, KeysApart DEF GoesOn, TopSnapshot
  <2>4. UndoConnects(u, to)
    BY <1>1, <2>3, SnapshotConnects
  <2>5. QED
    BY <2>2, <2>3, <2>4, EmptyConnects DEF Connects, TopSnapshot
<1>5. CASE editor.v11 \/ ~GoesOn(key)
  <2>1. w = [undo |-> IF editor.v11 THEN kept ELSE pushed,
             redo |-> <<>>, key |-> key, recent |-> TRUE]
    BY <1>5 DEF WithSnapshot, u
  <2> HIDE DEF u, from
  <2>2. kept \in Stack /\ UndoConnects(kept, to)
    <3> DEFINE e == Snapshot(from, atlas)
    <3>1. e \in Entry /\ e.kind # "patch" /\ e.from = from
      BY <1>3
    <3> HIDE DEF e
    <3>2. u \o <<e>> \in Stack /\ UndoConnects(u \o <<e>>, to)
      BY <1>1, <1>2, <3>1, Appended, AppendConnects DEF Stack
    <3>3. /\ Bounded(u \o <<e>>, <<>>).undo \in Stack
          /\ UndoConnects(Bounded(u \o <<e>>, <<>>).undo, to)
      BY <3>2, BoundedConnects, EmptyConnects
    <3>4. QED
      BY <3>3 DEF e
  <2>3. /\ pushed \in Stack /\ UndoConnects(pushed, to)
        /\ pushed # <<>> /\ Last(pushed).kind # "patch"
    <3> DEFINE e == Snapshot(from, FALSE)
    <3>1. e \in Entry /\ e.kind # "patch" /\ e.from = from
      BY <1>3
    <3> HIDE DEF e
    <3>2. Pushed(u, e) \in Stack /\ UndoConnects(Pushed(u, e), to)
          /\ Pushed(u, e) # <<>> /\ Last(Pushed(u, e)) = e
      BY <1>1, <1>2, <3>1, PushedConnects
    <3>3. QED
      BY <3>1, <3>2 DEF e
  <2> HIDE DEF kept, pushed
  <2>4. w.undo \in Stack /\ UndoConnects(w.undo, to) /\ w.redo = <<>> /\ w \in History
    BY <2>1, <2>2, <2>3, EmptyConnects DEF History
  <2>5. Connects(w.undo, w.redo, to)
    BY <2>4, EmptyConnects DEF Connects
  <2>6. TopSnapshot(w)
    BY <2>1, <2>3 DEF TopSnapshot
  <2>7. QED
    BY <2>4, <2>5, <2>6
<1>6. QED
  BY <1>4, <1>5

LEMMA NavigatedConnects ==
  ASSUME NEW u \in Stack, NEW r \in Stack, NEW c, Connects(u, r, c)
  PROVE  /\ Navigated(u, r) \in History /\ Navigated(u, r).key = None
         /\ Connects(Navigated(u, r).undo, Navigated(u, r).redo, c)
<1>1. /\ Bounded(u, r).undo \in Stack /\ UndoConnects(Bounded(u, r).undo, c)
      /\ Bounded(u, r).redo \in Stack /\ RedoConnects(Bounded(u, r).redo, c)
  BY BoundedConnects DEF Connects
<1>2. QED
  BY <1>1 DEF Navigated, History, Connects

\* The entry that goes to the other stack leads from there to here.
LEMMA ReversesEntry ==
  ASSUME editor.content \in Nat, NEW e \in Entry
  PROVE  /\ ReverseEntry(e) \in Entry
         /\ e.kind = "patch" => ReverseEntry(e) = e
         /\ e.kind # "patch" => /\ ReverseEntry(e).kind # "patch"
                                /\ ReverseEntry(e).from = editor.content
                                /\ Leads(ReverseEntry(e)) = editor.content
<1>1. CASE e.kind = "patch"
  BY <1>1 DEF ReverseEntry
<1>2. CASE e.kind # "patch"
  <2>1. ReverseEntry(e) = Snapshot(editor.content, e.atlas)
    BY <1>2 DEF ReverseEntry
  <2>2. editor.content \in Content /\ e.atlas \in BOOLEAN
    BY NumbersAreContents DEF Entry
  <2>3. QED
    BY <1>2, <2>1, <2>2, EntriesTyped
<1>3. QED
  BY <1>1, <1>2

LEMMA UndoneConnects ==
  ASSUME history \in History, Connects(history.undo, history.redo, editor.content),
         history.undo # <<>>, NEW e, e = Last(history.undo),
         NEW to, to = IF e.kind = "patch" THEN Applied(e.to, e.from) ELSE e.from
  PROVE  /\ Front(history.undo) \in Stack /\ history.redo \o <<ReverseEntry(e)>> \in Stack
         /\ Connects(Front(history.undo), history.redo \o <<ReverseEntry(e)>>, to)
<1> DEFINE u == history.undo
           r == history.redo
           c == editor.content
<1>1. u \in Stack /\ r \in Stack /\ c \in Nat /\ UndoConnects(u, c) /\ RedoConnects(r, c)
  BY DEF History, Connects
<1>2. c # Garbage
  BY <1>1, NumbersAreContents
<1>3. Front(u) \in Stack /\ e \in Entry
  BY <1>1, FrontAndLast DEF Stack
<1>4. e.from # Garbage /\ (e.kind = "patch" => e.to = c) /\ UndoConnects(Front(u), e.from)
  BY <1>1, FrontConnects
<1>5. to = e.from /\ to \in Nat
  <2>1. to = e.from
    BY <1>4 DEF Applied
  <2>2. e.from \in Content
    BY <1>3 DEF Entry
  <2>3. QED
    BY <1>4, <2>1, <2>2, NumbersAreContents
<1> DEFINE back == ReverseEntry(e)
<1>6. back \in Entry /\ Leads(back) = c /\ (back.kind = "patch" => back.from = to)
  <2>1. CASE e.kind = "patch"
    BY <1>1, <1>3, <1>4, <1>5, <2>1, ReversesEntry DEF Leads
  <2>2. CASE e.kind # "patch"
    BY <1>1, <1>3, <2>2, ReversesEntry
  <2>3. QED
    BY <2>1, <2>2
<1> HIDE DEF u, r, c, back
<1>7. r \o <<back>> \in Stack /\ RedoConnects(r \o <<back>>, to)
  BY <1>1, <1>2, <1>6, Appended, AppendConnects DEF Stack
<1>8. Connects(Front(u), r \o <<back>>, to)
  BY <1>4, <1>5, <1>7 DEF Connects
<1>9. QED
  BY <1>3, <1>7, <1>8 DEF u, r, back

LEMMA RedoneConnects ==
  ASSUME history \in History, Connects(history.undo, history.redo, editor.content),
         history.redo # <<>>, NEW e, e = Last(history.redo),
         NEW to, to = IF e.kind = "patch" THEN Applied(e.from, e.to) ELSE e.from
  PROVE  /\ history.undo \o <<ReverseEntry(e)>> \in Stack /\ Front(history.redo) \in Stack
         /\ Connects(history.undo \o <<ReverseEntry(e)>>, Front(history.redo), to)
<1> DEFINE u == history.undo
           r == history.redo
           c == editor.content
<1>1. u \in Stack /\ r \in Stack /\ c \in Nat /\ UndoConnects(u, c) /\ RedoConnects(r, c)
  BY DEF History, Connects
<1>2. c # Garbage
  BY <1>1, NumbersAreContents
<1>3. Front(r) \in Stack /\ e \in Entry
  BY <1>1, FrontAndLast DEF Stack
<1>4. Leads(e) # Garbage /\ (e.kind = "patch" => e.from = c) /\ RedoConnects(Front(r), Leads(e))
  BY <1>1, FrontConnects
<1>5. to = Leads(e) /\ to \in Nat
  <2>1. to = Leads(e)
    BY <1>4 DEF Applied, Leads
  <2>2. Leads(e) \in Content
    BY <1>3 DEF Entry, Leads
  <2>3. QED
    BY <1>4, <2>1, <2>2, NumbersAreContents
<1> DEFINE back == ReverseEntry(e)
<1>6. back \in Entry /\ back.from = c /\ (back.kind = "patch" => back.to = to)
  <2>1. CASE e.kind = "patch"
    BY <1>1, <1>3, <1>4, <1>5, <2>1, ReversesEntry DEF Leads
  <2>2. CASE e.kind # "patch"
    BY <1>1, <1>3, <2>2, ReversesEntry
  <2>3. QED
    BY <2>1, <2>2
<1> HIDE DEF u, r, c, back
<1>7. u \o <<back>> \in Stack /\ UndoConnects(u \o <<back>>, to)
  BY <1>1, <1>2, <1>6, Appended, AppendConnects DEF Stack
<1>8. Connects(u \o <<back>>, Front(r), to)
  BY <1>4, <1>5, <1>7 DEF Connects
<1>9. QED
  BY <1>3, <1>7, <1>8 DEF u, r, back

-----------------------------------------------------------------------------
(* The invariant.                                                            *)

\* Only a session that is open has a carrier.
CarriersOpen == editor.v11 => Loaded

\* A copy holds the content of the project, until another takes its place.
CopyCurrent ==
  save # None /\ save.copy =>
    /\ save.before.content # Garbage
    /\ save.same => /\ editor.content = save.before.content
                    /\ editor.session = save.before.session

ProjectInv ==
  TypeOK /\ CarriersOpen /\ CopyCurrent /\ HistoryConnects /\ TopSnapshot(history)

Opens == Seq([before : Editor, waiting : BOOLEAN])
Tally == [edits : 0..MaxEdits, sessions : 0..MaxSessions]

LEMMA Types ==
  TypeOK <=> /\ editor \in Editor /\ history \in History /\ save \in Save \cup {None}
             /\ opens \in Opens /\ tally \in Tally
BY DEF TypeOK, History, Stack, Opens, Tally

LEMMA HistoryNow ==
  ASSUME editor \in Editor, history \in History
  PROVE  HistoryConnects <=> (Loaded => Connects(history.undo, history.redo, editor.content))
<1>1. editor.content # Garbage <=> editor.content \in Nat
  BY NumbersAreContents DEF Editor
<1>2. QED
  BY <1>1 DEF HistoryConnects, Connects

LEMMA EmptyFits ==
  /\ EmptyHistory \in History
  /\ \A c \in Nat : Connects(EmptyHistory.undo, EmptyHistory.redo, c)
BY EmptyConnects DEF EmptyHistory, History, Connects

LEMMA NoProjectTyped ==
  ASSUME NEW n \in Nat
  PROVE  /\ [NoProject EXCEPT !.version = n] \in Editor
         /\ [NoProject EXCEPT !.version = n].session = Nobody
         /\ ~[NoProject EXCEPT !.version = n].v11
BY DEF NoProject, Editor, Content, Nobody

\* When another project object takes the place of the one a copy was made of.
LEMMA ChangedFits ==
  ASSUME TypeOK, CopyCurrent, NEW s, s = Changed
  PROVE  /\ s \in Save \cup {None}
         /\ save # None => s # None
         /\ s # None /\ s.copy => s.before.content # Garbage /\ ~s.same
<1>1. save \in Save \cup {None} /\ None \notin Save
  BY SaveAssumption DEF TypeOK
<1>2. CASE save # None /\ save.copy
  <2>1. s = [save EXCEPT !.same = FALSE]
    BY <1>2 DEF Changed
  <2>2. s \in Save /\ ~s.same /\ s.before = save.before
    BY <1>1, <1>2, <2>1 DEF Save
  <2>3. QED
    BY <1>1, <1>2, <2>2 DEF CopyCurrent
<1>3. CASE ~(save # None /\ save.copy)
  <2>1. s = save
    BY <1>3 DEF Changed
  <2>2. QED
    BY <1>1, <1>3, <2>1
<1>4. QED
  BY <1>2, <1>3

\* An edit, an undo or a redo: the session stays, its content changes.
LEMMA EditKeeps ==
  ASSUME ProjectInv, Loaded, NEW c \in Nat, editor' = [editor EXCEPT !.content = c],
         history' \in History, Connects(history'.undo, history'.redo, c),
         TopSnapshot(history'), save' = Changed, opens' \in Opens, tally' \in Tally
  PROVE  ProjectInv'
<1>1. editor \in Editor /\ c \in Content
  BY NumbersAreContents DEF ProjectInv, TypeOK
<1>2. /\ editor' \in Editor /\ editor'.content = c /\ editor'.session = editor.session
      /\ editor'.v11 = editor.v11
  BY <1>1 DEF Editor
<1>3. save' \in Save \cup {None} /\ CopyCurrent'
  BY ChangedFits DEF ProjectInv, CopyCurrent
<1>4. TypeOK'
  BY <1>2, <1>3 DEF TypeOK, History, Stack, Opens, Tally
<1>5. CarriersOpen'
  BY <1>2 DEF CarriersOpen, Loaded
<1>6. HistoryConnects'
  <2>1. c # Garbage
    BY NumbersAreContents
  <2>2. QED
    BY <1>2, <2>1 DEF HistoryConnects, Connects
<1>7. TopSnapshot(history)'
  BY <1>2 DEF TopSnapshot
<1>8. QED
  BY <1>3, <1>4, <1>5, <1>6, <1>7 DEF ProjectInv

\* Another session, with an empty history.
LEMMA AdoptKeeps ==
  ASSUME ProjectInv, NEW v11 \in BOOLEAN, NEW c \in Nat, NEW path \in Path \cup {None},
         Adopts(v11, c, path), tally' = OneMore, opens' \in Opens,
         save' = Changed \/ save' = None
  PROVE  ProjectInv'
<1>1. editor \in Editor /\ c \in Content /\ None \in Content /\ tally \in Tally /\ MaxSessions \in Nat
  BY NumbersAreContents, EditorProjectAssumption DEF ProjectInv, TypeOK, Tally, Content
<1>2. tally.sessions + 1 \in Session /\ tally.sessions + 1 # Nobody /\ tally' \in Tally
  BY <1>1 DEF Adopts, OneMore, Tally, Session, Nobody
<1>3. editor' \in Editor /\ editor'.content = c /\ editor'.session # Nobody
  BY <1>1, <1>2 DEF Adopts, Editor
<1>4. save' \in Save \cup {None} /\ CopyCurrent'
  BY ChangedFits DEF ProjectInv, CopyCurrent
<1>5. history' \in History /\ Connects(history'.undo, history'.redo, c)
  BY EmptyFits DEF Adopts
<1>6. TypeOK'
  BY <1>2, <1>3, <1>4, <1>5 DEF TypeOK, History, Stack, Opens, Tally
<1>7. CarriersOpen'
  BY <1>3 DEF CarriersOpen, Loaded
<1>8. HistoryConnects'
  <2>1. c # Garbage
    BY NumbersAreContents
  <2>2. QED
    BY <1>3, <1>5, <2>1 DEF HistoryConnects, Connects
<1>9. TopSnapshot(history)'
  BY KeysApart DEF Adopts, EmptyHistory, TopSnapshot
<1>10. QED
  BY <1>4, <1>6, <1>7, <1>8, <1>9 DEF ProjectInv

\* The project stays; it may have another file, and its stacks do not move.
LEMMA SameKeeps ==
  ASSUME ProjectInv, editor' \in Editor,
         editor'.session = editor.session, editor'.v11 = editor.v11,
         editor'.content = editor.content,
         history' \in History, history'.undo = history.undo, history'.redo = history.redo,
         history'.key \in {history.key, None},
         save' \in Save \cup {None}, CopyCurrent', opens' \in Opens, tally' = tally
  PROVE  ProjectInv'
<1>1. TypeOK'
  BY DEF ProjectInv, TypeOK, History, Stack, Opens
<1>2. CarriersOpen'
  BY DEF ProjectInv, CarriersOpen, Loaded
<1>3. HistoryConnects'
  BY DEF ProjectInv, HistoryConnects, Loaded
<1>4. TopSnapshot(history)'
  BY KeysApart DEF ProjectInv, TopSnapshot
<1>5. QED
  BY <1>1, <1>2, <1>3, <1>4 DEF ProjectInv

LEMMA InitFits ==
  ASSUME Init
  PROVE  ProjectInv
<1>1. NoProject \in Editor /\ NoProject.session = Nobody /\ ~NoProject.v11
  BY DEF NoProject, Editor, Content, Nobody
<1>2. tally \in Tally
  BY EditorProjectAssumption DEF Init, Tally
<1>3. opens \in Opens
  BY DEF Init, Opens
<1>4. TypeOK
  BY <1>1, <1>2, <1>3, EmptyFits, Types DEF Init
<1>5. CarriersOpen /\ CopyCurrent /\ ~Loaded
  BY <1>1 DEF Init, CarriersOpen, CopyCurrent, Loaded
<1>6. HistoryConnects
  BY <1>5 DEF HistoryConnects
<1>7. TopSnapshot(history)
  BY KeysApart DEF Init, EmptyHistory, TopSnapshot
<1>8. QED
  BY <1>4, <1>5, <1>6, <1>7 DEF ProjectInv

LEMMA Current ==
  ASSUME ProjectInv
  PROVE  /\ editor \in Editor /\ history \in History /\ save \in Save \cup {None}
         /\ opens \in Opens /\ tally \in Tally
         /\ Loaded => Connects(history.undo, history.redo, editor.content)
<1>1. editor \in Editor /\ history \in History /\ save \in Save \cup {None}
      /\ opens \in Opens /\ tally \in Tally
  BY Types DEF ProjectInv
<1>2. QED
  BY <1>1, HistoryNow DEF ProjectInv

LEMMA EditedFits ==
  ASSUME ProjectInv, Edits
  PROVE  /\ Edited(tally.edits + 1) \in Nat
         /\ editor'.content = Edited(tally.edits + 1)
         /\ tally' \in Tally
<1>1. tally \in Tally /\ editor \in Editor
  BY Current
<1>2. tally.edits \in Nat /\ tally.edits + 1 \in 0..MaxEdits
  BY <1>1, EditorProjectAssumption DEF Edits, Tally
<1>3. tally' \in Tally
  BY <1>1, <1>2 DEF Edits, Tally
<1>4. Edited(tally.edits + 1) \in Nat
  BY <1>2, EditorProjectAssumption DEF Edited
<1>5. editor'.content = Edited(tally.edits + 1)
  BY <1>1 DEF Edits, Editor
<1>6. QED
  BY <1>3, <1>4, <1>5

LEMMA EditsKeep ==
  ASSUME ProjectInv,
         \/ \E key \in Key \cup {None} : MutateProject(key)
         \/ \E key \in SnapshotKey \cup {None} : ReplaceProject(key)
         \/ EditAsSnapshot
  PROVE  ProjectInv'
<1>1. Edits
  BY DEF MutateProject, ReplaceProject, EditAsSnapshot
<1> DEFINE c == Edited(tally.edits + 1)
<1>2. c \in Nat /\ editor'.content = c /\ tally' \in Tally
  BY <1>1, EditedFits
<1>3. editor' = [editor EXCEPT !.content = c] /\ Loaded /\ save' = Changed /\ opens' = opens
  BY <1>1 DEF Edits
<1> HIDE DEF c
<1>4. /\ history \in History /\ opens \in Opens
      /\ Connects(history.undo, history.redo, editor.content)
      /\ TopSnapshot(history) /\ editor.v11 \in BOOLEAN
  BY <1>3, Current DEF ProjectInv, Editor
<1>5. history' \in History /\ Connects(history'.undo, history'.redo, c) /\ TopSnapshot(history')
  <2>1. CASE \E key \in Key \cup {None} : MutateProject(key)
    <3>1. PICK key \in Key \cup {None} : MutateProject(key)
      BY <2>1
    <3>2. history' = WithPatch(editor.content, c, key)
      BY <1>2, <3>1 DEF MutateProject
    <3>3. QED
      BY <1>2, <1>4, <3>2, WithPatchConnects DEF TopSnapshot
  <2>2. CASE EditAsSnapshot \/ \E key \in SnapshotKey \cup {None} : ReplaceProject(key)
    <3>1. PICK atlas \in BOOLEAN, key \in SnapshotKey \cup {None} :
            history' = WithSnapshot(editor.content, atlas, key)
      BY <1>4, <2>2 DEF EditAsSnapshot, ReplaceProject
    <3>2. QED
      BY <1>2, <1>4, <3>1, WithSnapshotConnects
  <2>3. QED
    BY <2>1, <2>2
<1>6. QED
  BY <1>2, <1>3, <1>4, <1>5, EditKeeps

LEMMA NavigationKeeps ==
  ASSUME ProjectInv, Undo \/ Redo
  PROVE  ProjectInv'
<1>1. Loaded /\ save' = Changed /\ opens' = opens /\ tally' = tally
  BY DEF Undo, Redo
<1>2. /\ history \in History /\ opens \in Opens /\ tally \in Tally
      /\ Connects(history.undo, history.redo, editor.content)
  BY <1>1, Current
<1>3. \E c \in Nat : /\ editor' = [editor EXCEPT !.content = c]
                     /\ history' \in History /\ Connects(history'.undo, history'.redo, c)
                     /\ history'.key = None
  <2>1. CASE Undo
    <3> DEFINE e == Last(history.undo)
               c == IF e.kind = "patch" THEN Applied(e.to, e.from) ELSE e.from
               u == Front(history.undo)
               r == history.redo \o <<ReverseEntry(e)>>
    <3>1. editor' = [editor EXCEPT !.content = c] /\ history' = Navigated(u, r) /\ history.undo # <<>>
      BY <2>1 DEF Undo
    <3>2. u \in Stack /\ r \in Stack /\ Connects(u, r, c)
      BY <1>2, <3>1, UndoneConnects
    <3> HIDE DEF e, c, u, r
    <3>3. c \in Nat
      BY <3>2 DEF Connects
    <3>4. history' \in History /\ Connects(history'.undo, history'.redo, c) /\ history'.key = None
      BY <3>1, <3>2, NavigatedConnects
    <3>5. QED
      BY <3>1, <3>3, <3>4
  <2>2. CASE Redo
    <3> DEFINE e == Last(history.redo)
               c == IF e.kind = "patch" THEN Applied(e.from, e.to) ELSE e.from
               u == history.undo \o <<ReverseEntry(e)>>
               r == Front(history.redo)
    <3>1. editor' = [editor EXCEPT !.content = c] /\ history' = Navigated(u, r) /\ history.redo # <<>>
      BY <2>2 DEF Redo
    <3>2. u \in Stack /\ r \in Stack /\ Connects(u, r, c)
      BY <1>2, <3>1, RedoneConnects
    <3> HIDE DEF e, c, u, r
    <3>3. c \in Nat
      BY <3>2 DEF Connects
    <3>4. history' \in History /\ Connects(history'.undo, history'.redo, c) /\ history'.key = None
      BY <3>1, <3>2, NavigatedConnects
    <3>5. QED
      BY <3>1, <3>3, <3>4
  <2>3. QED
    BY <2>1, <2>2
<1>4. TopSnapshot(history')
  BY <1>3, KeysApart DEF TopSnapshot
<1>5. QED
  BY <1>1, <1>2, <1>3, <1>4, EditKeeps

LEMMA TimerKeeps ==
  ASSUME ProjectInv, TransactionFails \/ TimePasses
  PROVE  ProjectInv'
<1>1. editor' = editor /\ save' = save /\ opens' = opens /\ tally' = tally
  BY DEF TransactionFails, TimePasses
<1>2. /\ editor \in Editor /\ history \in History /\ save \in Save \cup {None}
      /\ opens \in Opens /\ CopyCurrent
  BY Current DEF ProjectInv
<1>3. /\ history' \in History /\ history'.undo = history.undo /\ history'.redo = history.redo
      /\ history'.key \in {history.key, None}
  BY <1>2 DEF TransactionFails, TimePasses, History
<1>4. CopyCurrent'
  BY <1>1, <1>2 DEF CopyCurrent
<1>5. QED
  BY <1>1, <1>2, <1>3, <1>4, SameKeeps

\* What a legacy session expands leaves its history alone.
LEMMA ToggleKeeps ==
  ASSUME ProjectInv, ToggleExpanded
  PROVE  ProjectInv'
<1>1. editor' = editor /\ history' = history /\ opens' = opens /\ tally' = tally /\ save' = Changed
  BY DEF ToggleExpanded
<1>2. editor \in Editor /\ history \in History /\ opens \in Opens
  BY Current
<1>3. save' \in Save \cup {None} /\ CopyCurrent'
  BY <1>1, ChangedFits DEF ProjectInv, CopyCurrent
<1>4. QED
  BY <1>1, <1>2, <1>3, SameKeeps

LEMMA NewContent ==
  ASSUME ProjectInv
  PROVE  tally.sessions + 1 \in Nat
BY Current, EditorProjectAssumption DEF Tally

LEMMA OpenOverTyped ==
  ASSUME ProjectInv, NEW r \in DOMAIN opens, OpenOver(r)
  PROVE  opens' \in Opens
<1> DEFINE Call == [before : Editor, waiting : BOOLEAN]
           over == [before |-> NoProject, waiting |-> FALSE]
<1>1. opens \in Seq(Call)
  BY Current DEF Opens
<1>2. over \in Call
  BY DEF NoProject, Editor, Content, Nobody
<1>3. r \in 1..Len(opens)
  BY <1>1, LenProperties
<1>4. opens' = [opens EXCEPT ![r] = over]
  BY DEF OpenOver
<1> HIDE DEF Call, over
<1>5. opens' \in Seq(Call)
  BY <1>1, <1>2, <1>3, <1>4, ExceptSeq
<1>6. QED
  BY <1>5 DEF Opens, Call

LEMMA SessionsKeep ==
  ASSUME ProjectInv,
         \/ Import
         \/ \E r \in DOMAIN opens, v11 \in BOOLEAN, path \in Path : OpenAdopts(r, v11, path)
  PROVE  ProjectInv'
<1>1. tally.sessions + 1 \in Nat /\ opens \in Opens
  BY NewContent, Current
<1>2. CASE Import
  BY <1>1, <1>2, AdoptKeeps DEF Import
<1>3. CASE \E r \in DOMAIN opens, v11 \in BOOLEAN, path \in Path : OpenAdopts(r, v11, path)
  <2>1. PICK r \in DOMAIN opens, v11 \in BOOLEAN, path \in Path : OpenAdopts(r, v11, path)
    BY <1>3
  <2>2. /\ OpenOver(r) /\ Adopts(v11, tally.sessions + 1, path) /\ tally' = OneMore
        /\ save' = Changed
    BY <2>1 DEF OpenAdopts
  <2>3. opens' \in Opens
    BY <2>2, OpenOverTyped
  <2>4. QED
    BY <1>1, <2>2, <2>3, AdoptKeeps
<1>4. QED
  BY <1>2, <1>3

LEMMA CloseKeeps ==
  ASSUME ProjectInv, Close
  PROVE  ProjectInv'
<1>1. editor \in Editor /\ opens \in Opens /\ tally \in Tally
  BY Current
<1>2. /\ save' = Changed /\ opens' = opens /\ tally' = tally /\ history' = EmptyHistory
  BY DEF Close
<1>3. editor' \in Editor /\ editor'.session = Nobody /\ ~editor'.v11
  <2> DEFINE n == IF editor.v11 THEN editor.version + 1 ELSE 0
  <2>1. n \in Nat /\ editor' = [NoProject EXCEPT !.version = n]
    BY <1>1 DEF Close, Editor
  <2> HIDE DEF n
  <2>2. QED
    BY <2>1, NoProjectTyped
<1>4. save' \in Save \cup {None} /\ CopyCurrent'
  BY <1>2, ChangedFits DEF ProjectInv, CopyCurrent
<1>5. TypeOK'
  BY <1>1, <1>2, <1>3, <1>4, EmptyFits DEF TypeOK, History, Stack, Opens, Tally
<1>6. CarriersOpen' /\ HistoryConnects'
  BY <1>3 DEF CarriersOpen, HistoryConnects, Loaded
<1>7. TopSnapshot(history)'
  BY <1>2, KeysApart DEF EmptyHistory, TopSnapshot
<1>8. QED
  BY <1>4, <1>5, <1>6, <1>7 DEF ProjectInv

LEMMA OpensKeep ==
  ASSUME ProjectInv, OpenBegins \/ \E r \in DOMAIN opens : OpenEnds(r)
  PROVE  ProjectInv'
<1>1. editor' = editor /\ history' = history /\ save' = save /\ tally' = tally
  BY DEF OpenBegins, OpenEnds
<1>2. /\ editor \in Editor /\ history \in History /\ save \in Save \cup {None}
      /\ opens \in Opens /\ CopyCurrent
  BY Current DEF ProjectInv
<1>3. opens' \in Opens
  <2>1. CASE OpenBegins
    <3>1. BeforeOpen \in Editor
      BY <1>2 DEF BeforeOpen, Editor, Content
    <3>2. QED
      BY <1>2, <2>1, <3>1 DEF OpenBegins, Opens
  <2>2. CASE \E r \in DOMAIN opens : OpenEnds(r)
    BY <2>2, OpenOverTyped DEF OpenEnds
  <2>3. QED
    BY <2>1, <2>2
<1>4. CopyCurrent'
  BY <1>1, <1>2 DEF CopyCurrent
<1>5. QED
  BY <1>1, <1>2, <1>3, <1>4, SameKeeps

LEMMA SaveBeginsKeeps ==
  ASSUME ProjectInv, CopyBegins \/ \E as \in BOOLEAN : SaveBegins(as)
  PROVE  ProjectInv'
<1>1. editor' = editor /\ history' = history /\ opens' = opens /\ tally' = tally /\ Loaded
  BY DEF SaveBegins, CopyBegins
<1>2. editor \in Editor /\ history \in History /\ opens \in Opens /\ editor.content # Garbage
  BY <1>1, Current DEF ProjectInv, HistoryConnects
<1>3. save' \in Save \cup {None} /\ CopyCurrent'
  <2>1. CASE \E as \in BOOLEAN : SaveBegins(as)
    <3>1. PICK as \in BOOLEAN : SaveBegins(as)
      BY <2>1
    <3>2. BeforeSave(as) \in Editor
      BY <1>2 DEF BeforeSave, Editor, Content
    <3>3. save' = [copy |-> FALSE, before |-> BeforeSave(as), same |-> TRUE]
      BY <3>1 DEF SaveBegins
    <3>4. QED
      BY <3>2, <3>3 DEF Save, CopyCurrent
  <2>2. CASE CopyBegins
    <3>1. /\ BeforeCopy \in Editor /\ BeforeCopy.content = editor.content
          /\ BeforeCopy.session = editor.session
      BY <1>2 DEF BeforeCopy, Editor, Content
    <3>2. save' = [copy |-> TRUE, before |-> BeforeCopy, same |-> TRUE]
      BY <2>2 DEF CopyBegins
    <3>3. QED
      BY <1>1, <1>2, <3>1, <3>2 DEF Save, CopyCurrent
  <2>3. QED
    BY <2>1, <2>2
<1>4. QED
  BY <1>1, <1>2, <1>3, SameKeeps

LEMMA SaveEndsKeeps ==
  ASSUME ProjectInv, SaveEnds \/ \E path \in Path : SaveCompletes(path)
  PROVE  /\ ProjectInv'
         /\ editor'.session = editor.session /\ editor'.v11 = editor.v11
         /\ editor'.content = editor.content
<1>1. history' = history /\ opens' = opens /\ tally' = tally /\ save # None /\ save' = None
  BY DEF SaveEnds, SaveCompletes
<1>2. /\ editor \in Editor /\ history \in History /\ save \in Save /\ opens \in Opens
  BY <1>1, Current
<1>3. /\ editor' \in Editor /\ editor'.session = editor.session /\ editor'.v11 = editor.v11
      /\ editor'.content = editor.content
  <2>1. CASE SaveEnds
    BY <1>2, <2>1 DEF SaveEnds
  <2>2. CASE \E path \in Path : SaveCompletes(path)
    <3>1. PICK path \in Path : SaveCompletes(path)
      BY <2>2
    <3>2. save.before.content \in Content
      BY <1>2 DEF Save, Editor
    <3>3. CASE MarksSaved(path)
      BY <1>2, <3>2, <3>3 DEF MarksSaved, Editor
    <3>4. CASE NamesFile(path)
      BY <1>2, <3>4 DEF NamesFile, Editor
    <3>5. QED
      BY <3>1, <3>3, <3>4 DEF SaveCompletes
  <2>3. QED
    BY <2>1, <2>2
<1>4. save' \in Save \cup {None} /\ CopyCurrent'
  BY <1>1 DEF CopyCurrent
<1>5. QED
  BY <1>1, <1>2, <1>3, <1>4, SameKeeps

LEMMA CopyEndsKeeps ==
  ASSUME ProjectInv, NEW path \in Path, CopyCompletes(path)
  PROVE  ProjectInv' /\ editor'.content = editor.content
<1>1. save # None /\ save.copy /\ save' = None /\ opens' = opens
  BY DEF CopyCompletes
<1>2. /\ editor \in Editor /\ history \in History /\ save \in Save /\ opens \in Opens /\ tally \in Tally
  BY <1>1, Current
<1>3. save.before.content # Garbage
      /\ (save.same => editor.content = save.before.content)
  BY <1>1 DEF ProjectInv, CopyCurrent
<1>4. CASE CopyAdopted
  <2>1. Adopts(TRUE, save.before.content, path) /\ tally' = OneMore
    BY <1>4 DEF CopyCompletes
  <2>2. save.before.content \in Content
    BY <1>2 DEF Save, Editor
  <2>3. save.before.content \in Nat
    BY <1>3, <2>2, NumbersAreContents
  <2>4. ProjectInv'
    BY <1>1, <1>2, <2>1, <2>3, AdoptKeeps
  <2>5. editor'.content = editor.content
    BY <1>3, <1>4, <2>1 DEF Adopts, CopyAdopted
  <2>6. QED
    BY <2>4, <2>5
<1>5. CASE ~CopyAdopted
  <2>1. editor' = editor /\ history' = history /\ tally' = tally
    BY <1>5 DEF CopyCompletes
  <2>2. CopyCurrent'
    BY <1>1 DEF CopyCurrent
  <2>3. QED
    BY <1>1, <1>2, <2>1, <2>2, SameKeeps
<1>6. QED
  BY <1>4, <1>5

LEMMA StepKeeps ==
  ASSUME ProjectInv, [Next]_vars
  PROVE  ProjectInv'
<1>1. CASE \/ \E key \in Key \cup {None} : MutateProject(key)
           \/ \E key \in SnapshotKey \cup {None} : ReplaceProject(key)
           \/ EditAsSnapshot
  BY <1>1, EditsKeep
<1>2. CASE TransactionFails \/ TimePasses
  BY <1>2, TimerKeeps
<1>3. CASE Undo \/ Redo
  BY <1>3, NavigationKeeps
<1>4. CASE OpenBegins \/ \E r \in DOMAIN opens : OpenEnds(r)
  BY <1>4, OpensKeep
<1>5. CASE \/ Import
           \/ \E r \in DOMAIN opens, v11 \in BOOLEAN, path \in Path : OpenAdopts(r, v11, path)
  BY <1>5, SessionsKeep
<1>6. CASE Close
  BY <1>6, CloseKeeps
<1>7. CASE CopyBegins \/ \E as \in BOOLEAN : SaveBegins(as)
  BY <1>7, SaveBeginsKeeps
<1>8. CASE SaveEnds \/ \E path \in Path : SaveCompletes(path)
  BY <1>8, SaveEndsKeeps
<1>9. CASE \E path \in Path : CopyCompletes(path)
  BY <1>9, CopyEndsKeeps
<1>10. CASE UNCHANGED vars
  BY <1>10 DEF vars, ProjectInv, TypeOK, CarriersOpen, CopyCurrent, HistoryConnects, Loaded,
               UndoConnects, RedoConnects, TopSnapshot
<1>11. CASE ToggleExpanded
  BY <1>11, ToggleKeeps
<1>12. QED
  BY <1>1, <1>2, <1>3, <1>4, <1>5, <1>6, <1>7, <1>8, <1>9, <1>10, <1>11 DEF Next

\* Whatever is edited, undone, opened, saved, copied or closed in any order, the
\* project is typed, its history connects, and a copy that may become the
\* project has its content.
THEOREM ProjectInvariant == Spec => []ProjectInv
<1>1. Init => ProjectInv
  BY InitFits
<1>2. ProjectInv /\ [Next]_vars => ProjectInv'
  BY StepKeeps
<1>3. QED
  BY <1>1, <1>2, PTL DEF Spec

\* Every variable of the editor keeps its type.
THEOREM ProjectTyped == Spec => []TypeOK
<1>1. ProjectInv => TypeOK
  BY DEF ProjectInv
<1>2. QED
  BY <1>1, ProjectInvariant, PTL

\* However far one undoes or redoes, every patch meets the project it was made
\* on, for a history of any length and any bounds that drop entries from it
\* (historyStore.ts, boundedV11History and restoreHistory).
THEOREM HistoryAlwaysConnects == Spec => []HistoryConnects
<1>1. ProjectInv => HistoryConnects
  BY DEF ProjectInv
<1>2. QED
  BY <1>1, ProjectInvariant, PTL

-----------------------------------------------------------------------------
(* What ends late.                                                           *)

\* The step is one of those that end a save.
LEMMA SaveOverBy ==
  ASSUME ProjectInv, [Next]_vars, SaveOver
  PROVE  \/ SaveEnds \/ \E path \in Path : SaveCompletes(path)
         \/ \E path \in Path : CopyCompletes(path)
<1>1. save # None /\ save' = None
  BY DEF SaveOver
<1>2. Changed # None
  BY <1>1, ChangedFits DEF ProjectInv
<1>3. save' # save /\ save' # Changed
  BY <1>1, <1>2
<1>4. ~UNCHANGED vars
  BY <1>3 DEF vars
<1>5. ~ \E key \in Key \cup {None} : MutateProject(key)
  BY <1>3 DEF MutateProject, Edits
<1>6. ~EditAsSnapshot /\ ~ \E key \in SnapshotKey \cup {None} : ReplaceProject(key)
  BY <1>3 DEF EditAsSnapshot, ReplaceProject, Edits
<1>7. ~(ToggleExpanded \/ TransactionFails \/ TimePasses \/ Undo \/ Redo \/ OpenBegins
          \/ Import \/ Close)
  BY <1>3 DEF ToggleExpanded, TransactionFails, TimePasses, Undo, Redo, OpenBegins, Import, Close
<1>8. ~ \E r \in DOMAIN opens :
          OpenEnds(r) \/ \E v11 \in BOOLEAN, path \in Path : OpenAdopts(r, v11, path)
  BY <1>3 DEF OpenEnds, OpenAdopts
<1>9. ~(CopyBegins \/ \E as \in BOOLEAN : SaveBegins(as))
  BY <1>1 DEF CopyBegins, SaveBegins
<1>10. QED
  BY <1>4, <1>5, <1>6, <1>7, <1>8, <1>9 DEF Next

LEMMA SaveOverKeepsContent ==
  ASSUME ProjectInv, [Next]_vars, SaveOver
  PROVE  editor'.content = editor.content
BY SaveOverBy, SaveEndsKeeps, CopyEndsKeeps

LEMMA SaveOverKeepsV11 ==
  ASSUME ProjectInv, [Next]_vars, SaveOver, editor.v11, editor.session # save.before.session
  PROVE  editor' = editor
<1>1. CASE SaveEnds
  BY <1>1 DEF SaveEnds
<1>2. CASE \E path \in Path : SaveCompletes(path)
  <2>1. Carrier(editor) # save.before.session
    BY DEF Carrier
  <2>2. QED
    BY <1>2, <2>1 DEF SaveCompletes, MarksSaved, NamesFile
<1>3. CASE \E path \in Path : CopyCompletes(path)
  <2>1. save # None /\ save.copy /\ ~save.same
    BY <1>3 DEF CopyCompletes, ProjectInv, CopyCurrent
  <2>2. QED
    BY <1>3, <2>1 DEF CopyCompletes, CopyAdopted
<1>4. QED
  BY <1>1, <1>2, <1>3, SaveOverBy

\* Only a load that still finds the carrier it began with replaces a v11 session.
LEMMA OpenReplacesOwn ==
  ASSUME ProjectInv, [Next]_vars, NEW r \in DOMAIN opens, OpenReplaced(r), editor.v11
  PROVE  editor.session = opens[r].before.session
<1>1. opens[r].waiting /\ opens'[r] # opens[r] /\ editor'.session # editor.session
  BY DEF OpenReplaced
<1>2. opens \in Opens /\ editor.session # Nobody
  BY Current DEF ProjectInv, CarriersOpen, Loaded
<1>3. opens' # opens /\ editor' # editor
  BY <1>1
<1>4. PICK q \in DOMAIN opens, v11 \in BOOLEAN, path \in Path : OpenAdopts(q, v11, path)
  <2>1. ~UNCHANGED vars
    BY <1>3 DEF vars
  <2>2. ~ \E key \in Key \cup {None} : MutateProject(key)
    BY <1>3 DEF MutateProject, Edits
  <2>3. ~EditAsSnapshot /\ ~ \E key \in SnapshotKey \cup {None} : ReplaceProject(key)
    BY <1>3 DEF EditAsSnapshot, ReplaceProject, Edits
  <2>4. ~(ToggleExpanded \/ TransactionFails \/ TimePasses \/ Undo \/ Redo \/ OpenBegins
            \/ Import \/ Close)
    BY <1>3 DEF ToggleExpanded, TransactionFails, TimePasses, Undo, Redo, OpenBegins, Import, Close
  <2>5. ~(CopyBegins \/ SaveEnds \/ \E as \in BOOLEAN : SaveBegins(as))
    BY <1>3 DEF CopyBegins, SaveBegins, SaveEnds
  <2>6. ~ \E path \in Path : SaveCompletes(path) \/ CopyCompletes(path)
    BY <1>3 DEF SaveCompletes, CopyCompletes
  <2>7. ~ \E q \in DOMAIN opens : OpenEnds(q)
    BY <1>3 DEF OpenEnds
  <2>8. QED
    BY <2>1, <2>2, <2>3, <2>4, <2>5, <2>6, <2>7 DEF Next
<1>5. q = r
  <2>1. opens' = [opens EXCEPT ![q] = [before |-> NoProject, waiting |-> FALSE]]
    BY <1>4 DEF OpenAdopts, OpenOver
  <2>2. q # r => opens'[r] = opens[r]
    BY <2>1
  <2>3. QED
    BY <1>1, <2>2
<1>6. Carrier(opens[r].before) = Carrier(editor)
  BY <1>4, <1>5 DEF OpenAdopts, StillFresh
<1>7. QED
  BY <1>2, <1>6 DEF Carrier

\* What ends late changes nothing in a v11 session it was not begun in, and no
\* save takes an edit back, for any number of sessions and waiting loads
\* (viviFile.ts, markProjectV11Saved and the carrier that loadProject compares).
THEOREM LateEndsKeepSessions == Spec => LateEndsKeepV11
<1>1. ASSUME ProjectInv, [Next]_vars
      PROVE  [/\ SaveOver =>
                   /\ editor'.content = editor.content
                   /\ editor.v11 /\ editor.session # save.before.session => editor' = editor
              /\ \A r \in DOMAIN opens :
                   OpenReplaced(r) /\ editor.v11 => editor.session = opens[r].before.session]_vars
  BY <1>1, SaveOverKeepsContent, SaveOverKeepsV11, OpenReplacesOwn
<1>2. QED
  BY <1>1, ProjectInvariant, PTL DEF Spec, LateEndsKeepV11
=============================================================================
