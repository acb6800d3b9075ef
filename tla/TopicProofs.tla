----------------------------- MODULE TopicProofs -----------------------------
(* Lemmas about topics, for words of any characters: a topic is taken      *)
(* apart into the name and the location it was assembled from.             *)
EXTENDS Topic, SequenceTheorems, TLAPS

Has(word, ch) == \E i \in DOMAIN word : word[i] = ch

(* A word is split at the first of its separators.                         *)
LEMMA SplitAtFirst ==
    ASSUME NEW C, NEW a \in Seq(C), NEW b \in Seq(C), NEW ch \in C, ~Has(a, ch)
    PROVE  /\ Before(a \o (<<ch>> \o b), ch) = a
           /\ After(a \o (<<ch>> \o b), ch) = b
<1> DEFINE one  == <<ch>>
           rest == one \o b
           w    == a \o rest
           n    == Len(a)
<1>1. n \in Nat /\ Len(b) \in Nat /\ DOMAIN a = 1 .. n
  BY LenProperties
<1>2. one \in Seq(C) /\ Len(one) = 1 /\ one[1] = ch
  OBVIOUS
<1> HIDE DEF one
<1>3. /\ rest \in Seq(C) /\ Len(rest) = 1 + Len(b) /\ rest[1] = ch
      /\ \A i \in 1 .. Len(b) : rest[i + 1] = b[i]
  <2>1. /\ rest \in Seq(C) /\ Len(rest) = 1 + Len(b)
        /\ \A i \in 1 .. 1 + Len(b) : rest[i] = IF i <= 1 THEN one[i] ELSE b[i - 1]
    <3>1. /\ rest \in Seq(C) /\ Len(rest) = Len(one) + Len(b)
          /\ \A i \in 1 .. Len(one) + Len(b) :
                rest[i] = IF i <= Len(one) THEN one[i] ELSE b[i - Len(one)]
      BY <1>2, ConcatProperties
    <3>2. QED
      BY <1>2, <3>1
  <2>2. rest[1] = ch
    BY <1>1, <1>2, <2>1
  <2>3. ASSUME NEW i \in 1 .. Len(b)
        PROVE  rest[i + 1] = b[i]
    <3>1. i + 1 \in 1 .. 1 + Len(b) /\ ~(i + 1 <= 1) /\ (i + 1) - 1 = i
      BY <1>1
    <3>2. QED
      BY <2>1, <3>1
  <2>4. QED
    BY <2>1, <2>2, <2>3
<1> HIDE DEF rest
<1>4. /\ w \in Seq(C) /\ Len(w) = n + 1 + Len(b) /\ DOMAIN w = 1 .. n + 1 + Len(b)
      /\ \A i \in 1 .. n : w[i] = a[i]
      /\ w[n + 1] = ch
      /\ \A i \in 1 .. Len(b) : w[n + 1 + i] = b[i]
  <2>1. /\ w \in Seq(C) /\ Len(w) = n + (1 + Len(b))
        /\ \A i \in 1 .. n + (1 + Len(b)) : w[i] = IF i <= n THEN a[i] ELSE rest[i - n]
    <3>1. /\ w \in Seq(C) /\ Len(w) = Len(a) + Len(rest)
          /\ \A i \in 1 .. Len(a) + Len(rest) :
                w[i] = IF i <= Len(a) THEN a[i] ELSE rest[i - Len(a)]
      <4>1. rest \in Seq(C)
        BY <1>3
      <4>2. QED
        BY <4>1, ConcatProperties
    <3>2. QED
      BY <1>3, <3>1
  <2>2. DOMAIN w = 1 .. Len(w)
    BY <2>1, LenProperties
  <2> HIDE DEF w
  <2>3. \A i \in 1 .. n : w[i] = a[i]
    BY <1>1, <2>1
  <2>4. w[n + 1] = ch
    <3>1. n + 1 \in 1 .. n + (1 + Len(b)) /\ ~(n + 1 <= n) /\ (n + 1) - n = 1
      BY <1>1
    <3>2. QED
      BY <1>3, <2>1, <3>1
  <2>5. ASSUME NEW i \in 1 .. Len(b)
        PROVE  w[n + 1 + i] = b[i]
    <3>1. /\ n + 1 + i \in 1 .. n + (1 + Len(b)) /\ ~(n + 1 + i <= n)
          /\ (n + 1 + i) - n = i + 1
      BY <1>1
    <3>2. QED
      BY <1>3, <2>1, <3>1
  <2>6. QED
    BY <1>1, <2>1, <2>2, <2>3, <2>4, <2>5
<1> HIDE DEF w
<1>5. (CHOOSE i \in DOMAIN w : w[i] = ch /\ \A j \in 1 .. i - 1 : w[j] # ch) = n + 1
  <2>1. /\ n + 1 \in DOMAIN w
        /\ w[n + 1] = ch /\ \A j \in 1 .. (n + 1) - 1 : w[j] # ch
    <3>1. \A j \in 1 .. n : w[j] # ch
      BY <1>1, <1>4 DEF Has
    <3>2. n + 1 \in 1 .. n + 1 + Len(b) /\ (n + 1) - 1 = n
      BY <1>1
    <3>3. QED
      BY <1>4, <3>1, <3>2
  <2>2. ASSUME NEW i \in DOMAIN w, w[i] = ch, \A j \in 1 .. i - 1 : w[j] # ch
        PROVE  i = n + 1
    <3>1. i \in 1 .. n + 1 + Len(b)
      BY <1>4
    <3>2. CASE i < n + 1
      <4>1. i \in 1 .. n
        BY <1>1, <3>1, <3>2
      <4>2. QED
        BY <1>1, <1>4, <2>2, <4>1 DEF Has
    <3>3. CASE i > n + 1
      <4>1. n + 1 \in 1 .. i - 1
        BY <1>1, <3>1, <3>3
      <4>2. QED
        BY <1>4, <2>2, <4>1
    <3>4. QED
      BY <1>1, <3>1, <3>2, <3>3
  <2>3. QED
    BY <2>1, <2>2
<1>6. Before(w, ch) = SubSeq(w, 1, n)
  <2>1. (n + 1) - 1 = n
    BY <1>1
  <2> HIDE DEF n
  <2>2. QED
    BY <1>5, <2>1 DEF Before
<1>7. SubSeq(w, 1, n) = a
  <2>1. \A i \in 1 .. n : w[i] \in C
    BY <1>1, <1>4
  <2>2. /\ SubSeq(w, 1, n) \in Seq(C)
        /\ Len(SubSeq(w, 1, n)) = IF 1 <= n THEN n - 1 + 1 ELSE 0
        /\ \A i \in 1 .. n - 1 + 1 : SubSeq(w, 1, n)[i] = w[1 + i - 1]
    BY <1>1, <2>1, SubSeqProperties
  <2>3. Len(SubSeq(w, 1, n)) = n
    BY <1>1, <2>2
  <2>4. \A i \in 1 .. n : SubSeq(w, 1, n)[i] = a[i]
    <3>1. \A i \in 1 .. n : i \in 1 .. n - 1 + 1 /\ 1 + i - 1 = i
      BY <1>1
    <3>2. QED
      BY <1>4, <2>2, <3>1
  <2>5. QED
    BY <1>1, <2>2, <2>3, <2>4, SeqEqual
<1>8. After(w, ch) = SubSeq(w, n + 2, Len(w))
  BY <1>6, <1>7 DEF After
<1>9. SubSeq(w, n + 2, Len(w)) = b
  <2> DEFINE m == n + 2
             z == n + 1 + Len(b)
  <2>1. \A i \in m .. z : w[i] \in C
    BY <1>1, <1>4, LenProperties
  <2>2. m \in Int /\ z \in Int
    BY <1>1
  <2>3. /\ SubSeq(w, m, z) \in Seq(C)
        /\ Len(SubSeq(w, m, z)) = IF m <= z THEN z - m + 1 ELSE 0
        /\ \A i \in 1 .. z - m + 1 : SubSeq(w, m, z)[i] = w[m + i - 1]
    <3> HIDE DEF m, z
    <3>1. QED
      BY <2>1, <2>2, SubSeqProperties
  <2>4. Len(SubSeq(w, m, z)) = Len(b)
    BY <1>1, <2>3
  <2>5. ASSUME NEW i \in 1 .. Len(b)
        PROVE  SubSeq(w, m, z)[i] = b[i]
    <3>1. i \in 1 .. z - m + 1 /\ m + i - 1 = n + 1 + i
      BY <1>1
    <3>2. QED
      BY <1>4, <2>3, <3>1
  <2>6. SubSeq(w, m, z) = b
    BY <2>3, <2>4, <2>5, SeqEqual
  <2>7. QED
    BY <1>4, <2>6
<1>10. QED
  BY <1>6, <1>7, <1>8, <1>9 DEF w, rest, one

Words(Character) == Separator \cup {"1"} \subseteq Character

(* The topic of a unit: name, "@", location, "/", "1".                     *)
LEMMA TopicParts ==
    ASSUME NEW C, Words(C), NEW s \in Seq(C), NEW l \in Seq(C)
    PROVE  /\ AssembleBaseStorageTopic(s, l) = s \o (<<"@">> \o (l \o (<<"/">> \o <<"1">>)))
           /\ l \o (<<"/">> \o <<"1">>) \in Seq(C)
<1> DEFINE at  == <<"@">>
           end == <<"/", "1">>
<1>1. at \in Seq(C) /\ end \in Seq(C)
  BY DEF Words, Separator
<1>2. end = <<"/">> \o <<"1">>
  OBVIOUS
<1> HIDE DEF at, end
<1>3. l \o end \in Seq(C) /\ s \o at \in Seq(C)
  BY <1>1, ConcatProperties
<1>4. \A a, b, c \in Seq(C) : (a \o b) \o c = a \o (b \o c)
  <2>1. TAKE a, b, c \in Seq(C)
  <2>2. QED
    BY SMT
<1>5. /\ ((s \o at) \o l) \o end = (s \o at) \o (l \o end)
      /\ (s \o at) \o (l \o end) = s \o (at \o (l \o end))
  <2>1. \A b, c \in Seq(C) : (s \o b) \o c = s \o (b \o c)
    BY <1>4, Zenon
  <2>2. (s \o at) \o (l \o end) = s \o (at \o (l \o end))
    BY <1>1, <1>3, <2>1, Zenon
  <2>3. \A b, c \in Seq(C) : ((s \o at) \o b) \o c = (s \o at) \o (b \o c)
    BY <1>3, <1>4, Zenon
  <2>4. ((s \o at) \o l) \o end = (s \o at) \o (l \o end)
    BY <1>1, <2>3, Zenon
  <2>5. QED
    BY <2>2, <2>4
<1>6. AssembleBaseStorageTopic(s, l) = ((s \o at) \o l) \o end
  BY DEF AssembleBaseStorageTopic, at, end
<1>7. QED
  BY <1>2, <1>3, <1>4, <1>5, <1>6 DEF at

(* What precedes the first "@" is the name, if it does not contain one.    *)
LEMMA NameOfTopic ==
    ASSUME NEW C, Words(C), NEW s \in Seq(C), NEW l \in Seq(C), ~Has(s, "@")
    PROVE  Before(AssembleBaseStorageTopic(s, l), "@") = s
<1> DEFINE tail == l \o (<<"/">> \o <<"1">>)
<1>1. AssembleBaseStorageTopic(s, l) = s \o (<<"@">> \o tail) /\ tail \in Seq(C)
  BY TopicParts
<1>2. "@" \in C
  BY DEF Words, Separator
<1> HIDE DEF tail
<1>3. QED
  BY <1>1, <1>2, SplitAtFirst

(* Taking a topic apart gives the name and the location it is made of, if  *)
(* these do not contain the separators that end them.                      *)
LEMMA PartsOfTopic ==
    ASSUME NEW C, Words(C), NEW s \in Seq(C), NEW l \in Seq(C),
           ~Has(s, "@"), ~Has(l, "@"), ~Has(l, "/")
    PROVE  DisassembleBaseStorageTopic(AssembleBaseStorageTopic(s, l)) =
               [storage |-> s, location |-> l]
<1> DEFINE topic == AssembleBaseStorageTopic(s, l)
           one   == <<"1">>
           end   == <<"/">> \o one
           tail  == l \o end
<1>1. topic = s \o (<<"@">> \o tail) /\ tail \in Seq(C)
  BY TopicParts
<1>2. {"@", "/"} \subseteq C /\ one \in Seq(C) /\ end \in Seq(C)
  BY DEF Words, Separator
<1>3. \A i \in DOMAIN tail : tail[i] # "@"
  <2>1. Len(end) = 2 /\ end[1] = "/" /\ end[2] = "1"
    OBVIOUS
  <2> HIDE DEF end
  <2>2. /\ Len(tail) = Len(l) + 2 /\ DOMAIN tail = 1 .. Len(tail)
        /\ \A i \in 1 .. Len(l) + 2 :
              tail[i] = IF i <= Len(l) THEN l[i] ELSE end[i - Len(l)]
    <3>1. /\ Len(tail) = Len(l) + Len(end)
          /\ \A i \in 1 .. Len(l) + Len(end) :
                tail[i] = IF i <= Len(l) THEN l[i] ELSE end[i - Len(l)]
      BY <1>2, ConcatProperties
    <3>2. DOMAIN tail = 1 .. Len(tail)
      BY <1>1, LenProperties
    <3>3. QED
      BY <2>1, <3>1, <3>2
  <2> HIDE DEF tail
  <2>3. Len(l) \in Nat /\ DOMAIN l = 1 .. Len(l)
    BY LenProperties
  <2>4. ASSUME NEW i \in 1 .. Len(l) + 2
        PROVE  tail[i] # "@"
    <3>1. CASE i <= Len(l)
      <4>1. i \in DOMAIN l
        BY <2>3, <3>1
      <4>2. QED
        BY <2>2, <3>1, <4>1 DEF Has
    <3>2. CASE ~(i <= Len(l))
      <4>1. i - Len(l) = 1 \/ i - Len(l) = 2
        BY <2>3, <3>2
      <4>2. QED
        BY <2>1, <2>2, <3>2, <4>1
    <3>3. QED
      BY <3>1, <3>2
  <2>5. QED
    BY <2>2, <2>4
<1>4. Before(tail, "/") = l
  <2> HIDE DEF one
  <2>1. QED
    BY <1>2, SplitAtFirst
<1> HIDE DEF topic, tail
<1>5. Before(topic, "@") = s /\ After(topic, "@") = tail
  BY <1>1, <1>2, SplitAtFirst
<1>6. Joined(After(topic, "@"), "@") = tail
  BY <1>3, <1>5 DEF Joined
<1>7. DisassembleBaseStorageTopic(topic) = [storage |-> s, location |-> l]
  BY <1>4, <1>5, <1>6 DEF DisassembleBaseStorageTopic
<1>8. QED
  BY <1>7 DEF topic
=============================================================================
