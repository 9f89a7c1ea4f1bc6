-------------------------- MODULE PeerNames_proofs --------------------------
(***************************************************************************)
(* When the names of Peers are unique, and that they are never too long.   *)
(***************************************************************************)
EXTENDS PeerNames, SequenceTheorems, NaturalsInduction, WellFoundedInduction, TLAPS

\* The names Kubernetes lets objects have, and clusters in a ClusterMesh: plain at both
\* ends, dashes and dots between.
DNSName(s) ==
    /\ s \in Seq(Plain \cup {Dash, Dot})
    /\ s # <<>> /\ s[1] \in Plain /\ s[Len(s)] \in Plain

\* The separator is not in it.
Single(s) == \A i \in 1..(Len(s) - 1) : ~(s[i] = Dash /\ s[i + 1] = Dash)

\* What is known of the characters.
Alphabet ==
    /\ Dash \notin Plain /\ Dot \notin Plain
    /\ \A c \in Plain \cup {Dash, Dot} : ToLower(c) = c

\* The text z is x, the separator and y.
Joined(z, x, y) ==
    /\ Len(z) = Len(x) + 2 + Len(y)
    /\ \A i \in 1..Len(x) : z[i] = x[i]
    /\ z[Len(x) + 1] = Dash /\ z[Len(x) + 2] = Dash
    /\ \A i \in 1..Len(y) : z[Len(x) + 2 + i] = y[i]

\* That is what concatenation gives.
LEMMA JoinedFacts ==
    ASSUME NEW S, Dash \in S, NEW x \in Seq(S), NEW y \in Seq(S)
    PROVE  Join(x, y) \in Seq(S) /\ Joined(Join(x, y), x, y)
  <1>1. Len(x) \in Nat /\ Len(y) \in Nat
    OBVIOUS
  <1>2. Len(x \o <<Dash, Dash>> \o y) = Len(x) + 2 + Len(y)
    OBVIOUS
  <1>3. \A i \in 1..Len(x) : (x \o <<Dash, Dash>> \o y)[i] = x[i]
    OBVIOUS
  <1>4. /\ (x \o <<Dash, Dash>> \o y)[Len(x) + 1] = Dash
        /\ (x \o <<Dash, Dash>> \o y)[Len(x) + 2] = Dash
    OBVIOUS
  <1>5. \A i \in 1..Len(y) : (x \o <<Dash, Dash>> \o y)[Len(x) + 2 + i] = y[i]
    BY <1>1
  <1> QED BY <1>2, <1>3, <1>4, <1>5 DEF Join, Joined

\* A name without the separator cannot go on where another one ends.
LEMMA NotLonger ==
    ASSUME Alphabet, NEW z, NEW x, NEW y, DNSName(x), DNSName(y), Single(y),
           NEW u \in Seq(Plain \cup {Dash, Dot}), NEW v \in Seq(Plain \cup {Dash, Dot}),
           Joined(z, x, u), Joined(z, y, v), Len(x) < Len(y)
    PROVE  FALSE
  <1>1. Len(x) \in Nat /\ Len(y) \in Nat
    BY DEF DNSName
  <1>2. z[Len(x) + 1] = Dash /\ z[Len(x) + 2] = Dash
    BY DEF Joined
  <1>3. y[Len(x) + 1] = Dash
    BY <1>1, <1>2 DEF Joined
  <1>4. CASE Len(x) + 1 = Len(y)
    BY <1>3, <1>4 DEF DNSName, Alphabet
  <1>5. CASE Len(x) + 1 < Len(y)
    <2>1. y[Len(x) + 2] = Dash
      <3>1. Len(x) + 2 \in 1..Len(y)
        BY <1>1, <1>5
      <3> QED BY <1>2, <3>1 DEF Joined
    <2>2. Len(x) + 1 \in 1..(Len(y) - 1) /\ (Len(x) + 1) + 1 = Len(x) + 2
      BY <1>1, <1>5
    <2> QED BY <1>3, <2>1, <2>2 DEF Single
  <1> QED BY <1>1, <1>4, <1>5

\* If two texts begin with names without the separator and the separator after them,
\* the names are the same, and so is what follows.
LEMMA SplitUnique ==
    ASSUME Alphabet, NEW a, NEW b, DNSName(a), DNSName(b), Single(a), Single(b),
           NEW r \in Seq(Plain \cup {Dash, Dot}), NEW q \in Seq(Plain \cup {Dash, Dot}),
           Join(a, r) = Join(b, q)
    PROVE  a = b /\ r = q
  <1> DEFINE S == Plain \cup {Dash, Dot}
  <1>1. a \in Seq(S) /\ b \in Seq(S) /\ r \in Seq(S) /\ q \in Seq(S) /\ Dash \in S
    BY DEF DNSName
  <1>2. PICK z : Joined(z, a, r) /\ Joined(z, b, q)
    <2> HIDE DEF S
    <2>1. Joined(Join(a, r), a, r) /\ Joined(Join(b, q), b, q)
      BY <1>1, JoinedFacts
    <2> QED BY <2>1
  <1>3. Len(a) \in Nat /\ Len(b) \in Nat /\ Len(r) \in Nat /\ Len(q) \in Nat
    BY <1>1
  <1>4. Len(a) = Len(b)
    <2>1. ~(Len(a) < Len(b))
      BY <1>2, NotLonger
    <2>2. ~(Len(b) < Len(a))
      BY <1>2, NotLonger
    <2> QED BY <1>3, <2>1, <2>2
  <1>5. \A i \in 1..Len(a) : a[i] = b[i]
    BY <1>2, <1>4 DEF Joined
  <1>6. Len(r) = Len(q) /\ \A i \in 1..Len(r) : r[i] = q[i]
    BY <1>2, <1>3, <1>4 DEF Joined
  <1>7. ASSUME NEW x \in Seq(S), NEW y \in Seq(S), Len(x) = Len(y), \A i \in 1..Len(x) : x[i] = y[i]
        PROVE  x = y
    BY <1>7, SeqEqual
  <1> HIDE DEF S
  <1>8. a = b
    BY <1>1, <1>4, <1>5, <1>7
  <1>9. r = q
    BY <1>1, <1>6, <1>7
  <1> QED BY <1>8, <1>9

\* The raw name tells mesh, cluster and node, if mesh and cluster are without separator.
LEMMA RawUnique ==
    ASSUME Alphabet,
           NEW m1, NEW c1, NEW n1, DNSName(m1), DNSName(c1), DNSName(n1), Single(m1), Single(c1),
           NEW m2, NEW c2, NEW n2, DNSName(m2), DNSName(c2), DNSName(n2), Single(m2), Single(c2),
           Raw(m1, c1, n1) = Raw(m2, c2, n2)
    PROVE  m1 = m2 /\ c1 = c2 /\ n1 = n2
  <1>1. Join(c1, n1) \in Seq(Plain \cup {Dash, Dot}) /\ Join(c2, n2) \in Seq(Plain \cup {Dash, Dot})
    BY JoinedFacts DEF DNSName
  <1>2. m1 = m2 /\ Join(c1, n1) = Join(c2, n2)
    BY <1>1, SplitUnique DEF Raw
  <1>3. n1 \in Seq(Plain \cup {Dash, Dot}) /\ n2 \in Seq(Plain \cup {Dash, Dot})
    BY DEF DNSName
  <1> QED BY <1>2, <1>3, SplitUnique

\* sanitizeDNS changes nothing in a raw name made of such names.
LEMMA RawClean ==
    ASSUME Alphabet, NEW m, NEW c, NEW n, DNSName(m), DNSName(c), DNSName(n)
    PROVE  /\ Raw(m, c, n) \in Seq(Plain \cup {Dash, Dot})
           /\ sanitizeDNS(Raw(m, c, n)) = Raw(m, c, n)
  <1> DEFINE S == Plain \cup {Dash, Dot}
             z == Raw(m, c, n)
  <1>1. Join(c, n) \in Seq(S) /\ Joined(Join(c, n), c, n)
    BY JoinedFacts DEF DNSName
  <1>2. z \in Seq(S) /\ Joined(z, m, Join(c, n))
    BY <1>1, JoinedFacts DEF DNSName, Raw
  <1>3. /\ Len(m) \in Nat \ {0} /\ Len(c) \in Nat \ {0} /\ Len(n) \in Nat \ {0}
        /\ m[1] \in Plain /\ n[Len(n)] \in Plain
    BY DEF DNSName
  <1> HIDE DEF z
  <1>4. Len(z) \in Nat \ {0} /\ DOMAIN z = 1..Len(z)
    BY <1>1, <1>2, <1>3 DEF Joined
  <1>5. z[1] \in Plain
    BY <1>2, <1>3 DEF Joined
  <1>6. z[Len(z)] \in Plain
    <2>1. Len(Join(c, n)) = Len(c) + 2 + Len(n) /\ Join(c, n)[Len(c) + 2 + Len(n)] = n[Len(n)]
      BY <1>1, <1>3 DEF Joined
    <2>2. Len(z) = Len(m) + 2 + Len(Join(c, n)) /\ z[Len(m) + 2 + Len(Join(c, n))] = Join(c, n)[Len(Join(c, n))]
      BY <1>2, <1>3, <2>1 DEF Joined
    <2> QED BY <1>3, <2>1, <2>2
  <1>7. [i \in 1..Len(z) |-> Written(z[i])] = z
    <2>1. \A i \in 1..Len(z) : z[i] \in S
      BY <1>2
    <2>2. \A i \in 1..Len(z) : Written(z[i]) = z[i]
      BY <2>1 DEF Written, Alphabet
    <2> QED BY <1>2, <2>2
  <1>8. 1 \in Solid(z) /\ Len(z) \in Solid(z) /\ \A i \in Solid(z) : 1 <= i /\ i <= Len(z)
    BY <1>4, <1>5, <1>6 DEF Solid, Alphabet
  <1>9. (CHOOSE i \in Solid(z) : \A j \in Solid(z) : i <= j) = 1
    BY <1>4, <1>8 DEF Solid
  <1>10. (CHOOSE i \in Solid(z) : \A j \in Solid(z) : j <= i) = Len(z)
    BY <1>4, <1>8 DEF Solid
  <1>11. SubSeq(z, 1, Len(z)) = z
    BY <1>2
  <1>12. TrimLeft(z) = z /\ TrimRight(z) = z
    BY <1>8, <1>9, <1>10, <1>11 DEF TrimLeft, TrimRight
  <1> QED BY <1>2, <1>7, <1>12 DEF sanitizeDNS, z

\* What is known of the hash: the length of its text, and that a name has room for it.
HashFits ==
    /\ HashLength \in Nat /\ maxNameLength \in Nat /\ HashLength + 1 < maxNameLength
    /\ \A r \in Seq(Plain \cup {Dash, Dot}) : Hash(r) \in Seq(Plain) /\ Len(Hash(r)) = HashLength

\* A set of numbers has a least member.
LEMMA LeastNumber ==
    ASSUME NEW T, T \subseteq Nat, T # {}
    PROVE  \E x \in T : \A y \in T : x <= y
  <1> DEFINE R == OpToRel(<, Nat)
  <1>1. IsWellFoundedOn(R, Nat)
    BY NatLessThanWellFounded
  <1>2. \A a, b \in Nat : a < b => <<a, b>> \in R
    BY DEF OpToRel
  <1> HIDE DEF R
  <1>3. PICK x \in T : \A y \in T : ~(<<y, x>> \in R)
    BY <1>1, WFMin
  <1>4. \A y \in T : ~(y < x)
    BY <1>2, <1>3
  <1> QED BY <1>4

\* strings.TrimRight leaves a beginning of a text that begins with a plain character.
LEMMA TrimRightFacts ==
    ASSUME Alphabet, NEW t \in Seq(Plain \cup {Dash, Dot}), t # <<>>, t[1] \in Plain
    PROVE  TrimRight(t) \in Seq(Plain \cup {Dash, Dot}) /\ Len(TrimRight(t)) <= Len(t)
  <1>1. Len(t) \in Nat \ {0} /\ DOMAIN t = 1..Len(t)
    OBVIOUS
  <1>2. 1 \in Solid(t) /\ Solid(t) \subseteq 1..Len(t)
    BY <1>1 DEF Solid, Alphabet
  <1> DEFINE D == {k \in Nat : \E i \in Solid(t) : i + k = Len(t)}
  <1>3. D # {}
    <2>1. Len(t) - 1 \in Nat /\ 1 + (Len(t) - 1) = Len(t)
      BY <1>1
    <2> QED BY <1>2, <2>1
  <1>4. PICK k \in D : \A j \in D : k <= j
    <2>1. D \subseteq Nat
      OBVIOUS
    <2> HIDE DEF D
    <2> QED BY <1>3, <2>1, LeastNumber
  <1>5. PICK i \in Solid(t) : i + k = Len(t)
    BY <1>4
  <1>6. \A j \in Solid(t) : j <= i
    <2> SUFFICES ASSUME NEW j \in Solid(t)  PROVE j <= i
      OBVIOUS
    <2>1. Len(t) - j \in Nat /\ j + (Len(t) - j) = Len(t) /\ j \in Nat /\ i \in Nat
      BY <1>1, <1>2
    <2>2. k <= Len(t) - j
      BY <1>4, <2>1
    <2>3. k \in Nat /\ Len(t) \in Nat
      BY <1>1
    <2>4. \A a, b, c, l \in Nat : a + b = l /\ b <= l - c => c <= a
      OBVIOUS
    <2> HIDE DEF D
    <2> QED BY <1>5, <2>1, <2>2, <2>3, <2>4
  <1> DEFINE last == CHOOSE x \in Solid(t) : \A j \in Solid(t) : j <= x
  <1>7. last \in Solid(t)
    BY <1>6
  <1> HIDE DEF last
  <1>8. last \in 1..Len(t)
    BY <1>2, <1>7
  <1>9. TrimRight(t) = SubSeq(t, 1, last)
    BY <1>2 DEF TrimRight, last
  <1> QED BY <1>1, <1>8, <1>9

\* A name that is too long is cut to this beginning of it.
LEMMA CutFacts ==
    ASSUME Alphabet, HashFits, NEW z \in Seq(Plain \cup {Dash, Dot}), z[1] \in Plain,
           maxNameLength < Len(z)
    PROVE  LET cut == TrimRight(SubSeq(z, 1, maxNameLength - (HashLength + 1)))
           IN  cut \in Seq(Plain \cup {Dash, Dot}) /\ Len(cut) <= maxNameLength - (HashLength + 1)
  <1> DEFINE room == maxNameLength - (HashLength + 1)
  <1>1. room \in Nat \ {0} /\ room < Len(z) /\ Len(z) \in Nat
    BY DEF HashFits
  <1> HIDE DEF room
  <1>2. /\ SubSeq(z, 1, room) \in Seq(Plain \cup {Dash, Dot})
        /\ Len(SubSeq(z, 1, room)) = room /\ SubSeq(z, 1, room)[1] = z[1]
    BY <1>1
  <1>3. SubSeq(z, 1, room) # <<>>
    BY <1>1, <1>2
  <1>4. /\ TrimRight(SubSeq(z, 1, room)) \in Seq(Plain \cup {Dash, Dot})
        /\ Len(TrimRight(SubSeq(z, 1, room))) <= room
    BY <1>2, <1>3, TrimRightFacts
  <1> QED BY <1>4 DEF room

\* A raw name begins with a plain character.
LEMMA RawStart ==
    ASSUME NEW m, NEW c, NEW n, DNSName(m), DNSName(c), DNSName(n)
    PROVE  Raw(m, c, n)[1] \in Plain
  <1>1. Join(c, n) \in Seq(Plain \cup {Dash, Dot})
    BY JoinedFacts DEF DNSName
  <1>2. Joined(Raw(m, c, n), m, Join(c, n))
    BY <1>1, JoinedFacts DEF DNSName, Raw
  <1> QED BY <1>2 DEF Joined, DNSName

\* Name never returns more characters than Kubernetes allows, for names that Kubernetes
\* lets objects have.
THEOREM NamesFit ==
    ASSUME Alphabet, HashFits, NEW m, NEW c, NEW n, DNSName(m), DNSName(c), DNSName(n)
    PROVE  Len(Name(m, c, n)) <= maxNameLength
  <1> DEFINE z == Raw(m, c, n)
             cut == TrimRight(SubSeq(z, 1, maxNameLength - (HashLength + 1)))
  <1>1. z \in Seq(Plain \cup {Dash, Dot}) /\ sanitizeDNS(z) = z /\ z[1] \in Plain
    BY RawClean, RawStart
  <1>2. CASE Len(z) <= maxNameLength
    BY <1>1, <1>2 DEF Name
  <1>3. CASE ~(Len(z) <= maxNameLength)
    <2>1. maxNameLength < Len(z)
      BY <1>1, <1>3 DEF HashFits
    <2>2. Name(m, c, n) = cut \o <<Dash>> \o Hash(z)
      BY <1>1, <1>3 DEF Name
    <2>3. cut \in Seq(Plain \cup {Dash, Dot}) /\ Len(cut) <= maxNameLength - (HashLength + 1)
      BY <1>1, <2>1, CutFacts
    <2>4. Hash(z) \in Seq(Plain \cup {Dash, Dot}) /\ Len(Hash(z)) = HashLength
      BY <1>1 DEF HashFits
    <2> HIDE DEF cut, z
    <2>5. Len(cut \o <<Dash>> \o Hash(z)) = Len(cut) + 1 + HashLength
      BY <2>3, <2>4
    <2> QED BY <2>2, <2>3, <2>5 DEF HashFits
  <1> QED BY <1>2, <1>3

\* Equal texts that end in a dash and as many characters end in the same ones.
LEMMA SameEnd ==
    ASSUME NEW S, Dash \in S, NEW x \in Seq(S), NEW y \in Seq(S), NEW g \in Seq(S), NEW h \in Seq(S),
           Len(g) = Len(h), x \o <<Dash>> \o g = y \o <<Dash>> \o h
    PROVE  g = h
  <1>1. Len(x) \in Nat /\ Len(y) \in Nat /\ Len(g) \in Nat
    OBVIOUS
  <1>2. /\ Len(x \o <<Dash>> \o g) = Len(x) + 1 + Len(g)
        /\ Len(y \o <<Dash>> \o h) = Len(y) + 1 + Len(h)
    <2>1. \A u, v \in Seq(S) : Len(u \o <<Dash>> \o v) = Len(u) + 1 + Len(v)
      OBVIOUS
    <2> QED BY <2>1, Zenon
  <1>3. Len(x) = Len(y)
    BY <1>1, <1>2
  <1>4. \A i \in 1..Len(g) : (x \o <<Dash>> \o g)[Len(x) + 1 + i] = g[i]
    BY <1>1
  <1>5. \A i \in 1..Len(h) : (y \o <<Dash>> \o h)[Len(y) + 1 + i] = h[i]
    BY <1>1
  <1>6. \A i \in 1..Len(g) : g[i] = h[i]
    BY <1>3, <1>4, <1>5
  <1> QED BY <1>6, SeqEqual

\* The text z ends in a dash and the hash of w.
EndsInHash(z, w) == \E y \in Seq(Plain \cup {Dash, Dot}) : z = y \o <<Dash>> \o Hash(w)

\* Of two texts the shortened names stay apart: the hash tells the texts apart if both
\* are too long, and the one that fits does not end in the hash of the other.
HashApart(z, w) ==
    /\ maxNameLength < Len(z) /\ maxNameLength < Len(w) /\ Hash(z) = Hash(w) => z = w
    /\ Len(z) <= maxNameLength /\ maxNameLength < Len(w) => ~EndsInHash(z, w)
    /\ Len(w) <= maxNameLength /\ maxNameLength < Len(z) => ~EndsInHash(w, z)

\* What Name returns for names that Kubernetes lets objects have.
LEMMA NameFacts ==
    ASSUME Alphabet, HashFits, NEW m, NEW c, NEW n, DNSName(m), DNSName(c), DNSName(n)
    PROVE  LET z == Raw(m, c, n)
           IN /\ Len(z) <= maxNameLength \/ maxNameLength < Len(z)
              /\ Len(z) <= maxNameLength => Name(m, c, n) = z
              /\ maxNameLength < Len(z) =>
                    \E y \in Seq(Plain \cup {Dash, Dot}) : Name(m, c, n) = y \o <<Dash>> \o Hash(z)
              /\ Hash(z) \in Seq(Plain \cup {Dash, Dot}) /\ Len(Hash(z)) = HashLength
  <1> DEFINE z == Raw(m, c, n)
             cut == TrimRight(SubSeq(z, 1, maxNameLength - (HashLength + 1)))
  <1>1. z \in Seq(Plain \cup {Dash, Dot}) /\ sanitizeDNS(z) = z /\ z[1] \in Plain
    BY RawClean, RawStart
  <1>2. Len(z) \in Nat /\ maxNameLength \in Nat
    BY <1>1 DEF HashFits
  <1>3. Len(z) <= maxNameLength => Name(m, c, n) = z
    BY <1>1 DEF Name
  <1>4. ASSUME maxNameLength < Len(z)
        PROVE  \E y \in Seq(Plain \cup {Dash, Dot}) : Name(m, c, n) = y \o <<Dash>> \o Hash(z)
    <2>1. cut \in Seq(Plain \cup {Dash, Dot})
      BY <1>1, <1>4, CutFacts
    <2>2. ~(Len(z) <= maxNameLength)
      BY <1>2, <1>4
    <2>3. Name(m, c, n) = cut \o <<Dash>> \o Hash(z)
      BY <1>1, <2>2 DEF Name
    <2> HIDE DEF cut, z
    <2> QED BY <2>1, <2>3
  <1>5. Hash(z) \in Seq(Plain \cup {Dash, Dot}) /\ Len(Hash(z)) = HashLength
    BY <1>1 DEF HashFits
  <1>6. Len(z) <= maxNameLength \/ maxNameLength < Len(z)
    BY <1>2
  <1> QED BY <1>3, <1>4, <1>5, <1>6, Zenon

\* Name is as unique as its comment says on names without the separator in them: two
\* nodes get the same name only if they are one, as long as shortening keeps their names
\* apart.
THEOREM NameUnique ==
    ASSUME Alphabet, HashFits,
           NEW m1, NEW c1, NEW n1, DNSName(m1), DNSName(c1), DNSName(n1), Single(m1), Single(c1),
           NEW m2, NEW c2, NEW n2, DNSName(m2), DNSName(c2), DNSName(n2), Single(m2), Single(c2),
           HashApart(Raw(m1, c1, n1), Raw(m2, c2, n2)),
           Name(m1, c1, n1) = Name(m2, c2, n2)
    PROVE  m1 = m2 /\ c1 = c2 /\ n1 = n2
  <1> DEFINE z1 == Raw(m1, c1, n1)
             z2 == Raw(m2, c2, n2)
             S == Seq(Plain \cup {Dash, Dot})
             name == Name(m1, c1, n1)
  <1>1. /\ Len(z1) <= maxNameLength \/ maxNameLength < Len(z1)
        /\ Len(z1) <= maxNameLength => name = z1
        /\ maxNameLength < Len(z1) => \E y \in S : name = y \o <<Dash>> \o Hash(z1)
        /\ Hash(z1) \in S /\ Len(Hash(z1)) = HashLength
    BY NameFacts
  <1>2. /\ Len(z2) <= maxNameLength \/ maxNameLength < Len(z2)
        /\ Len(z2) <= maxNameLength => name = z2
        /\ maxNameLength < Len(z2) => \E y \in S : name = y \o <<Dash>> \o Hash(z2)
        /\ Hash(z2) \in S /\ Len(Hash(z2)) = HashLength
    BY NameFacts
  <1>3. HashApart(z1, z2)
    OBVIOUS
  <1> HIDE DEF z1, z2, name
  <1>4. z1 = z2
    <2>1. CASE Len(z1) <= maxNameLength /\ Len(z2) <= maxNameLength
      BY <1>1, <1>2, <2>1
    <2>2. CASE Len(z1) <= maxNameLength /\ maxNameLength < Len(z2)
      BY <1>1, <1>2, <1>3, <2>2 DEF HashApart, EndsInHash
    <2>3. CASE maxNameLength < Len(z1) /\ Len(z2) <= maxNameLength
      BY <1>1, <1>2, <1>3, <2>3 DEF HashApart, EndsInHash
    <2>4. CASE maxNameLength < Len(z1) /\ maxNameLength < Len(z2)
      <3>1. PICK y1 \in S : name = y1 \o <<Dash>> \o Hash(z1)
        BY <1>1, <2>4
      <3>2. PICK y2 \in S : name = y2 \o <<Dash>> \o Hash(z2)
        BY <1>2, <2>4
      <3>3. Hash(z1) = Hash(z2)
        BY <1>1, <1>2, <3>1, <3>2, SameEnd
      <3> QED BY <1>3, <2>4, <3>3 DEF HashApart
    <2> QED BY <1>1, <1>2, <2>1, <2>2, <2>3, <2>4
  <1> QED BY <1>4, RawUnique DEF z1, z2

=============================================================================
