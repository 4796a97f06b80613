-------------------------- MODULE MountpointsProofs --------------------------
(***************************************************************************)
(* However many file systems are mounted and unmounted during a scrape,    *)
(* the labels of what was left alone are right, and of the plain ones      *)
(* nothing is missing that could be measured: MountpointsInv is inductive. *)
(***************************************************************************)
EXTENDS Mountpoints, SequenceTheorems, WellFoundedInduction, TLAPS

(* The least and the greatest of some positions.                           *)
LEMMA LeastPosition ==
  ASSUME NEW T, T \subseteq Nat, T # {}
  PROVE  \E x \in T : \A y \in T : x <= y
<1>1. PICK x \in T : \A y \in T : <<y, x>> \notin OpToRel(<, Nat)
  BY NatLessThanWellFounded, WFMin
<1>2. \A y \in T : ~(y < x)
  BY <1>1 DEF OpToRel
<1> QED
  BY <1>2

LEMMA GreatestPosition ==
  ASSUME NEW n \in Nat, NEW T, T \subseteq 1..n, T # {}
  PROVE  Max(T) \in T /\ \A j \in T : j <= Max(T)
<1> DEFINE D == {n - i : i \in T}
<1>1. D \subseteq Nat /\ D # {}
  <2>1. \A i \in T : n - i \in Nat
    OBVIOUS
  <2> QED
    BY <2>1
<1>2. PICK d \in D : \A e \in D : d <= e
  BY <1>1, LeastPosition
<1>3. PICK i \in T : d = n - i
  BY <1>2
<1>4. \A j \in T : n - i <= n - j
  BY <1>2, <1>3
<1>5. \A j \in T : i >= j
  BY <1>4
<1>6. Max(T) \in T /\ \A j \in T : Max(T) >= j
  BY <1>5 DEF Max
<1> QED
  BY <1>6

(* Type and source stand behind the first dash.                            *)
LEMMA ParsedAtDash ==
  ASSUME NEW f, NEW n \in Nat, DOMAIN f = 1..n, Len(f) = n,
         NEW k \in 6..(n - 2), f[k] = "-", \A i \in 1..(k - 1) : f[i] # "-"
  PROVE  ParseLine(f) = {[MountPoint |-> f[5], FsType |-> f[k + 1], Source |-> f[k + 2]]}
<1> DEFINE dashes == {i \in DOMAIN f : f[i] = "-"}
           fields(at) == {[MountPoint |-> f[5], FsType |-> f[at + 1], Source |-> f[at + 2]]}
<1>1. k \in dashes /\ \A j \in dashes : k <= j
  OBVIOUS
<1>2. Min(dashes) = k
  BY <1>1 DEF Min
<1>3. ParseLine(f) = IF dashes = {} \/ Len(f) < 5 THEN {}
                     ELSE IF Min(dashes) + 2 > Len(f) THEN {} ELSE fields(Min(dashes))
  BY Zenon DEF ParseLine
<1> HIDE DEF dashes, fields
<1>4. dashes # {} /\ ~(Len(f) < 5) /\ ~(Min(dashes) + 2 > Len(f))
  BY <1>1, <1>2
<1>5. ParseLine(f) = fields(k)
  BY <1>2, <1>3, <1>4
<1> QED
  BY <1>5 DEF fields

(* A line of mountinfo yields the mount it stands for, with its optional   *)
(* field and without.                                                      *)
LEMMA LineParsed ==
  ASSUME NEW m \in Mount
  PROVE  ParseLine(Line(m)) = {Entry(m)}
<1> DEFINE V == {"id", "parent", "major:minor", "/", Written[m.point], "rw", "shared:1",
                 "-", m.fs[1], m.fs[2]}
           a == <<"id", "parent", "major:minor", "/", Written[m.point], "rw">>
           b == IF m.point = Root THEN <<"shared:1">> ELSE <<>>
           c == <<"-", m.fs[1], m.fs[2], "rw">>
           ab == a \o b
<1>1. Written[m.point] # "-"
  BY MountpointsAssumption DEF Mount, MountpointsAssumption
<1>2. a \in Seq(V) /\ b \in Seq(V) /\ c \in Seq(V)
  <2>1. /\ {"id", "parent", "major:minor", "/", Written[m.point], "rw"} \subseteq V
        /\ {"shared:1"} \subseteq V /\ {"-", m.fs[1], m.fs[2], "rw"} \subseteq V
    OBVIOUS
  <2> HIDE DEF V
  <2>2. a \in Seq(V)
    BY <2>1
  <2>3. b \in Seq(V)
    BY <2>1
  <2>4. c \in Seq(V)
    BY <2>1
  <2> QED
    BY <2>2, <2>3, <2>4
<1>3. Len(a) = 6 /\ Len(b) \in {0, 1} /\ Len(c) = 4
  OBVIOUS
<1>4. \A i \in 1..6 : a[i] # "-"
  BY <1>1
<1>5. \A i \in 1..Len(b) : b[i] # "-"
  OBVIOUS
<1>6. c[1] = "-" /\ c[2] = m.fs[1] /\ c[3] = m.fs[2] /\ a[5] = Written[m.point]
  OBVIOUS
<1>7. Line(m) = ab \o c
  BY DEF Line
<1> HIDE DEF a, b, c, V
<1>8. /\ ab \in Seq(V) /\ Len(ab) = 6 + Len(b)
      /\ \A i \in 1..Len(ab) : ab[i] = IF i <= 6 THEN a[i] ELSE b[i - 6]
  <2>1. /\ a \o b \in Seq(V) /\ Len(a \o b) = Len(a) + Len(b)
        /\ \A i \in 1..(Len(a) + Len(b)) :
             (a \o b)[i] = IF i <= Len(a) THEN a[i] ELSE b[i - Len(a)]
    BY <1>2, ConcatProperties, Zenon
  <2> QED
    BY <1>3, <2>1
<1> HIDE DEF ab
<1> DEFINE f == ab \o c
<1>9. /\ f \in Seq(V) /\ Len(f) = Len(ab) + 4
      /\ \A i \in 1..(Len(ab) + 4) : f[i] = IF i <= Len(ab) THEN ab[i] ELSE c[i - Len(ab)]
  <2>1. /\ ab \o c \in Seq(V) /\ Len(ab \o c) = Len(ab) + Len(c)
        /\ \A i \in 1..(Len(ab) + Len(c)) :
             (ab \o c)[i] = IF i <= Len(ab) THEN ab[i] ELSE c[i - Len(ab)]
    BY <1>2, <1>8, ConcatProperties, Zenon
  <2> QED
    BY <1>3, <2>1
<1> HIDE DEF f
<1> DEFINE k == Len(ab) + 1
<1>10. k \in {7, 8} /\ Len(f) = k + 3 /\ DOMAIN f = 1..Len(f)
  BY <1>3, <1>8, <1>9, LenProperties
<1>11. /\ f[k] = "-" /\ f[k + 1] = m.fs[1] /\ f[k + 2] = m.fs[2]
       /\ f[5] = Written[m.point]
  BY <1>3, <1>6, <1>8, <1>9, <1>10
<1>12. \A i \in 1..(k - 1) : f[i] # "-"
  BY <1>3, <1>4, <1>5, <1>8, <1>9, <1>10
<1> HIDE DEF k
<1>13. ParseLine(f) = {[MountPoint |-> f[5], FsType |-> f[k + 1], Source |-> f[k + 2]]}
  BY <1>10, <1>11, <1>12, ParsedAtDash
<1> QED
  BY <1>7, <1>11, <1>13 DEF Entry, f

-----------------------------------------------------------------------------
(* The positions at which something is mounted.                            *)
LEMMA TopOfMounted ==
  ASSUME mounts \in Seq(Mount), NEW p, IsMounted(p)
  PROVE  /\ Max(On(p)) \in DOMAIN mounts /\ mounts[Max(On(p))].point = p
         /\ mounts[Max(On(p))] \in Mount
         /\ \A j \in On(p) : j <= Max(On(p))
<1>1. On(p) \subseteq 1..Len(mounts) /\ On(p) # {} /\ Len(mounts) \in Nat
      /\ DOMAIN mounts = 1..Len(mounts)
  BY LenProperties DEF On, IsMounted
<1>2. Max(On(p)) \in On(p) /\ \A j \in On(p) : j <= Max(On(p))
  BY <1>1, GreatestPosition
<1>3. \A i \in 1..Len(mounts) : mounts[i] \in Mount
  BY ElementOfSeq
<1> QED
  BY <1>1, <1>2, <1>3 DEF On

(* What the map has after a read of mountinfo.                             *)
LEMMA MapOfMounts ==
  ASSUME mounts \in Seq(Mount), NEW M, M = IndexMounts(ParseMountInfo)
  PROVE  /\ \A t \in DOMAIN M : \E m \in Mount : t = Written[m.point] /\ M[t] = Entry(m)
         /\ \A p \in Points :
              /\ IsMounted(p) <=> Written[p] \in DOMAIN M
              /\ IsMounted(p) => M[Written[p]] = Entry(mounts[Max(On(p))])
<1> DEFINE E == {[at |-> i, entry |-> Entry(mounts[i])] : i \in DOMAIN mounts}
           same(t) == {e \in E : e.entry.MountPoint = t}
           top(t) == CHOOSE e \in same(t) : \A f \in same(t) : f.at <= e.at
<1>1. \A i \in DOMAIN mounts : mounts[i] \in Mount /\ mounts[i].point \in Points
  <2>1. \A i \in 1..Len(mounts) : mounts[i] \in Mount
    BY ElementOfSeq
  <2>2. DOMAIN mounts = 1..Len(mounts)
    BY LenProperties
  <2> QED
    BY <2>1, <2>2 DEF Mount
<1>2. ParseMountInfo = E
  <2>1. \A i \in DOMAIN mounts : ParseLine(Line(mounts[i])) = {Entry(mounts[i])}
    BY <1>1, LineParsed
  <2> QED
    BY <2>1 DEF ParseMountInfo
<1>3. /\ DOMAIN M = {e.entry.MountPoint : e \in E}
      /\ \A t \in DOMAIN M : M[t] = top(t).entry
  BY <1>2 DEF IndexMounts
<1>4. ASSUME NEW p \in Points
      PROVE  IsMounted(p) <=> Written[p] \in DOMAIN M
  <2>1. \A i \in DOMAIN mounts : Written[mounts[i].point] = Written[p] <=> mounts[i].point = p
    BY <1>1, MountpointsAssumption DEF MountpointsAssumption
  <2>2. Written[p] \in DOMAIN M <=> \E e \in E : e.entry.MountPoint = Written[p]
    BY <1>3
  <2>3. \A e \in E : \E i \in DOMAIN mounts : e.entry.MountPoint = Written[mounts[i].point]
    BY DEF Entry
  <2>4. ASSUME NEW i \in DOMAIN mounts
        PROVE  \E e \in E : e.entry.MountPoint = Written[mounts[i].point]
    <3>1. [at |-> i, entry |-> Entry(mounts[i])] \in E
      OBVIOUS
    <3>2. [at |-> i, entry |-> Entry(mounts[i])].entry.MountPoint = Written[mounts[i].point]
      BY DEF Entry
    <3> HIDE DEF E
    <3> QED
      BY <3>1, <3>2
  <2> HIDE DEF E
  <2> QED
    BY <2>1, <2>2, <2>3, <2>4 DEF IsMounted, On
<1>5. ASSUME NEW p \in Points, IsMounted(p)
      PROVE  M[Written[p]] = Entry(mounts[Max(On(p))])
  <2> DEFINE i == Max(On(p))
             e == [at |-> i, entry |-> Entry(mounts[i])]
  <2>1. /\ i \in DOMAIN mounts /\ mounts[i].point = p /\ \A j \in On(p) : j <= i
    BY <1>5, TopOfMounted
  <2>2. same(Written[p]) = {[at |-> j, entry |-> Entry(mounts[j])] : j \in On(p)}
    <3>1. \A j \in DOMAIN mounts : Entry(mounts[j]).MountPoint = Written[p] <=> j \in On(p)
      BY <1>1, MountpointsAssumption DEF MountpointsAssumption, Entry, On
    <3>2. On(p) \subseteq DOMAIN mounts
      BY DEF On
    <3> QED
      BY <3>1, <3>2
  <2>3. On(p) \subseteq Nat /\ i \in On(p)
    BY <2>1, LenProperties DEF On
  <2> HIDE DEF i, same
  <2>4. e \in same(Written[p]) /\ \A f \in same(Written[p]) : f.at <= e.at
    BY <2>1, <2>2, <2>3
  <2>5. /\ top(Written[p]) \in same(Written[p])
        /\ \A f \in same(Written[p]) : f.at <= top(Written[p]).at
    BY <2>4
  <2> DEFINE chosen == top(Written[p])
  <2>6. PICK j \in On(p) : chosen = [at |-> j, entry |-> Entry(mounts[j])]
    BY <2>2, <2>5
  <2>7. chosen.entry = Entry(mounts[i])
    <3>1. j <= i /\ i <= j
      BY <2>1, <2>4, <2>5, <2>6
    <3>2. j = i
      BY <2>3, <3>1
    <3> HIDE DEF chosen
    <3> QED
      BY <2>6, <3>2
  <2> QED
    BY <1>3, <1>4, <1>5, <2>7 DEF i
<1>6. ASSUME NEW t \in DOMAIN M
      PROVE  \E m \in Mount : t = Written[m.point] /\ M[t] = Entry(m)
  <2>1. PICK j \in DOMAIN mounts : t = Written[mounts[j].point]
    BY <1>3, <1>6 DEF Entry
  <2> DEFINE p == mounts[j].point
  <2>2. p \in Points /\ IsMounted(p)
    BY <1>1 DEF IsMounted, On
  <2>3. mounts[Max(On(p))].point = p /\ mounts[Max(On(p))] \in Mount
    BY <2>2, TopOfMounted
  <2> QED
    BY <1>5, <2>1, <2>2, <2>3
<1> QED
  BY <1>4, <1>5, <1>6

(* What is on top of a mountpoint stays there, wherever it moves in the    *)
(* list.                                                                   *)
LEMMA TopKept ==
  ASSUME mounts \in Seq(Mount), mounts' \in Seq(Mount),
         NEW q, NEW sh \in [On(q) -> Nat], On(q)' = {sh[i] : i \in On(q)},
         \A i \in On(q) : mounts'[sh[i]] = mounts[i],
         \A i, j \in On(q) : i <= j => sh[i] <= sh[j]
  PROVE  /\ IsMounted(q)' <=> IsMounted(q)
         /\ IsMounted(q) => mounts'[Max(On(q)')] = mounts[Max(On(q))]
<1>1. IsMounted(q)' <=> IsMounted(q)
  BY DEF IsMounted
<1>2. ASSUME IsMounted(q) PROVE mounts'[Max(On(q)')] = mounts[Max(On(q))]
  <2> DEFINE x == Max(On(q))
             T == On(q)'
  <2>1. x \in On(q) /\ \A j \in On(q) : j <= x
    BY <1>2, TopOfMounted DEF On
  <2>2. T \subseteq Nat
    OBVIOUS
  <2> HIDE DEF x, T
  <2>3. sh[x] \in T /\ \A j \in T : sh[x] >= j
    <3>1. \A j \in On(q) : sh[x] \in Nat /\ sh[j] \in Nat /\ sh[j] <= sh[x]
      BY <2>1
    <3> QED
      BY <2>1, <3>1 DEF T
  <2>4. Max(T) \in T /\ \A j \in T : Max(T) >= j
    BY <2>3 DEF Max
  <2>5. Max(T) = sh[x]
    <3>1. Max(T) >= sh[x] /\ sh[x] >= Max(T)
      BY <2>3, <2>4
    <3>2. Max(T) \in Nat /\ sh[x] \in Nat
      BY <2>2, <2>3, <2>4
    <3> QED
      BY <3>1, <3>2
  <2> QED
    BY <2>1, <2>5 DEF x, T
<1> QED
  BY <1>1, <1>2

(* A mount or an unmount disturbs no other mountpoint.                     *)
LEMMA MountKeepsOthers ==
  ASSUME mounts \in Seq(Mount), NEW p \in Points, NEW fs \in FileSystems, MountOn(p, fs),
         NEW q, q # p
  PROVE  /\ mounts' \in Seq(Mount)
         /\ IsMounted(q)' <=> IsMounted(q)
         /\ IsMounted(q) => mounts'[Max(On(q)')] = mounts[Max(On(q))]
<1> DEFINE m == [point |-> p, fs |-> fs]
           n == Len(mounts)
           sh == [i \in On(q) |-> i]
<1>1. m \in Mount /\ mounts' = Append(mounts, m)
  BY DEF MountOn, Mount
<1>2. /\ n \in Nat /\ DOMAIN mounts = 1..n
      /\ mounts' \in Seq(Mount) /\ DOMAIN mounts' = 1..(n + 1)
      /\ mounts'[n + 1] = m /\ \A i \in 1..n : mounts'[i] = mounts[i]
  BY <1>1, AppendProperties, LenProperties
<1>3. On(q)' = On(q) /\ On(q) \subseteq 1..n
  BY <1>2 DEF On
<1>4. sh \in [On(q) -> Nat] /\ On(q)' = {sh[i] : i \in On(q)}
  BY <1>2, <1>3
<1>5. \A i \in On(q) : mounts'[sh[i]] = mounts[i]
  BY <1>2, <1>3
<1> QED
  BY <1>2, <1>4, <1>5, TopKept

LEMMA UnmountKeepsOthers ==
  ASSUME mounts \in Seq(Mount), NEW p \in Points, Unmount(p), NEW q, q # p
  PROVE  /\ mounts' \in Seq(Mount)
         /\ IsMounted(q)' <=> IsMounted(q)
         /\ IsMounted(q) => mounts'[Max(On(q)')] = mounts[Max(On(q))]
<1> DEFINE n == Len(mounts)
           top == Max(On(p))
           s == SubSeq(mounts, 1, top - 1)
           u == SubSeq(mounts, top + 1, n)
           sh == [i \in On(q) |-> IF i < top THEN i ELSE i - 1]
<1>1. mounts' = s \o u
  BY DEF Unmount
<1>2. n \in Nat /\ DOMAIN mounts = 1..n /\ \A i \in 1..n : mounts[i] \in Mount
  BY LenProperties, ElementOfSeq
<1>3. top \in 1..n /\ top \notin On(q)
  BY <1>2, TopOfMounted DEF Unmount, On
<1> HIDE DEF n, top
<1>4. /\ s \in Seq(Mount) /\ Len(s) = top - 1
      /\ \A i \in 1..(top - 1) : s[i] = mounts[i]
  <2>1. \A i \in 1..(top - 1) : mounts[i] \in Mount
    BY <1>2, <1>3
  <2>2. /\ s \in Seq(Mount) /\ Len(s) = IF 1 <= top - 1 THEN (top - 1) - 1 + 1 ELSE 0
        /\ \A i \in 1..((top - 1) - 1 + 1) : s[i] = mounts[1 + i - 1]
    BY <1>3, <2>1, SubSeqProperties
  <2> HIDE DEF s
  <2> QED
    BY <1>3, <2>2
<1>5. /\ u \in Seq(Mount) /\ Len(u) = n - top
      /\ \A i \in 1..(n - top) : u[i] = mounts[top + i]
  <2>1. \A i \in (top + 1)..n : mounts[i] \in Mount
    BY <1>2, <1>3
  <2>2. /\ u \in Seq(Mount) /\ Len(u) = IF top + 1 <= n THEN n - (top + 1) + 1 ELSE 0
        /\ \A i \in 1..(n - (top + 1) + 1) : u[i] = mounts[(top + 1) + i - 1]
    BY <1>2, <1>3, <2>1, SubSeqProperties
  <2> HIDE DEF u
  <2>3. n - (top + 1) + 1 = n - top /\ (top + 1 <= n \/ n - top = 0)
    BY <1>2, <1>3
  <2>4. \A i \in 1..(n - top) : (top + 1) + i - 1 = top + i
    BY <1>2, <1>3
  <2>5. Len(u) = n - top
    BY <1>2, <1>3, <2>2, <2>3
  <2> QED
    BY <2>2, <2>3, <2>4, <2>5
<1> HIDE DEF s, u
<1>6. /\ mounts' \in Seq(Mount) /\ Len(mounts') = Len(s) + Len(u)
      /\ \A i \in 1..(Len(s) + Len(u)) :
           mounts'[i] = IF i <= Len(s) THEN s[i] ELSE u[i - Len(s)]
  BY <1>1, <1>4, <1>5, ConcatProperties
<1>7. /\ DOMAIN mounts' = 1..(n - 1)
      /\ \A i \in 1..(n - 1) : mounts'[i] = IF i < top THEN mounts[i] ELSE mounts[i + 1]
  <2>1. DOMAIN mounts' = 1..(n - 1)
    BY <1>2, <1>3, <1>4, <1>5, <1>6, LenProperties
  <2>2. ASSUME NEW i \in 1..(n - 1)
        PROVE  mounts'[i] = IF i < top THEN mounts[i] ELSE mounts[i + 1]
    <3>1. CASE i < top
      BY <1>2, <1>3, <1>4, <1>5, <1>6, <3>1
    <3>2. CASE ~(i < top)
      <4>1. mounts'[i] = u[i - (top - 1)]
        BY <1>2, <1>3, <1>4, <1>5, <1>6, <3>2
      <4>2. i - (top - 1) \in 1..(n - top) /\ top + (i - (top - 1)) = i + 1
        BY <1>2, <1>3, <3>2
      <4> QED
        BY <1>5, <3>2, <4>1, <4>2
    <3> QED
      BY <3>1, <3>2
  <2> QED
    BY <2>1, <2>2
<1>8. On(q) = {i \in 1..n : mounts[i].point = q}
      /\ On(q)' = {i \in 1..(n - 1) : mounts'[i].point = q}
  BY <1>2, <1>7 DEF On
<1>9. ASSUME NEW i \in On(q)
      PROVE  sh[i] \in On(q)' /\ mounts'[sh[i]] = mounts[i]
  <2>1. i \in 1..n /\ i # top /\ mounts[i].point = q
    BY <1>3, <1>8
  <2>2. sh[i] \in 1..(n - 1) /\ mounts'[sh[i]] = mounts[i]
    <3>1. CASE i < top
      BY <1>2, <1>3, <1>7, <2>1, <3>1
    <3>2. CASE i > top
      <4>1. sh[i] = i - 1 /\ i - 1 \in 1..(n - 1) /\ ~(i - 1 < top) /\ (i - 1) + 1 = i
        BY <1>2, <1>3, <2>1, <3>2
      <4> QED
        BY <1>7, <4>1
    <3> QED
      BY <1>3, <2>1, <3>1, <3>2
  <2> QED
    BY <1>8, <2>1, <2>2
<1>10. ASSUME NEW j \in On(q)'
       PROVE  \E i \in On(q) : j = sh[i]
  <2>1. j \in 1..(n - 1) /\ mounts'[j].point = q
    BY <1>8
  <2>2. CASE j < top
    <3>1. j \in On(q)
      BY <1>2, <1>7, <1>8, <2>1, <2>2
    <3> QED
      BY <2>2, <3>1
  <2>3. CASE ~(j < top)
    <3>1. j + 1 \in On(q) /\ ~(j + 1 < top) /\ (j + 1) - 1 = j
      BY <1>2, <1>3, <1>7, <1>8, <2>1, <2>3
    <3> QED
      BY <3>1
  <2> QED
    BY <2>2, <2>3
<1>11. On(q)' = {sh[i] : i \in On(q)} /\ sh \in [On(q) -> Nat]
  <2>1. \A i \in On(q) : (IF i < top THEN i ELSE i - 1) \in Nat
    BY <1>2, <1>3, <1>8
  <2> QED
    BY <1>9, <1>10, <2>1
<1>12. \A i, j \in On(q) : i <= j => sh[i] <= sh[j]
  <2>1. On(q) \subseteq Nat \ {top}
    BY <1>3, <1>8
  <2> QED
    BY <1>3, <2>1
<1> HIDE DEF sh
<1> QED
  BY <1>6, <1>9, <1>11, <1>12, TopKept

-----------------------------------------------------------------------------
(* The initial state: the root file system is the first of the list.       *)
LEMMA MountpointsInvInit == MountpointsInit => MountpointsInv
<1> SUFFICES ASSUME MountpointsInit PROVE MountpointsInv
  OBVIOUS
<1>0. PICK n \in 0..(MaxMounts - 1), fs \in FileSystems :
        \E upper \in [1..n -> {m \in Mount : m.point # Root}] :
          mounts = <<[point |-> Root, fs |-> fs]>> \o upper
  BY DEF MountpointsInit
<1>1. PICK upper \in [1..n -> {m \in Mount : m.point # Root}] :
        mounts = <<[point |-> Root, fs |-> fs]>> \o upper
  BY <1>0
<1> DEFINE r == [point |-> Root, fs |-> fs]
<1>2. r \in Mount /\ r.point = Root
  BY MountpointsAssumption DEF MountpointsAssumption, Mount
<1>3. upper \in Seq(Mount) /\ <<r>> \in Seq(Mount) /\ Len(<<r>>) = 1 /\ <<r>>[1] = r
  BY <1>2, MountpointsAssumption DEF MountpointsAssumption
<1> HIDE DEF r
<1>4. mounts = <<r>> \o upper
  BY <1>1 DEF r
<1>5. /\ mounts \in Seq(Mount) /\ Len(mounts) = 1 + Len(upper)
      /\ \A i \in 1..(1 + Len(upper)) :
           mounts[i] = IF i <= 1 THEN <<r>>[i] ELSE upper[i - 1]
  BY <1>3, <1>4, ConcatProperties
<1>6. 1 \in DOMAIN mounts /\ mounts[1] = r
  <2>1. Len(upper) \in Nat /\ DOMAIN mounts = 1..Len(mounts)
    BY <1>3, <1>5, LenProperties
  <2> QED
    BY <1>3, <1>5, <2>1
<1>7. IsMounted(Root)
  BY <1>2, <1>6 DEF IsMounted, On
<1>8. Len(Configured) \in Nat
  BY MountpointsAssumption, LenProperties DEF MountpointsAssumption
<1> QED
  BY <1>5, <1>7, <1>8, MountpointsAssumption
     DEF MountpointsInit, MountpointsInv, MountpointsTypeOK, LabelsOfMeasured,
         MountpointsAssumption

(* What the container does to a mountpoint leaves the others right.        *)
LEMMA ContainerKeeps ==
  ASSUME MountpointsInv, NEW p \in Points,
         (\E fs \in FileSystems : MountOn(p, fs)) \/ Unmount(p)
  PROVE  MountpointsInv'
<1>1. /\ p # Root /\ remounted' = remounted \cup {p}
      /\ remounts < MaxRemounts /\ remounts' = remounts + 1
      /\ UNCHANGED <<process, mpc, mountMap, next, failed, sent>>
  BY DEF MountOn, Unmount, Touch, diskVars
<1>2. ASSUME NEW q, q # p
      PROVE  /\ mounts' \in Seq(Mount)
             /\ IsMounted(q)' <=> IsMounted(q)
             /\ IsMounted(q) => mounts'[Max(On(q)')] = mounts[Max(On(q))]
  BY <1>2, MountKeepsOthers, UnmountKeepsOthers DEF MountpointsInv, MountpointsTypeOK
<1>3. MountpointsTypeOK'
  <2>1. mounts' \in Seq(Mount)
    BY <1>1, <1>2
  <2>2. remounts' \in 0..MaxRemounts
    BY <1>1, MountpointsAssumption
    DEF MountpointsInv, MountpointsTypeOK, MountpointsAssumption
  <2> QED
    BY <1>1, <2>1, <2>2 DEF MountpointsInv, MountpointsTypeOK
<1>4. IsMounted(Root)'
  BY <1>1, <1>2 DEF MountpointsInv
<1>5. LabelsOfMeasured'
  BY <1>1 DEF MountpointsInv, LabelsOfMeasured
<1>6. (mpc = "statfs" => MapMatches)'
  <2> SUFFICES ASSUME MapMatches PROVE MapMatches'
    BY <1>1 DEF MountpointsInv
  <2> QED
    BY <1>1, <1>2 DEF MapMatches
<1>7. (mpc # "idle" => SeenExposed)'
  <2> SUFFICES ASSUME SeenExposed PROVE SeenExposed'
    BY <1>1 DEF MountpointsInv
  <2> QED
    BY <1>1, <1>2 DEF SeenExposed, Exposed
<1> QED
  BY <1>3, <1>4, <1>5, <1>6, <1>7 DEF MountpointsInv

(* The reads of the collection.                                            *)
LEMMA ReadKeeps ==
  ASSUME MountpointsInv, ReadMountInfo
  PROVE  MountpointsInv'
<1>1. /\ UNCHANGED <<mounts, process>> /\ mountMap' = IndexMounts(ParseMountInfo)
      /\ mpc' = "statfs" /\ next' = 1 /\ failed' = {} /\ sent' = {} /\ remounted' = {} /\ remounts' = 0
  BY DEF ReadMountInfo
<1>2. \A p : On(p)' = On(p)
  BY <1>1 DEF On
<1>3. MapMatches'
  BY <1>1, <1>2, MapOfMounts
  DEF MapMatches, IsMounted, MountpointsInv, MountpointsTypeOK
<1>4. MountpointsTypeOK'
  <2>1. DOMAIN mountMap' \subseteq {Written[p] : p \in Points}
    BY <1>3 DEF MapMatches, Mount
  <2>2. next' \in 1..(Len(Configured) + 1)
    BY <1>1, MountpointsAssumption, LenProperties DEF MountpointsAssumption
  <2> QED
    BY <1>1, <2>1, <2>2, MountpointsAssumption
    DEF MountpointsInv, MountpointsTypeOK, MountpointsAssumption
<1>5. IsMounted(Root)' /\ LabelsOfMeasured'
  BY <1>1, <1>2 DEF MountpointsInv, IsMounted, LabelsOfMeasured
<1>6. SeenExposed'
  <2>1. \A i \in DOMAIN Configured : ~(i < next')
    BY <1>1, MountpointsAssumption, LenProperties DEF MountpointsAssumption
  <2> QED
    BY <1>1, <2>1 DEF SeenExposed
<1> QED
  BY <1>3, <1>4, <1>5, <1>6 DEF MountpointsInv

LEMMA StatfsKeeps ==
  ASSUME MountpointsInv, Statfs
  PROVE  MountpointsInv'
<1> DEFINE t == Configured[next]
           label == <<mountMap[t].FsType, mountMap[t].Source>>
<1>1. /\ mpc = "statfs" /\ next <= Len(Configured) /\ t \in DOMAIN mountMap /\ process
      /\ next' = next + 1
      /\ UNCHANGED <<mounts, process, remounted, remounts, mpc, mountMap, failed>>
  BY DEF Statfs, namespaceVars
<1>2. PICK p \in Points :
        /\ p = mountMap[t].MountPoint
        /\ sent' = sent \cup {[point |-> p, label |-> label, measured |-> Topmost(p)]}
  BY DEF Statfs
<1>3. MapMatches
  BY <1>1 DEF MountpointsInv
<1>4. PICK m \in Mount : t = Written[m.point] /\ mountMap[t] = Entry(m)
  BY <1>1, <1>3 DEF MapMatches
<1>5. t = p /\ Written[p] = p /\ label = m.fs /\ m.fs \in FileSystems
  <2>1. m.point \in Points /\ m.fs \in FileSystems /\ m.fs = <<m.fs[1], m.fs[2]>>
    BY MountpointsAssumption DEF Mount, MountpointsAssumption
  <2> QED
    BY <1>2, <1>4, <2>1, MountpointsAssumption DEF Entry, MountpointsAssumption
<1> HIDE DEF t, label
<1>6. \A q : On(q)' = On(q)
  BY <1>1 DEF On
<1>7. p \notin remounted => label = Topmost(p)
  <2> SUFFICES ASSUME p \notin remounted PROVE label = Topmost(p)
    OBVIOUS
  <2>1. IsMounted(p) /\ mountMap[t] = Entry(mounts[Max(On(p))])
    BY <1>1, <1>3, <1>5 DEF MapMatches
  <2>2. mounts[Max(On(p))] \in Mount
    BY <2>1, TopOfMounted DEF MountpointsInv, MountpointsTypeOK
  <2>3. mounts[Max(On(p))].fs = <<mounts[Max(On(p))].fs[1], mounts[Max(On(p))].fs[2]>>
    BY <2>2, MountpointsAssumption DEF Mount, MountpointsAssumption
  <2> QED
    BY <2>1, <2>3 DEF Topmost, Entry, label
<1>8. Topmost(p) \in FileSystems
  <2>1. \A q : IsMounted(q) => mounts[Max(On(q))].fs \in FileSystems
    BY TopOfMounted DEF MountpointsInv, MountpointsTypeOK, Mount
  <2> QED
    BY <2>1 DEF Topmost, MountpointsInv
<1>9. MountpointsTypeOK'
  <2>1. next' \in 1..(Len(Configured) + 1)
    BY <1>1, MountpointsAssumption, LenProperties
    DEF MountpointsAssumption, MountpointsInv, MountpointsTypeOK
  <2>2. \A s \in sent' : s.point \in Points /\ {s.label, s.measured} \subseteq FileSystems
    BY <1>2, <1>5, <1>8 DEF MountpointsInv, MountpointsTypeOK
  <2> QED
    BY <1>1, <2>1, <2>2 DEF MountpointsInv, MountpointsTypeOK
<1>10. IsMounted(Root)'
  BY <1>6 DEF MountpointsInv, IsMounted
<1>11. LabelsOfMeasured'
  BY <1>1, <1>2, <1>7 DEF MountpointsInv, LabelsOfMeasured
<1>12. MapMatches'
  BY <1>1, <1>3, <1>6 DEF MapMatches, IsMounted
<1>13. SeenExposed'
  <2> SUFFICES ASSUME NEW i \in DOMAIN Configured, NEW q \in Points, i < next',
                      q = Configured[i], Written[q] = q, IsMounted(q), q \notin remounted,
                      q \notin failed
               PROVE  Exposed(q)'
    BY <1>1, <1>6 DEF SeenExposed, IsMounted
  <2>1. CASE i < next
    <3>1. Exposed(q)
      BY <1>1, <2>1 DEF MountpointsInv, SeenExposed
    <3> QED
      BY <1>2, <3>1 DEF Exposed
  <2>2. CASE ~(i < next)
    <3>1. i = next
      BY <1>1, <2>2, MountpointsAssumption, LenProperties
      DEF MountpointsAssumption, MountpointsInv, MountpointsTypeOK
    <3>2. q = p
      BY <1>5, <3>1 DEF t
    <3> DEFINE x == [point |-> p, label |-> label, measured |-> Topmost(p)]
    <3>3. x \in sent' /\ x.point = q
      BY <1>2, <3>2
    <3> HIDE DEF x
    <3> QED
      BY <3>3 DEF Exposed
  <2> QED
    BY <2>1, <2>2
<1> QED
  BY <1>1, <1>9, <1>10, <1>11, <1>12, <1>13 DEF MountpointsInv

(* A path that is not found, or cannot be measured.                        *)
LEMMA PassedOver ==
  ASSUME MountpointsInv, Lookup \/ StatfsFails
  PROVE  MountpointsInv'
<1>1. /\ mpc = "statfs" /\ next <= Len(Configured) /\ next' = next + 1
      /\ failed' \in {failed, failed \cup {Configured[next]}}
      /\ UNCHANGED <<mounts, process, remounted, remounts, mpc, mountMap, sent>>
  BY DEF Lookup, StatfsFails, namespaceVars
<1>2. \A q : On(q)' = On(q)
  BY <1>1 DEF On
<1>3. MapMatches /\ SeenExposed
  BY <1>1 DEF MountpointsInv
<1>4. next' \in 1..(Len(Configured) + 1)
  BY <1>1, MountpointsAssumption, LenProperties
  DEF MountpointsAssumption, MountpointsInv, MountpointsTypeOK
<1>5. SeenExposed'
  <2> SUFFICES ASSUME NEW i \in DOMAIN Configured, NEW q \in Points, i < next',
                      q = Configured[i], Written[q] = q, IsMounted(q), q \notin remounted,
                      q \notin failed'
               PROVE  Exposed(q)
    BY <1>1, <1>2 DEF SeenExposed, IsMounted, Exposed
  <2>1. q \in DOMAIN mountMap
    BY <1>3 DEF MapMatches
  <2>2. i # next
    BY <2>1 DEF Lookup, StatfsFails
  <2>4. q \notin failed
    BY <1>1
  <2>3. i < next
    BY <1>1, <2>2, MountpointsAssumption, LenProperties
    DEF MountpointsAssumption, MountpointsInv, MountpointsTypeOK
  <2> QED
    BY <1>1, <1>3, <2>3, <2>4 DEF SeenExposed
<1>6. failed' \subseteq {Configured[i] : i \in DOMAIN Configured}
  <2>1. next \in DOMAIN Configured
    BY <1>1, MountpointsAssumption, LenProperties
    DEF MountpointsAssumption, MountpointsInv, MountpointsTypeOK
  <2> QED
    BY <1>1, <2>1 DEF MountpointsInv, MountpointsTypeOK
<1> QED
  BY <1>1, <1>2, <1>3, <1>4, <1>5, <1>6
  DEF MountpointsInv, MountpointsTypeOK, MapMatches, IsMounted, LabelsOfMeasured

LEMMA OthersKeep ==
  ASSUME MountpointsInv, ExitProcess \/ ReadMountInfoFails \/ DiskDone \/ UNCHANGED mvars
  PROVE  MountpointsInv'
<1>1. UNCHANGED <<mounts, remounted, remounts, mountMap, next>> /\ sent' \in {sent, {}}
      /\ process' \in {process, FALSE}
  BY DEF ExitProcess, ReadMountInfoFails, DiskDone, mvars, namespaceVars, diskVars
<1>2. \A q : On(q)' = On(q)
  BY <1>1 DEF On
<1>3. mpc' \in {mpc, "done"} /\ (mpc' # mpc => mpc' = "done")
  BY DEF ExitProcess, ReadMountInfoFails, DiskDone, mvars, diskVars
<1>4. (mpc # "idle" => SeenExposed)'
  <2>1. CASE DiskDone
    <3>1. mpc = "statfs" /\ next > Len(Configured) /\ UNCHANGED <<failed, sent>>
      BY <2>1 DEF DiskDone
    <3>2. \A i \in DOMAIN Configured : i < next
      BY <3>1, MountpointsAssumption, LenProperties
      DEF MountpointsAssumption, MountpointsInv, MountpointsTypeOK
    <3>3. SeenExposed
      BY <3>1 DEF MountpointsInv
    <3> QED
      BY <1>1, <1>2, <3>1, <3>2, <3>3 DEF SeenExposed, IsMounted, Exposed
  <2>2. CASE ExitProcess \/ UNCHANGED mvars
    BY <1>2, <2>2
    DEF ExitProcess, mvars, namespaceVars, diskVars, MountpointsInv, SeenExposed,
        IsMounted, Exposed
  <2>3. CASE ReadMountInfoFails
    BY <2>3 DEF ReadMountInfoFails, SeenExposed
  <2> QED
    BY <2>1, <2>2, <2>3
<1>5. (mpc = "statfs" => MapMatches)'
  BY <1>1, <1>2, <1>3 DEF MountpointsInv, MapMatches, IsMounted
<1>6. LabelsOfMeasured' /\ IsMounted(Root)'
  BY <1>1, <1>2 DEF MountpointsInv, LabelsOfMeasured, IsMounted
<1>7. MountpointsTypeOK'
  <2>1. failed' \in {failed, {Configured[i] : i \in DOMAIN Configured}}
    BY DEF ExitProcess, ReadMountInfoFails, DiskDone, mvars, diskVars
  <2> QED
    BY <1>1, <1>3, <2>1 DEF MountpointsInv, MountpointsTypeOK
<1> QED
  BY <1>4, <1>5, <1>6, <1>7 DEF MountpointsInv

-----------------------------------------------------------------------------
(* The collection of the mountpoints keeps MountpointsInv, with any mounts *)
(* and any configuration (collector.go:248-303).                           *)
THEOREM MountpointsInvariant == MountpointsSpec => []MountpointsInv
<1>1. MountpointsInv /\ [MountpointsNext]_mvars => MountpointsInv'
  BY ContainerKeeps, ReadKeeps, StatfsKeeps, PassedOver, OthersKeep
  DEF MountpointsNext, ContainerStep, CollectStep
<1> QED
  BY <1>1, MountpointsInvInit, PTL DEF MountpointsSpec

(* Type and device are those of the file system measured.                  *)
THEOREM MountLabelsCorrect == MountpointsSpec => []LabelsOfMeasured
<1>1. MountpointsInv => LabelsOfMeasured
  BY DEF MountpointsInv
<1> QED
  BY <1>1, MountpointsInvariant, PTL

(* Every plain mountpoint that was there all along is exposed, unless its  *)
(* own measurement, or the read of mountinfo, failed.                      *)
THEOREM MountpointsComplete == MountpointsSpec => []PlainMountpointsExposed
<1>1. MountpointsInv => PlainMountpointsExposed
  BY DEF MountpointsInv, SeenExposed, PlainMountpointsExposed
<1> QED
  BY <1>1, MountpointsInvariant, PTL
=============================================================================
