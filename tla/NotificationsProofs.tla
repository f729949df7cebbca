-------------------------- MODULE NotificationsProofs --------------------------
(***************************************************************************)
(* Proofs about the notification centre: its types, that it implements the *)
(* life cycle of Inbox, and when what was pushed out may return.  They     *)
(* hold for any people, any sizes that SizesAssumption admits, any log.    *)
(*                                                                         *)
(* The argument is about what a poll can still see, the window lo .. n of  *)
(* the log.  What was dismissed and is still in the window is still in the *)
(* archive, however often the archive was cut: of the newer entries, fewer *)
(* than MaxItems can be older than the window was then, and the others are *)
(* among the 2 * (Window - 1) neighbours of the event.  What was there at  *)
(* the first look, or has been shown, is among the fingerprints until they *)
(* overflow, and they only hold events from the first look's window on.    *)
(***************************************************************************)
EXTENDS Notifications, FiniteSetTheorems, SequenceTheorems, WellFoundedInduction, TLAPS

(***************************************************************************)
(* The inductive invariant.  n is the length of the log, lo the first      *)
(* event a poll reads; sh, go and si are what was shown to the account,    *)
(* what it dismissed, and its first look.                                  *)
(***************************************************************************)

Lo == Len(log) - legible + 1

\* The first event the account can have a fingerprint of.
First(si) == si - Least(si, Window) + 1

\* What is newer, in the list or in the archive, than the i-th of the archive,
Newer(m, i) == ToSet(m.items) \cup {m.archive[j] : j \in 1 .. i - 1}

\* and of that the events that were not in any window with it.
Older(m, i) == {x \in Newer(m, i) : x < m.archive[i] - Window + 1}

ListOK(m, sh, go) ==
    /\ m.items \in Seq(Events) /\ Len(m.items) <= MaxItems /\ IsInjective(m.items)
    /\ ToSet(m.items) \subseteq sh \ go
    /\ m.read \subseteq ToSet(m.items)

ArchiveOK(m, lo, go) ==
    /\ m.archive \in Seq(Events) /\ Len(m.archive) <= MaxArchived /\ IsInjective(m.archive)
    /\ ToSet(m.archive) \subseteq go
    /\ \A e \in go : e >= lo => e \in ToSet(m.archive)
    /\ \A i \in DOMAIN m.archive : Cardinality(Older(m, i)) < MaxItems

SeenOK(m, n, lo, sh, si) ==
    /\ m.seen \subseteq First(si) .. n
    /\ n - First(si) + 1 <= MaxSeen => sh \cup (lo .. si) \subseteq m.seen

FateOK(n, lo, sh, go, si) ==
    /\ si \in 0 .. n /\ First(si) <= lo
    /\ sh \subseteq si + 1 .. n /\ go \subseteq sh

\* An account that has not looked yet, and one that has.
Account(m, n, lo, sh, go, si) ==
    \/ m = Blank /\ sh = {} /\ go = {} /\ si = -1
    \/ /\ m \in States /\ m.baselined
       /\ ListOK(m, sh, go) /\ ArchiveOK(m, lo, go)
       /\ SeenOK(m, n, lo, sh, si) /\ FateOK(n, lo, sh, go, si)

\* Memory and file differ in fingerprints only.
Same(m, f) ==
    /\ m.items = f.items /\ m.read = f.read
    /\ m.archive = f.archive /\ m.baselined = f.baselined

LogOK ==
    /\ log \in Seq(Kinds) /\ Len(log) <= MaxEvents
    /\ legible \in 0 .. Window /\ legible <= Len(log)

HubOK ==
    /\ who \in Users \cup {Nobody} /\ opening \in BOOLEAN /\ profile \in Profiles
    /\ opening => who \in Users
    /\ user \in Users \cup {Nobody}

FilesOK ==
    /\ file \in [Users -> States]
    /\ shown \in [Users -> SUBSET Events]
    /\ gone \in [Users -> SUBSET Events]
    /\ since \in [Users -> -1 .. MaxEvents]
    /\ \A a \in Users :
          Account(file[a], Len(log), Lo, shown[a], gone[a], since[a])

MemoryOK ==
    /\ mem \in States
    /\ user = Nobody => mem = Blank
    /\ user \in Users =>
          /\ Account(mem, Len(log), Lo, shown[user], gone[user], since[user])
          /\ Same(mem, file[user])

CentreInv == LogOK /\ HubOK /\ FilesOK /\ MemoryOK

(***************************************************************************)
(* Sequences.                                                              *)
(***************************************************************************)

LEMMA Members ==
    ASSUME NEW S, NEW s \in Seq(S)
    PROVE  /\ DOMAIN s = 1 .. Len(s) /\ Len(s) \in Nat
           /\ \A e : e \in ToSet(s) <=> \E i \in 1 .. Len(s) : s[i] = e
           /\ \A i \in 1 .. Len(s) : s[i] \in S /\ s[i] \in ToSet(s)
           /\ ToSet(s) \subseteq S
<1>1. s \in [1 .. Len(s) -> S] /\ DOMAIN s = 1 .. Len(s) /\ Len(s) \in Nat
  BY LenProperties
<1> QED
  BY <1>1 DEF ToSet

LEMMA NoMembers == ToSet(<<>>) = {} /\ IsInjective(<<>>) /\ Len(<<>>) = 0 /\ \A S : <<>> \in Seq(S)
  BY DEF ToSet, IsInjective

LEMMA CountInterval ==
    ASSUME NEW a \in Int, NEW b \in Int, a <= b + 1
    PROVE  IsFiniteSet(a .. b) /\ Cardinality(a .. b) = b - a + 1
<1>1. IsFiniteSet(a .. b) /\ Cardinality(a .. b) = IF a > b THEN 0 ELSE b - a + 1
  BY FS_Interval
<1> QED
  BY <1>1

(* A sequence that repeats nothing has as many elements as it is long. *)
LEMMA CountMembers ==
    ASSUME NEW S, NEW s \in Seq(S), IsInjective(s)
    PROVE  IsFiniteSet(ToSet(s)) /\ Cardinality(ToSet(s)) = Len(s)
<1>1. s \in [1 .. Len(s) -> ToSet(s)] /\ Len(s) \in Nat /\ DOMAIN s = 1 .. Len(s)
  BY LenProperties, Members
<1>2. s \in Surjection(1 .. Len(s), ToSet(s)) /\ s \in Injection(1 .. Len(s), ToSet(s))
  BY <1>1 DEF Surjection, Injection, IsInjective, ToSet
<1>3. IsFiniteSet(1 .. Len(s)) /\ Cardinality(1 .. Len(s)) = Len(s)
  <2>1. 1 \in Int /\ Len(s) \in Int /\ 1 <= Len(s) + 1 /\ Len(s) - 1 + 1 = Len(s)
    BY <1>1
  <2> QED
    BY <2>1, CountInterval
<1> DEFINE D == 1 .. Len(s)
           T == ToSet(s)
<1> HIDE DEF D, T
<1>4. s \in Surjection(D, T) /\ s \in Injection(D, T) /\ IsFiniteSet(D) /\ Cardinality(D) = Len(s)
  BY <1>2, <1>3 DEF D, T
<1>5. /\ IsFiniteSet(T)
      /\ Cardinality(T) = Cardinality(D) <=> s \in Injection(D, T)
  BY <1>4, FS_Surjection
<1> QED
  BY <1>4, <1>5 DEF T

LEMMA CutOff ==
    ASSUME NEW S, NEW s \in Seq(S), NEW limit \in Nat
    PROVE  /\ Cut(s, limit) \in Seq(S)
           /\ Len(Cut(s, limit)) = Least(Len(s), limit)
           /\ \A i \in 1 .. Least(Len(s), limit) : Cut(s, limit)[i] = s[i]
           /\ ToSet(Cut(s, limit)) \subseteq ToSet(s)
           /\ IsInjective(s) => IsInjective(Cut(s, limit))
           /\ Len(s) <= limit => Cut(s, limit) = s
<1> DEFINE k == Least(Len(s), limit)
<1>1. Len(s) \in Nat /\ k \in Nat /\ k <= Len(s) /\ (Len(s) <= limit => k = Len(s))
  BY LenProperties DEF Least
<1>2. /\ Cut(s, limit) \in Seq(S) /\ Len(Cut(s, limit)) = k
      /\ \A i \in 1 .. k : Cut(s, limit)[i] = s[i]
  <2>1. \A i \in 1 .. k : s[i] \in S
    BY <1>1, Members
  <2>2. /\ SubSeq(s, 1, k) \in Seq(S)
        /\ Len(SubSeq(s, 1, k)) = IF 1 <= k THEN k - 1 + 1 ELSE 0
        /\ \A i \in 1 .. k - 1 + 1 : SubSeq(s, 1, k)[i] = s[1 + i - 1]
    BY <1>1, <2>1, SubSeqProperties
  <2> HIDE DEF k
  <2>3. Cut(s, limit) = SubSeq(s, 1, k)
    BY DEF Cut, k
  <2> QED
    BY <1>1, <2>2, <2>3
<1>3. ToSet(Cut(s, limit)) \subseteq ToSet(s)
  BY <1>1, <1>2, Members
<1>4. IsInjective(s) => IsInjective(Cut(s, limit))
  <2>1. DOMAIN s = 1 .. Len(s) /\ DOMAIN Cut(s, limit) = 1 .. k
    BY <1>2, LenProperties
  <2> HIDE DEF k
  <2> DEFINE c == Cut(s, limit)
  <2>2. \A i \in 1 .. k : i \in 1 .. Len(s) /\ c[i] = s[i]
    BY <1>1, <1>2
  <2>3. DOMAIN c = 1 .. k
    BY <2>1
  <2> HIDE DEF c
  <2>4. IsInjective(s) => IsInjective(c)
    BY <2>1, <2>2, <2>3 DEF IsInjective
  <2> QED
    BY <2>4 DEF c
<1>5. Len(s) <= limit => Cut(s, limit) = s
  BY <1>1, <1>2, SeqEqual
<1> QED
  BY <1>2, <1>3, <1>4, <1>5

LEMMA Joined ==
    ASSUME NEW S, NEW s \in Seq(S), NEW t \in Seq(S)
    PROVE  /\ s \o t \in Seq(S) /\ Len(s \o t) = Len(s) + Len(t)
           /\ \A i \in 1 .. Len(s) : (s \o t)[i] = s[i]
           /\ \A i \in 1 .. Len(t) : (s \o t)[Len(s) + i] = t[i]
           /\ ToSet(s \o t) = ToSet(s) \cup ToSet(t)
           /\ IsInjective(s) /\ IsInjective(t) /\ ToSet(s) \cap ToSet(t) = {}
                => IsInjective(s \o t)
<1>1. /\ s \o t \in Seq(S) /\ Len(s \o t) = Len(s) + Len(t)
      /\ \A i \in 1 .. Len(s) + Len(t) :
            (s \o t)[i] = IF i <= Len(s) THEN s[i] ELSE t[i - Len(s)]
  BY ConcatProperties
<1>2. Len(s) \in Nat /\ Len(t) \in Nat
  BY LenProperties
<1>3. \A i \in 1 .. Len(s) : (s \o t)[i] = s[i]
  BY <1>1, <1>2
<1>4. \A i \in 1 .. Len(t) : (s \o t)[Len(s) + i] = t[i]
  <2> TAKE i \in 1 .. Len(t)
  <2>1. Len(s) + i \in 1 .. Len(s) + Len(t) /\ ~(Len(s) + i <= Len(s)) /\ Len(s) + i - Len(s) = i
    BY <1>2
  <2> QED
    BY <1>1, <2>1
<1>5. ToSet(s \o t) = ToSet(s) \cup ToSet(t)
  <2>1. \A e \in ToSet(s \o t) : e \in ToSet(s) \cup ToSet(t)
    <3> TAKE e \in ToSet(s \o t)
    <3>1. PICK i \in 1 .. Len(s) + Len(t) : (s \o t)[i] = e
      BY <1>1, Members
    <3>2. CASE i <= Len(s)
      BY <1>1, <1>2, <3>1, <3>2, Members
    <3>3. CASE ~(i <= Len(s))
      <4>1. i - Len(s) \in 1 .. Len(t) /\ t[i - Len(s)] = e
        BY <1>1, <1>2, <3>1, <3>3
      <4> QED
        BY <4>1, Members
    <3> QED
      BY <3>2, <3>3
  <2>2. \A e \in ToSet(s) : e \in ToSet(s \o t)
    <3> TAKE e \in ToSet(s)
    <3>1. PICK i \in 1 .. Len(s) : s[i] = e
      BY Members
    <3>2. i \in 1 .. Len(s \o t) /\ (s \o t)[i] = e
      BY <1>1, <1>2, <1>3, <3>1
    <3> QED
      BY <1>1, <3>2, Members
  <2>3. \A e \in ToSet(t) : e \in ToSet(s \o t)
    <3> TAKE e \in ToSet(t)
    <3>1. PICK i \in 1 .. Len(t) : t[i] = e
      BY Members
    <3>2. Len(s) + i \in 1 .. Len(s \o t) /\ (s \o t)[Len(s) + i] = e
      BY <1>1, <1>2, <1>4, <3>1
    <3> QED
      BY <1>1, <3>2, Members
  <2> QED
    BY <2>1, <2>2, <2>3
<1>6. ASSUME IsInjective(s), IsInjective(t), ToSet(s) \cap ToSet(t) = {}
      PROVE  IsInjective(s \o t)
  <2>1. /\ DOMAIN s = 1 .. Len(s) /\ DOMAIN t = 1 .. Len(t)
        /\ DOMAIN (s \o t) = 1 .. Len(s) + Len(t)
    BY <1>1, LenProperties
  <2> SUFFICES ASSUME NEW i \in 1 .. Len(s) + Len(t), NEW j \in 1 .. Len(s) + Len(t),
                      (s \o t)[i] = (s \o t)[j]
               PROVE  i = j
    BY <2>1 DEF IsInjective
  <2>2. CASE i <= Len(s) /\ j <= Len(s)
    <3>1. i \in 1 .. Len(s) /\ j \in 1 .. Len(s) /\ s[i] = s[j]
      BY <1>1, <1>2, <2>2
    <3> QED
      BY <1>6, <2>1, <3>1 DEF IsInjective
  <2>3. CASE ~(i <= Len(s)) /\ ~(j <= Len(s))
    <3>1. i - Len(s) \in 1 .. Len(t) /\ j - Len(s) \in 1 .. Len(t) /\ t[i - Len(s)] = t[j - Len(s)]
      BY <1>1, <1>2, <2>3
    <3>2. i - Len(s) = j - Len(s)
      BY <1>6, <2>1, <3>1 DEF IsInjective
    <3> QED
      BY <1>2, <3>2
  <2>4. CASE i <= Len(s) /\ ~(j <= Len(s))
    <3>1. i \in 1 .. Len(s) /\ j - Len(s) \in 1 .. Len(t) /\ s[i] = t[j - Len(s)]
      BY <1>1, <1>2, <2>4
    <3> QED
      BY <1>6, <3>1, Members
  <2>5. CASE ~(i <= Len(s)) /\ j <= Len(s)
    <3>1. j \in 1 .. Len(s) /\ i - Len(s) \in 1 .. Len(t) /\ s[j] = t[i - Len(s)]
      BY <1>1, <1>2, <2>5
    <3> QED
      BY <1>6, <3>1, Members
  <2> QED
    BY <2>2, <2>3, <2>4, <2>5
<1> QED
  BY <1>1, <1>3, <1>4, <1>5, <1>6

LEMMA LeftOut ==
    ASSUME NEW S, NEW s \in Seq(S), IsInjective(s), NEW i \in 1 .. Len(s)
    PROVE  /\ RemoveAt(s, i) \in Seq(S) /\ Len(RemoveAt(s, i)) = Len(s) - 1
           /\ ToSet(RemoveAt(s, i)) = ToSet(s) \ {s[i]}
           /\ IsInjective(RemoveAt(s, i))
<1> DEFINE a == SubSeq(s, 1, i - 1)
           b == SubSeq(s, i + 1, Len(s))
           n == Len(s)
<1>1. n \in Nat /\ DOMAIN s = 1 .. n /\ \A k \in 1 .. n : s[k] \in S
  BY Members
<1>2. /\ a \in Seq(S) /\ Len(a) = i - 1
      /\ \A k \in 1 .. i - 1 : a[k] = s[k]
  <2>1. \A k \in 1 .. i - 1 : s[k] \in S
    BY <1>1
  <2>2. /\ a \in Seq(S) /\ Len(a) = IF 1 <= i - 1 THEN i - 1 - 1 + 1 ELSE 0
        /\ \A k \in 1 .. i - 1 - 1 + 1 : a[k] = s[1 + k - 1]
    BY <1>1, <2>1, SubSeqProperties
  <2> HIDE DEF a
  <2> QED
    BY <1>1, <2>2
<1>3. /\ b \in Seq(S) /\ Len(b) = n - i
      /\ \A k \in 1 .. n - i : b[k] = s[i + k]
  <2>1. \A k \in i + 1 .. n : s[k] \in S
    BY <1>1
  <2>2. /\ b \in Seq(S) /\ Len(b) = IF i + 1 <= n THEN n - (i + 1) + 1 ELSE 0
        /\ \A k \in 1 .. n - (i + 1) + 1 : b[k] = s[i + 1 + k - 1]
    BY <1>1, <2>1, SubSeqProperties
  <2> HIDE DEF b, n
  <2> QED
    BY <1>1, <2>2
<1>4. RemoveAt(s, i) = a \o b
  BY DEF RemoveAt
<1> HIDE DEF a, b, n
<1>5. \A e : e \in ToSet(a) <=> \E k \in 1 .. i - 1 : s[k] = e
  <2>1. \A e : e \in ToSet(a) <=> \E k \in 1 .. i - 1 : a[k] = e
    BY <1>2, Members
  <2> QED
    BY <1>2, <2>1
<1>6. \A e : e \in ToSet(b) <=> \E k \in i + 1 .. n : s[k] = e
  <2>1. \A e : e \in ToSet(b) <=> \E k \in 1 .. n - i : s[i + k] = e
    BY <1>3, Members
  <2>2. \A k \in i + 1 .. n : k - i \in 1 .. n - i /\ i + (k - i) = k
    BY <1>1
  <2>3. \A k \in 1 .. n - i : i + k \in i + 1 .. n
    BY <1>1
  <2> QED
    BY <2>1, <2>2, <2>3
<1>7. \A k, l \in 1 .. n : s[k] = s[l] => k = l
  BY <1>1 DEF IsInjective
<1>8. i \in 1 .. n /\ \A e : e \in ToSet(s) <=> \E k \in 1 .. n : s[k] = e
  BY Members DEF n
<1>9. ToSet(a) \cup ToSet(b) = ToSet(s) \ {s[i]}
  <2>1. \A e \in ToSet(s) \ {s[i]} : e \in ToSet(a) \cup ToSet(b)
    <3> TAKE e \in ToSet(s) \ {s[i]}
    <3>1. PICK k \in 1 .. n : s[k] = e
      BY <1>8
    <3>2. k \in 1 .. i - 1 \/ k \in i + 1 .. n
      BY <1>1, <3>1
    <3> QED
      BY <1>5, <1>6, <3>1, <3>2
  <2>2. \A e \in ToSet(a) : e \in ToSet(s) \ {s[i]}
    <3>1. \A k \in 1 .. i - 1 : k \in 1 .. n /\ k # i
      BY <1>1, <1>8
    <3> QED
      BY <1>5, <1>7, <1>8, <3>1
  <2>3. \A e \in ToSet(b) : e \in ToSet(s) \ {s[i]}
    <3>1. \A k \in i + 1 .. n : k \in 1 .. n /\ k # i
      BY <1>1, <1>8
    <3> QED
      BY <1>6, <1>7, <1>8, <3>1
  <2> QED
    BY <2>1, <2>2, <2>3
<1>10. ToSet(a) \cap ToSet(b) = {}
  <2>1. \A k \in 1 .. i - 1, l \in i + 1 .. n : k \in 1 .. n /\ l \in 1 .. n /\ k # l
    BY <1>1, <1>8
  <2> QED
    BY <1>5, <1>6, <1>7, <2>1
<1>11. IsInjective(a)
  <2>1. DOMAIN a = 1 .. i - 1
    BY <1>2, LenProperties
  <2>2. \A k \in 1 .. i - 1 : k \in 1 .. n
    BY <1>1, <1>8
  <2> QED
    BY <1>2, <1>7, <2>1, <2>2 DEF IsInjective
<1>12. IsInjective(b)
  <2>1. DOMAIN b = 1 .. n - i
    BY <1>3, LenProperties
  <2>2. \A k \in 1 .. n - i : i + k \in 1 .. n
    BY <1>1, <1>8
  <2>3. \A k, l \in 1 .. n - i : b[k] = b[l] => i + k = i + l
    BY <1>3, <1>7, <2>2
  <2> QED
    BY <1>1, <1>8, <2>1, <2>3 DEF IsInjective
<1>13. /\ a \o b \in Seq(S) /\ Len(a \o b) = Len(a) + Len(b)
       /\ ToSet(a \o b) = ToSet(a) \cup ToSet(b)
       /\ IsInjective(a \o b)
  BY <1>2, <1>3, <1>10, <1>11, <1>12, Joined
<1>14. Len(a) + Len(b) = n - 1
  BY <1>1, <1>2, <1>3, <1>8
<1> QED
  BY <1>4, <1>9, <1>13, <1>14 DEF n

\* Numbers have a least one.
LEMMA LeastNumber ==
    ASSUME NEW S, S \subseteq Nat, S # {}
    PROVE  \E n \in S : \A m \in S : ~ (m < n)
<1> DEFINE Less == OpToRel(<, Nat)
<1>1. IsWellFoundedOn(Less, Nat)
  BY NatLessThanWellFounded
<1>2. \A m, n \in Nat : m < n => << m, n >> \in Less
  BY DEF OpToRel
<1> HIDE DEF Less
<1>3. \E n \in S : \A m \in S : ~ (<< m, n >> \in Less)
  BY <1>1, WFMin
<1> QED
  BY <1>2, <1>3

LEMMA EventsAreNumbers == \A e \in Events : e \in Int /\ e \in Nat /\ 1 <= e /\ e <= MaxEvents
  BY SizesAssumption DEF Events

LEMMA LatestEvent ==
    ASSUME NEW B \in SUBSET Events, B # {}
    PROVE  \E x \in B : \A b \in B : b <= x
<1> DEFINE U == {u \in Nat : \A b \in B : b <= u}
<1>1. MaxEvents \in U /\ \A b \in B : b \in Nat /\ 1 <= b
  BY SizesAssumption DEF Events
<1>2. PICK u \in U : \A v \in U : ~ (v < u)
  BY <1>1, LeastNumber
<1>3. u \in B
  <2> SUFFICES ASSUME u \notin B PROVE FALSE
    OBVIOUS
  <2>1. u \in Nat /\ \A b \in B : b <= u /\ b # u /\ 1 <= b /\ b \in Nat
    BY <1>1, <1>2
  <2>2. u - 1 \in Nat /\ \A b \in B : b <= u - 1
    BY <2>1
  <2>3. u - 1 \in U /\ u - 1 < u
    BY <2>1, <2>2
  <2> QED
    BY <1>2, <2>3
<1> QED
  BY <1>2, <1>3

Ordered(s) == \A i, j \in DOMAIN s : i < j => s[i] < s[j]

(* Any events can be put in order, by induction on how many they are. *)
LEMMA EventsCanBeOrdered ==
    ASSUME NEW B \in SUBSET Events
    PROVE  /\ IsFiniteSet(B) /\ Cardinality(B) \in Nat
           /\ \E s \in [1 .. Cardinality(B) -> B] : Ordered(s)
<1> DEFINE Order(C) == \E s \in [1 .. Cardinality(C) -> C] : Ordered(s)
           Bad == {n \in Nat : \E C \in SUBSET Events : Cardinality(C) = n /\ ~ Order(C)}
<1>1. \A C \in SUBSET Events : IsFiniteSet(C) /\ Cardinality(C) \in Nat
  <2> TAKE C \in SUBSET Events
  <2>1. IsFiniteSet(Events)
    BY FS_Interval, SizesAssumption DEF Events
  <2> QED
    BY <2>1, FS_Subset, FS_CardinalityType
<1>2. Bad = {}
  <2> SUFFICES ASSUME Bad # {} PROVE FALSE
    OBVIOUS
  <2>1. PICK n \in Bad : \A k \in Bad : ~ (k < n)
    BY LeastNumber
  <2>2. PICK C \in SUBSET Events : Cardinality(C) = n /\ ~ Order(C)
    BY <2>1
  <2>3. n \in Nat
    BY <2>1
  <2>4. C # {}
    <3> SUFFICES ASSUME C = {} PROVE FALSE
      OBVIOUS
    <3>1. Cardinality(C) = 0
      BY FS_EmptySet
    <3> DEFINE none == [i \in 1 .. 0 |-> 0]
    <3>2. none \in [1 .. 0 -> C] /\ Ordered(none)
      BY DEF Ordered
    <3> QED
      BY <2>2, <3>1, <3>2
  <2>5. PICK x \in C : \A c \in C : c <= x
    BY <2>4, LatestEvent
  <2> DEFINE D == C \ {x}
  <2>6. D \in SUBSET Events /\ Cardinality(D) = n - 1 /\ n - 1 \in Nat /\ n - 1 < n
    <3>1. IsFiniteSet(C)
      BY <1>1
    <3>2. D \in SUBSET Events /\ Cardinality(D) = IF x \in C THEN Cardinality(C) - 1 ELSE Cardinality(C)
      BY <3>1, FS_RemoveElement
    <3>3. Cardinality(D) \in Nat
      BY <1>1, <3>2
    <3> QED
      BY <2>2, <2>3, <2>5, <3>2, <3>3
  <2>7. Order(D)
    BY <2>1, <2>6
  <2>8. PICK s \in [1 .. n - 1 -> D] : Ordered(s)
    BY <2>6, <2>7
  <2> DEFINE t == [i \in 1 .. n |-> IF i = n THEN x ELSE s[i]]
  <2>9. t \in [1 .. n -> C]
    <3>1. \A i \in 1 .. n : i # n => i \in 1 .. n - 1 /\ s[i] \in C
      BY <2>3, <2>8
    <3> QED
      BY <2>5, <3>1
  <2>10. Ordered(t)
    <3> SUFFICES ASSUME NEW i \in 1 .. n, NEW j \in 1 .. n, i < j PROVE t[i] < t[j]
      BY DEF Ordered
    <3>1. i \in 1 .. n - 1 /\ t[i] = s[i] /\ s[i] \in D
      BY <2>3, <2>8
    <3>2. CASE j = n
      <4>1. s[i] \in C /\ s[i] # x /\ C \subseteq Events
        BY <3>1, <2>2
      <4>2. s[i] \in Int /\ x \in Int /\ s[i] <= x /\ s[i] # x
        BY <2>5, <4>1, EventsAreNumbers
      <4> QED
        BY <2>3, <3>1, <3>2, <4>2
    <3>3. CASE j # n
      <4>1. j \in 1 .. n - 1 /\ t[j] = s[j]
        BY <2>3, <3>3
      <4>2. DOMAIN s = 1 .. n - 1
        BY <2>8
      <4> QED
        BY <2>8, <3>1, <4>1, <4>2 DEF Ordered
    <3> QED
      BY <3>2, <3>3
  <2> QED
    BY <2>2, <2>9, <2>10
<1>3. Order(B)
  BY <1>1, <1>2
<1> QED
  BY <1>1, <1>3

LEMMA FunctionIsSeq ==
    ASSUME NEW S, NEW n \in Nat, NEW s \in [1 .. n -> S]
    PROVE  s \in Seq(S) /\ Len(s) = n
  OBVIOUS

LEMMA BatchInOrder ==
    ASSUME NEW B \in SUBSET Events
    PROVE  /\ OldestFirst(B) \in Seq(Events) /\ IsInjective(OldestFirst(B))
           /\ ToSet(OldestFirst(B)) \subseteq B
           /\ B = {} => OldestFirst(B) = <<>>
<1> DEFINE n == Cardinality(B)
           s == OldestFirst(B)
<1>1. n \in Nat /\ \E t \in [1 .. n -> B] : \A i, j \in DOMAIN t : i < j => t[i] < t[j]
  BY EventsCanBeOrdered DEF Ordered
<1>2. s \in [1 .. n -> B] /\ \A i, j \in DOMAIN s : i < j => s[i] < s[j]
  BY <1>1 DEF OldestFirst
<1>3. B = {} => n = 0
  BY FS_EmptySet
<1> HIDE DEF n, s
<1>4. s \in Seq(B) /\ Len(s) = n
  BY <1>1, <1>2, FunctionIsSeq
<1>5. s \in Seq(Events)
  BY <1>1, <1>2, FunctionIsSeq
<1>6. IsInjective(s)
  <2> SUFFICES ASSUME NEW i \in 1 .. n, NEW j \in 1 .. n, s[i] = s[j], i # j PROVE FALSE
    BY <1>2 DEF IsInjective
  <2>1. s[i] \in B /\ s[j] \in B
    BY <1>2
  <2>4. s[i] \in Int /\ s[j] \in Int
    BY <2>1, EventsAreNumbers
  <2>2. i < j \/ j < i
    BY <1>1
  <2>3. s[i] < s[j] \/ s[j] < s[i]
    BY <1>2, <2>2
  <2> QED
    BY <2>3, <2>4
<1>7. ToSet(s) \subseteq B
  BY <1>4, Members
<1>8. B = {} => s = <<>>
  BY <1>3, <1>4
<1> QED
  BY <1>5, <1>6, <1>7, <1>8 DEF s

(***************************************************************************)
(* What is in the window.                                                  *)
(***************************************************************************)

(* An archived event that a poll can still see is not cut off, whether one *)
(* or all of the list is dismissed after it: fewer than MaxItems of what   *)
(* is newer lie before its own window, and the rest are its neighbours.    *)
LEMMA StaysArchived ==
    ASSUME NEW m, NEW n \in Nat, NEW lo \in Int, NEW sh, NEW go,
           m \in States, ListOK(m, sh, go), ArchiveOK(m, lo, go),
           go \subseteq sh, sh \subseteq 1 .. n, n < lo + Window,
           NEW i \in 1 .. Len(m.archive), m.archive[i] >= lo
    PROVE  Len(m.items) + i <= MaxArchived
<1> DEFINE e == m.archive[i]
           top == Cut(m.archive, i - 1)
           T == Newer(m, i)
           Near == (e - Window + 1) .. (e + Window - 1)
<1>1. /\ m.items \in Seq(Events) /\ IsInjective(m.items) /\ ToSet(m.items) \subseteq sh \ go
      /\ m.archive \in Seq(Events) /\ IsInjective(m.archive) /\ ToSet(m.archive) \subseteq go
      /\ DOMAIN m.archive = 1 .. Len(m.archive) /\ Len(m.archive) \in Nat /\ Len(m.items) \in Nat
  BY Members DEF ListOK, ArchiveOK
<1>2. e \in ToSet(m.archive) /\ e \in go /\ e \in 1 .. n
  <2>1. m.archive[i] \in ToSet(m.archive)
    BY <1>1, Members
  <2> QED
    BY <1>1, <2>1
<1>12. e \in Int /\ 1 <= e /\ e <= n /\ lo <= e /\ n < e + Window
  <2>1. Window \in Int /\ lo <= e
    BY SizesAssumption
  <2> HIDE DEF e
  <2> QED
    BY <1>2, <2>1
<1>3. /\ top \in Seq(Events) /\ Len(top) = i - 1 /\ IsInjective(top)
      /\ \A j \in 1 .. i - 1 : top[j] = m.archive[j]
      /\ ToSet(top) \subseteq ToSet(m.archive)
  <2>1. i - 1 \in Nat /\ Least(Len(m.archive), i - 1) = i - 1
    BY <1>1 DEF Least
  <2> QED
    BY <1>1, <2>1, CutOff
<1>4. T = ToSet(m.items) \cup ToSet(top)
  <2>1. ToSet(top) = {top[j] : j \in 1 .. Len(top)}
    BY <1>3, Members
  <2>2. {top[j] : j \in 1 .. Len(top)} = {m.archive[j] : j \in 1 .. i - 1}
    BY <1>3
  <2> QED
    BY <2>1, <2>2 DEF Newer
<1>5. IsFiniteSet(T) /\ Cardinality(T) = Len(m.items) + i - 1
  <2>1. /\ IsFiniteSet(ToSet(m.items)) /\ Cardinality(ToSet(m.items)) = Len(m.items)
        /\ IsFiniteSet(ToSet(top)) /\ Cardinality(ToSet(top)) = i - 1
    BY <1>1, <1>3, CountMembers
  <2>2. ToSet(m.items) \cap ToSet(top) = {}
    BY <1>1, <1>3
  <2>3. /\ IsFiniteSet(T)
        /\ Cardinality(T) = Cardinality(ToSet(m.items)) + Cardinality(ToSet(top)) - Cardinality({})
    BY <1>4, <2>1, <2>2, FS_Union
  <2>4. Cardinality({}) = 0
    BY FS_EmptySet
  <2> QED
    BY <1>1, <2>1, <2>3, <2>4
<1>6. e \notin T
  <2>1. e \notin ToSet(m.items)
    BY <1>1, <1>2
  <2>2. \A j \in 1 .. i - 1 : m.archive[j] # e
    <3> TAKE j \in 1 .. i - 1
    <3>1. j \in 1 .. Len(m.archive) /\ j # i
      BY <1>1
    <3> QED
      BY <1>1, <3>1 DEF IsInjective
  <2> QED
    BY <2>1, <2>2 DEF Newer
<1>7. T \subseteq 1 .. n
  BY <1>1, <1>3, <1>4
<1>8. Older(m, i) \in SUBSET T /\ T \subseteq Older(m, i) \cup (Near \ {e})
  <2>1. Older(m, i) \in SUBSET T
    BY DEF Older
  <2>2. ASSUME NEW x \in T, ~ (x < e - Window + 1) PROVE x \in Near \ {e}
    <3> HIDE DEF e
    <3>1. x \in Int /\ x <= n /\ x # e
      BY <1>6, <1>7, <2>2
    <3>2. x <= e + Window - 1 /\ e - Window + 1 <= x
      BY <1>12, <2>2, <3>1, SizesAssumption
    <3> QED
      BY <1>12, <3>1, <3>2, SizesAssumption
  <2> QED
    BY <2>1, <2>2 DEF Older
<1>9. IsFiniteSet(Near \ {e}) /\ Cardinality(Near \ {e}) = 2 * Window - 2
  <2> HIDE DEF e
  <2>1. IsFiniteSet(Near) /\ Cardinality(Near) = 2 * Window - 1
    <3> DEFINE low == e - Window + 1
               high == e + Window - 1
    <3>1. low \in Int /\ high \in Int /\ low <= high + 1 /\ high - low + 1 = 2 * Window - 1
      BY <1>12, SizesAssumption
    <3> HIDE DEF low, high
    <3>2. IsFiniteSet(low .. high) /\ Cardinality(low .. high) = high - low + 1
      BY <3>1, CountInterval
    <3> QED
      BY <3>1, <3>2 DEF low, high
  <2>2. e \in Near
    BY <1>12, SizesAssumption
  <2>3. /\ IsFiniteSet(Near \ {e})
        /\ Cardinality(Near \ {e}) = IF e \in Near THEN Cardinality(Near) - 1 ELSE Cardinality(Near)
    BY <2>1, FS_RemoveElement
  <2> QED
    BY <2>1, <2>2, <2>3, SizesAssumption
<1>10. /\ IsFiniteSet(Older(m, i)) /\ Cardinality(Older(m, i)) \in Nat
       /\ Cardinality(Older(m, i)) < MaxItems
  <2>1. IsFiniteSet(Older(m, i))
    BY <1>5, <1>8, FS_Subset
  <2> QED
    BY <1>1, <2>1, FS_CardinalityType DEF ArchiveOK
<1> HIDE DEF e, top, T, Near
<1>11. Cardinality(T) <= Cardinality(Older(m, i)) + Cardinality(Near \ {e})
  <2> DEFINE A == Older(m, i)
             C == Near \ {e}
  <2> HIDE DEF A, C
  <2>1. IsFiniteSet(A) /\ IsFiniteSet(C) /\ T \in SUBSET (A \cup C)
    BY <1>8, <1>9, <1>10 DEF A, C
  <2>2. /\ IsFiniteSet(A \cup C)
        /\ Cardinality(A \cup C) = Cardinality(A) + Cardinality(C) - Cardinality(A \cap C)
    BY <2>1, FS_Union
  <2>3. IsFiniteSet(A \cap C)
    BY <2>1, FS_Intersection
  <2>4. Cardinality(A \cap C) \in Nat /\ Cardinality(A) \in Nat /\ Cardinality(C) \in Nat
    BY <2>1, <2>3, FS_CardinalityType
  <2>5. Cardinality(T) <= Cardinality(A \cup C)
    BY <2>1, <2>2, FS_Subset
  <2>6. IsFiniteSet(T) /\ Cardinality(T) \in Nat
    BY <1>5, FS_CardinalityType
  <2>7. Cardinality(T) <= Cardinality(A) + Cardinality(C)
    BY <2>2, <2>4, <2>5, <2>6
  <2> QED
    BY <2>7 DEF A, C
<1> QED
  BY <1>1, <1>5, <1>9, <1>10, <1>11, SizesAssumption

(***************************************************************************)
(* What the operations make of one account.                                *)
(***************************************************************************)

LEMMA LeastNumbers ==
    \A a, b \in Nat : /\ Least(a, b) \in Nat /\ Least(a, b) <= a /\ Least(a, b) <= b
                      /\ Least(a, b) = a \/ Least(a, b) = b
  BY DEF Least

(* The window: events lo .. n of the log, at most Window of them. *)
LEMMA WindowOfLog ==
    ASSUME LogOK
    PROVE  /\ Len(log) \in Nat /\ Len(log) <= MaxEvents /\ Lo \in Nat
           /\ 1 <= Lo /\ Lo <= Len(log) + 1 /\ Len(log) < Lo + Window
           /\ Recent = Lo .. Len(log) /\ Recent \subseteq Events
           /\ First(Len(log)) <= Lo
<1>1. Len(log) \in Nat /\ legible \in Nat /\ legible <= Window /\ legible <= Len(log)
  BY LenProperties, SizesAssumption DEF LogOK
<1>2. Recent = Lo .. Len(log)
  BY DEF Recent, Lo
<1>3. /\ Lo \in Nat /\ 1 <= Lo /\ Lo <= Len(log) + 1 /\ Len(log) < Lo + Window
      /\ Len(log) <= MaxEvents
  BY <1>1, SizesAssumption DEF Lo, LogOK
<1>4. Recent \subseteq Events
  BY <1>1, <1>2, <1>3, SizesAssumption DEF Events
<1>5. First(Len(log)) <= Lo
  BY <1>1, SizesAssumption DEF First, Least, Lo
<1> QED
  BY <1>1, <1>2, <1>3, <1>4, <1>5

LEMMA FirstIsNumber == \A si \in Nat : First(si) \in Int /\ First(si) <= si + 1
  BY LeastNumbers, SizesAssumption DEF First

LEMMA BlankIsState == Blank \in States /\ ~ Blank.baselined
<1>1. <<>> \in Seq(Events)
  BY EmptySeq
<1> QED
  BY <1>1 DEF Blank, States

(* An account that has looked. *)
LEMMA Looked ==
    ASSUME NEW m, NEW n, NEW lo, NEW sh, NEW go, NEW si, Account(m, n, lo, sh, go, si)
    PROVE  /\ m \in States
           /\ m.baselined => /\ ListOK(m, sh, go) /\ ArchiveOK(m, lo, go)
                             /\ SeenOK(m, n, lo, sh, si) /\ FateOK(n, lo, sh, go, si)
           /\ ~ m.baselined => m = Blank /\ sh = {} /\ go = {} /\ si = -1
  BY BlankIsState DEF Account

LEMMA AccountGrows ==
    ASSUME NEW m, NEW n \in Nat, NEW lo \in Int, NEW lo2 \in Int, lo <= lo2,
           NEW sh, NEW go, NEW si, go \subseteq Events, Account(m, n, lo, sh, go, si)
    PROVE  Account(m, n + 1, lo2, sh, go, si)
<1>1. CASE ~ m.baselined
  BY <1>1, Looked DEF Account
<1>2. CASE m.baselined
  <2>1. /\ m \in States /\ ListOK(m, sh, go) /\ ArchiveOK(m, lo, go)
        /\ SeenOK(m, n, lo, sh, si) /\ FateOK(n, lo, sh, go, si)
    BY <1>2, Looked
  <2>2. si \in Nat /\ si <= n /\ First(si) \in Int
    BY <2>1, FirstIsNumber DEF FateOK
  <2>3. ArchiveOK(m, lo2, go)
    <3>1. \A e \in go : e >= lo2 => e >= lo
      BY EventsAreNumbers
    <3> QED
      BY <2>1, <3>1 DEF ArchiveOK
  <2>4. SeenOK(m, n + 1, lo2, sh, si)
    <3>1. First(si) .. n \subseteq First(si) .. n + 1 /\ lo2 .. si \subseteq lo .. si
      BY <2>2
    <3>2. (n + 1) - First(si) + 1 <= MaxSeen => n - First(si) + 1 <= MaxSeen
      BY <2>2, SizesAssumption
    <3>3. m.seen \subseteq First(si) .. n + 1
      BY <2>1, <3>1 DEF SeenOK
    <3>4. (n + 1) - First(si) + 1 <= MaxSeen => sh \cup (lo2 .. si) \subseteq m.seen
      <4>1. n - First(si) + 1 <= MaxSeen => sh \subseteq m.seen /\ lo .. si \subseteq m.seen
        BY <2>1 DEF SeenOK
      <4> QED
        BY <3>1, <3>2, <4>1
    <3> QED
      BY <3>3, <3>4 DEF SeenOK
  <2>5. FateOK(n + 1, lo2, sh, go, si)
    BY <2>1, <2>2 DEF FateOK
  <2> QED
    BY <1>2, <2>1, <2>3, <2>4, <2>5 DEF Account
<1> QED
  BY <1>1, <1>2

(* Writing the file: fingerprints are only lost when there are too many. *)
LEMMA AccountIsKept ==
    ASSUME NEW m, NEW n \in Nat, NEW lo \in Int, NEW sh, NEW go, NEW si,
           Account(m, n, lo, sh, go, si), m.baselined, NEW s \in Kept(m.seen)
    PROVE  /\ Account([m EXCEPT !.seen = s], n, lo, sh, go, si)
           /\ [m EXCEPT !.seen = s] \in States
           /\ Same(m, [m EXCEPT !.seen = s])
<1> DEFINE k == [m EXCEPT !.seen = s]
<1>1. /\ m \in States /\ ListOK(m, sh, go) /\ ArchiveOK(m, lo, go)
      /\ SeenOK(m, n, lo, sh, si) /\ FateOK(n, lo, sh, go, si)
  BY Looked
<1>2. si \in Nat /\ si <= n /\ First(si) \in Int /\ First(si) <= n + 1
  BY <1>1, FirstIsNumber DEF FateOK
<1>3. s \subseteq m.seen
  BY DEF Kept
<1>4. n - First(si) + 1 <= MaxSeen => s = m.seen
  <2>1. IsFiniteSet(First(si) .. n) /\ Cardinality(First(si) .. n) = n - First(si) + 1
    <3> DEFINE first == First(si)
    <3>1. first \in Int /\ n \in Int /\ first <= n + 1
      BY <1>2
    <3> HIDE DEF first
    <3>2. IsFiniteSet(first .. n) /\ Cardinality(first .. n) = n - first + 1
      BY <3>1, CountInterval
    <3> QED
      BY <3>2 DEF first
  <2>2. m.seen \in SUBSET (First(si) .. n)
    BY <1>1 DEF SeenOK
  <2>3. IsFiniteSet(m.seen) /\ Cardinality(m.seen) <= n - First(si) + 1
    BY <2>1, <2>2, FS_Subset
  <2>4. Cardinality(m.seen) \in Nat
    BY <2>3, FS_CardinalityType
  <2>5. n - First(si) + 1 <= MaxSeen => Cardinality(m.seen) <= MaxSeen
    BY <1>2, <2>3, <2>4, SizesAssumption
  <2> QED
    BY <2>5 DEF Kept
<1>5. /\ k.items = m.items /\ k.read = m.read /\ k.archive = m.archive
      /\ k.seen = s /\ k.baselined = m.baselined /\ k \in States
  BY <1>1, <1>3 DEF States
<1> HIDE DEF k
<1>6. ListOK(k, sh, go)
  BY <1>1, <1>5 DEF ListOK
<1>7. ArchiveOK(k, lo, go)
  BY <1>1, <1>5 DEF ArchiveOK, Older, Newer
<1>8. SeenOK(k, n, lo, sh, si)
  BY <1>1, <1>3, <1>4, <1>5 DEF SeenOK
<1>9. Account(k, n, lo, sh, go, si) /\ k \in States /\ Same(m, k)
  BY <1>1, <1>5, <1>6, <1>7, <1>8 DEF Account, Same
<1> QED
  BY <1>9 DEF k

(* The first look. *)
LEMMA BaselineIsAccount ==
    ASSUME LogOK, NEW m, NEW sh, NEW go, NEW si, ~ m.baselined,
           Account(m, Len(log), Lo, sh, go, si)
    PROVE  /\ Account(Baseline(m), Len(log), Lo, sh, go, Len(log))
           /\ Baseline(m).baselined /\ Baseline(m).items = m.items /\ Baseline(m).read = m.read
<1>1. m = Blank /\ sh = {} /\ go = {}
  BY Looked
<1> DEFINE b == Baseline(m)
           n == Len(log)
<1>2. /\ n \in Nat /\ Lo \in Nat /\ First(n) <= Lo /\ First(n) \in Int
      /\ Recent = Lo .. n /\ Recent \subseteq Events
  BY WindowOfLog, FirstIsNumber
<1>3. /\ b.items = <<>> /\ b.read = {} /\ b.archive = <<>> /\ b.seen = Lo .. n /\ b.baselined
      /\ b \in States
  BY <1>1, <1>2, BlankIsState DEF Baseline, Blank, States
<1>4. m.items = <<>> /\ m.read = {}
  BY <1>1 DEF Blank
<1> HIDE DEF b, n
<1>5. ListOK(b, sh, go)
  BY <1>1, <1>3, NoMembers, SizesAssumption DEF ListOK
<1>6. ArchiveOK(b, Lo, go)
  <2>1. DOMAIN b.archive = {}
    BY <1>3
  <2> QED
    BY <1>1, <1>3, <2>1, NoMembers, SizesAssumption DEF ArchiveOK
<1>7. SeenOK(b, n, Lo, sh, n)
  BY <1>1, <1>2, <1>3 DEF SeenOK
<1>8. FateOK(n, Lo, sh, go, n)
  BY <1>1, <1>2 DEF FateOK
<1> QED
  BY <1>3, <1>4, <1>5, <1>6, <1>7, <1>8 DEF Account, b, n

LEMMA FewOlder ==
    ASSUME NEW B \in SUBSET Events, NEW A \in SUBSET B, Cardinality(B) < MaxItems
    PROVE  Cardinality(A) < MaxItems
<1>1. IsFiniteSet(B) /\ Cardinality(B) \in Nat
  BY EventsCanBeOrdered
<1>2. IsFiniteSet(A) /\ Cardinality(A) <= Cardinality(B)
  BY <1>1, FS_Subset
<1>3. Cardinality(A) \in Nat
  BY <1>2, FS_CardinalityType
<1> QED
  BY <1>1, <1>2, <1>3, SizesAssumption

LEMMA OlderAreEvents ==
    ASSUME NEW m \in States, NEW i \in 1 .. Len(m.archive)
    PROVE  Older(m, i) \in SUBSET Events /\ Newer(m, i) \in SUBSET Events /\ m.archive[i] \in Events
<1>1. m.items \in Seq(Events) /\ m.archive \in Seq(Events)
  BY DEF States
<1>2. /\ ToSet(m.items) \subseteq Events /\ Len(m.archive) \in Nat
      /\ \A j \in 1 .. Len(m.archive) : m.archive[j] \in Events
  BY <1>1, Members
<1>3. \A j \in 1 .. i - 1 : j \in 1 .. Len(m.archive)
  BY <1>2
<1> QED
  BY <1>2, <1>3 DEF Older, Newer

(* A poll announces nothing that was dismissed, nothing that was there at  *)
(* the first look, and nothing it has a fingerprint of.                    *)
LEMMA FreshIsNew ==
    ASSUME LogOK, NEW m, NEW sh, NEW go, NEW si, NEW p, m.baselined,
           Account(m, Len(log), Lo, sh, go, si), NEW e \in Fresh(m, p)
    PROVE  /\ e \in Recent /\ e \in Lo .. Len(log) /\ e \notin go /\ si < e
           /\ e \notin ToSet(m.items) /\ e \notin m.seen
<1>1. /\ m \in States /\ ListOK(m, sh, go) /\ ArchiveOK(m, Lo, go)
      /\ SeenOK(m, Len(log), Lo, sh, si) /\ FateOK(Len(log), Lo, sh, go, si)
  BY Looked
<1>2. e \in Recent /\ e \notin m.seen /\ e \notin ToSet(m.archive) /\ e \notin ToSet(m.items)
  BY DEF Fresh
<1>3. /\ Len(log) \in Nat /\ Lo \in Nat /\ Recent = Lo .. Len(log) /\ Len(log) < Lo + Window
  BY WindowOfLog
<1>4. e \in Int /\ Lo <= e /\ e <= Len(log)
  BY <1>2, <1>3
<1>5. e \notin go
  BY <1>1, <1>2, <1>4 DEF ArchiveOK
<1>6. si < e
  <2> SUFFICES ASSUME e <= si PROVE FALSE
    BY <1>1, <1>3, <1>4 DEF FateOK
  <2>1. si \in Nat /\ First(si) \in Int /\ si - Window + 1 <= First(si)
    <3>1. si \in Nat
      BY <1>1, <1>3 DEF FateOK
    <3>2. Least(si, Window) \in Nat /\ Least(si, Window) <= Window /\ Window \in Nat
      BY <3>1, LeastNumbers, SizesAssumption
    <3> QED
      BY <3>1, <3>2 DEF First
  <2>2. Len(log) - First(si) + 1 <= MaxSeen
    BY <1>3, <1>4, <2>1, SizesAssumption
  <2>3. e \in Lo .. si
    BY <1>3, <1>4, <2>1
  <2> QED
    BY <1>1, <1>2, <2>2, <2>3 DEF SeenOK
<1> QED
  BY <1>2, <1>3, <1>5, <1>6

LEMMA BatchIsAccount ==
    ASSUME LogOK, NEW m, NEW sh, NEW go, NEW si, NEW p, m.baselined,
           Account(m, Len(log), Lo, sh, go, si)
    PROVE  LET w == WithBatch(m, Fresh(m, p))
           IN  /\ Account(w, Len(log), Lo, sh \cup ToSet(w.items), go, si) /\ w.baselined
               /\ Fresh(m, p) = {} => Same(w, m)
               /\ ToSet(w.items) \subseteq ToSet(m.items) \cup Fresh(m, p)
               /\ w.read = m.read \cap ToSet(w.items)
<1> DEFINE batch == Fresh(m, p)
           w == WithBatch(m, batch)
           joined == OldestFirst(batch) \o m.items
           n == Len(log)
<1>1. /\ m \in States /\ ListOK(m, sh, go) /\ ArchiveOK(m, Lo, go)
      /\ SeenOK(m, n, Lo, sh, si) /\ FateOK(n, Lo, sh, go, si)
  BY Looked
<1>2. \A e \in batch : /\ e \in Recent /\ e \in Lo .. n /\ e \notin go /\ si < e
                       /\ e \notin ToSet(m.items) /\ e \notin m.seen
  BY FreshIsNew
<1>3. /\ n \in Nat /\ Lo \in Nat /\ Recent = Lo .. n /\ n < Lo + Window /\ 1 <= Lo
      /\ Recent \subseteq Events
  BY WindowOfLog
<1>4. si \in Nat /\ si <= n /\ First(si) \in Int /\ First(si) <= Lo
  BY <1>1, <1>3, FirstIsNumber DEF FateOK
<1>5. /\ OldestFirst(batch) \in Seq(Events) /\ IsInjective(OldestFirst(batch))
      /\ ToSet(OldestFirst(batch)) \subseteq batch
      /\ batch = {} => OldestFirst(batch) = <<>>
  <2>1. batch \in SUBSET Events
    BY <1>2, <1>3
  <2> HIDE DEF batch
  <2> QED
    BY <2>1, BatchInOrder
<1>6. /\ w = [m EXCEPT !.items = Cut(joined, MaxItems), !.read = @ \cap ToSet(Cut(joined, MaxItems)),
                       !.seen = @ \cup Recent]
  BY DEF WithBatch
<1> HIDE DEF batch, w
<1>7. /\ m.items \in Seq(Events) /\ IsInjective(m.items) /\ Len(m.items) <= MaxItems
      /\ ToSet(m.items) \subseteq sh \ go /\ m.read \subseteq ToSet(m.items)
  BY <1>1 DEF ListOK
<1>8. /\ joined \in Seq(Events) /\ IsInjective(joined)
      /\ ToSet(joined) = ToSet(OldestFirst(batch)) \cup ToSet(m.items)
  <2>1. ToSet(OldestFirst(batch)) \cap ToSet(m.items) = {}
    BY <1>2, <1>5
  <2> QED
    BY <1>5, <1>7, <2>1, Joined
<1> HIDE DEF joined
<1>9. /\ w.items = Cut(joined, MaxItems) /\ w.read = m.read \cap ToSet(w.items)
      /\ w.seen = m.seen \cup Recent /\ w.archive = m.archive /\ w.baselined = m.baselined
      /\ w = [items |-> w.items, read |-> w.read, archive |-> w.archive, seen |-> w.seen,
              baselined |-> w.baselined]
  BY <1>1, <1>6 DEF States
<1>10. /\ w.items \in Seq(Events) /\ IsInjective(w.items) /\ Len(w.items) <= MaxItems
       /\ ToSet(w.items) \subseteq ToSet(joined)
  <2>1. Len(joined) \in Nat
    BY <1>8, LenProperties
  <2>2. MaxItems \in Nat /\ Least(Len(joined), MaxItems) <= MaxItems
    BY <2>1, LeastNumbers, SizesAssumption
  <2>3. /\ Cut(joined, MaxItems) \in Seq(Events) /\ IsInjective(Cut(joined, MaxItems))
        /\ Len(Cut(joined, MaxItems)) = Least(Len(joined), MaxItems)
        /\ ToSet(Cut(joined, MaxItems)) \subseteq ToSet(joined)
    BY <1>8, <2>2, CutOff
  <2> QED
    BY <1>9, <2>2, <2>3
<1>11. ToSet(w.items) \subseteq ToSet(m.items) \cup batch
  BY <1>5, <1>8, <1>10
<1>12. w \in States
  BY <1>1, <1>3, <1>9, <1>10 DEF States
<1>13. ListOK(w, sh \cup ToSet(w.items), go)
  <2>1. ToSet(w.items) \cap go = {}
    BY <1>2, <1>7, <1>11
  <2> QED
    BY <1>9, <1>10, <2>1 DEF ListOK
<1>14. ArchiveOK(w, Lo, go)
  <2>1. ASSUME NEW i \in DOMAIN m.archive PROVE Cardinality(Older(w, i)) < MaxItems
    <3>1. m.archive \in Seq(Events) /\ ToSet(m.archive) \subseteq go /\ Cardinality(Older(m, i)) < MaxItems
      BY <1>1 DEF ArchiveOK
    <3>2. i \in 1 .. Len(m.archive) /\ m.archive[i] \in ToSet(m.archive)
      BY <3>1, Members
    <3>3. m.archive[i] \in Int /\ m.archive[i] <= n
      <4>1. go \subseteq si + 1 .. n
        BY <1>1 DEF FateOK
      <4>2. m.archive[i] \in si + 1 .. n
        BY <3>1, <3>2, <4>1
      <4> QED
        BY <1>3, <1>4, <4>2
    <3>4. \A x \in batch : ~ (x < m.archive[i] - Window + 1)
      <4>1. m.archive[i] - Window + 1 \in Int /\ m.archive[i] - Window + 1 <= Lo
        BY <1>3, <3>3, SizesAssumption
      <4>2. \A x \in batch : x \in Int /\ Lo <= x
        BY <1>2, <1>3
      <4> QED
        BY <1>3, <4>1, <4>2
    <3>5. Older(w, i) \subseteq Older(m, i)
      BY <1>9, <1>11, <3>4 DEF Older, Newer
    <3>6. Older(m, i) \in SUBSET Events
      BY <1>1, <3>2, OlderAreEvents
    <3> QED
      BY <3>1, <3>5, <3>6, FewOlder
  <2> QED
    BY <1>1, <1>9, <2>1 DEF ArchiveOK
<1>15. SeenOK(w, n, Lo, sh \cup ToSet(w.items), si)
  <2>1. m.seen \subseteq First(si) .. n
    BY <1>1 DEF SeenOK
  <2>2. Recent \subseteq First(si) .. n
    BY <1>3, <1>4
  <2>3. n - First(si) + 1 <= MaxSeen => sh \subseteq m.seen /\ Lo .. si \subseteq m.seen
    BY <1>1 DEF SeenOK
  <2>4. ToSet(w.items) \subseteq sh \cup Recent
    BY <1>2, <1>7, <1>11
  <2>5. n - First(si) + 1 <= MaxSeen => (sh \cup ToSet(w.items)) \cup (Lo .. si) \subseteq w.seen
    BY <1>9, <2>3, <2>4
  <2> QED
    BY <1>9, <2>1, <2>2, <2>5 DEF SeenOK
<1>16. FateOK(n, Lo, sh \cup ToSet(w.items), go, si)
  <2>1. batch \subseteq si + 1 .. n
    BY <1>2, <1>3, <1>4
  <2>2. ToSet(m.items) \subseteq si + 1 .. n
    BY <1>1, <1>7 DEF FateOK
  <2> QED
    BY <1>1, <1>11, <2>1, <2>2 DEF FateOK
<1>17. batch = {} => Same(w, m)
  <2> SUFFICES ASSUME batch = {} PROVE Same(w, m)
    OBVIOUS
  <2>1. joined = m.items
    BY <1>5, <1>7, ConcatEmptySeq DEF joined
  <2>2. w.items = m.items
    BY <1>7, <1>9, <2>1, CutOff, SizesAssumption
  <2> QED
    BY <1>7, <1>9, <2>2 DEF Same
<1>18. Account(w, n, Lo, sh \cup ToSet(w.items), go, si)
  BY <1>9, <1>12, <1>13, <1>14, <1>15, <1>16 DEF Account
<1> QED
  BY <1>9, <1>11, <1>17, <1>18 DEF w, batch

LEMMA ReadIsAccount ==
    ASSUME NEW m, NEW n, NEW lo, NEW sh, NEW go, NEW si,
           Account(m, n, lo, sh, go, si), m.baselined,
           NEW r \in SUBSET ToSet(m.items)
    PROVE  Account([m EXCEPT !.read = r], n, lo, sh, go, si)
<1> DEFINE k == [m EXCEPT !.read = r]
<1>1. /\ m \in States /\ ListOK(m, sh, go) /\ ArchiveOK(m, lo, go)
      /\ SeenOK(m, n, lo, sh, si) /\ FateOK(n, lo, sh, go, si)
  BY Looked
<1>2. m.items \in Seq(Events) /\ ToSet(m.items) \subseteq Events
  BY <1>1, Members DEF ListOK
<1>3. /\ k.items = m.items /\ k.read = r /\ k.archive = m.archive
      /\ k.seen = m.seen /\ k.baselined = m.baselined /\ k \in States
  BY <1>1, <1>2 DEF States
<1> HIDE DEF k
<1>4. ListOK(k, sh, go)
  BY <1>1, <1>3 DEF ListOK
<1>5. ArchiveOK(k, lo, go)
  BY <1>1, <1>3 DEF ArchiveOK, Older, Newer
<1>6. SeenOK(k, n, lo, sh, si)
  BY <1>1, <1>3 DEF SeenOK
<1>7. Account(k, n, lo, sh, go, si)
  BY <1>1, <1>3, <1>4, <1>5, <1>6 DEF Account
<1> QED
  BY <1>7 DEF k

LEMMA CutArchive ==
    ASSUME NEW s \in Seq(Events)
    PROVE  LET c == Cut(s, MaxArchived)
           IN  /\ c \in Seq(Events) /\ Len(c) = Least(Len(s), MaxArchived)
               /\ \A i \in 1 .. Least(Len(s), MaxArchived) : c[i] = s[i]
               /\ ToSet(c) \subseteq ToSet(s) /\ (IsInjective(s) => IsInjective(c))
<1>1. MaxArchived \in Nat
  BY SizesAssumption
<1> QED
  BY <1>1, CutOff

(* Dismissing es: what is cut off the archive is out of every window.      *)
LEMMA ArchivingIsAccount ==
    ASSUME LogOK, NEW m, NEW sh, NEW go, NEW si, m.baselined,
           Account(m, Len(log), Lo, sh, go, si),
           NEW es \in Seq(Events), IsInjective(es), ToSet(es) \subseteq ToSet(m.items),
           NEW k \in States, k.archive = Archived(m, es), k.seen = m.seen, k.baselined,
           IsInjective(k.items), Len(k.items) <= MaxItems,
           ToSet(k.items) = ToSet(m.items) \ ToSet(es), k.read \subseteq ToSet(k.items)
    PROVE  Account(k, Len(log), Lo, sh, go \cup ToSet(es), si)
<1> DEFINE n == Len(log)
           now == go \cup ToSet(es)
           joined == es \o m.archive
<1>1. /\ m \in States /\ ListOK(m, sh, go) /\ ArchiveOK(m, Lo, go)
      /\ SeenOK(m, n, Lo, sh, si) /\ FateOK(n, Lo, sh, go, si)
  BY Looked
<1>2. n \in Nat /\ Lo \in Nat /\ n < Lo + Window
  BY WindowOfLog
<1>3. /\ m.items \in Seq(Events) /\ IsInjective(m.items) /\ Len(m.items) <= MaxItems
      /\ ToSet(m.items) \subseteq sh \ go /\ Len(m.items) \in Nat
      /\ m.archive \in Seq(Events) /\ IsInjective(m.archive) /\ ToSet(m.archive) \subseteq go
      /\ Len(m.archive) \in Nat /\ Len(es) \in Nat
      /\ k.items \in Seq(Events)
  BY <1>1, LenProperties DEF ListOK, ArchiveOK, States
<1>4. Len(es) <= Len(m.items) /\ Len(m.items) <= MaxArchived
  <2>1. /\ IsFiniteSet(ToSet(m.items)) /\ Cardinality(ToSet(m.items)) = Len(m.items)
        /\ Cardinality(ToSet(es)) = Len(es)
    BY <1>3, CountMembers
  <2>2. ToSet(es) \in SUBSET ToSet(m.items)
    OBVIOUS
  <2>3. Cardinality(ToSet(es)) <= Cardinality(ToSet(m.items))
    BY <2>1, <2>2, FS_Subset
  <2> QED
    BY <1>3, <2>1, <2>3, SizesAssumption
<1>5. /\ joined \in Seq(Events) /\ Len(joined) = Len(es) + Len(m.archive) /\ IsInjective(joined)
      /\ \A i \in 1 .. Len(es) : joined[i] = es[i]
      /\ \A i \in 1 .. Len(m.archive) : joined[Len(es) + i] = m.archive[i]
      /\ ToSet(joined) = ToSet(es) \cup ToSet(m.archive)
  <2>1. ToSet(es) \cap ToSet(m.archive) = {}
    BY <1>3
  <2> QED
    BY <1>3, <2>1, Joined
<1> HIDE DEF joined
<1>6. PICK len \in Nat :
      /\ len = Least(Len(joined), MaxArchived) /\ len <= MaxArchived /\ len <= Len(joined)
      /\ Len(joined) <= MaxArchived => len = Len(joined)
      /\ len = Len(joined) \/ len = MaxArchived
  <2>1. Len(joined) \in Nat /\ MaxArchived \in Nat
    BY <1>5, LenProperties, SizesAssumption
  <2> QED
    BY <2>1 DEF Least
<1>7. /\ k.archive \in Seq(Events) /\ Len(k.archive) = len /\ IsInjective(k.archive)
      /\ \A i \in 1 .. len : k.archive[i] = joined[i]
      /\ ToSet(k.archive) \subseteq ToSet(joined) /\ DOMAIN k.archive = 1 .. len
  <2>1. k.archive = Cut(joined, MaxArchived)
    BY DEF Archived, joined
  <2> DEFINE c == Cut(joined, MaxArchived)
  <2>2. MaxArchived \in Nat /\ joined \in Seq(Events)
    BY <1>5, SizesAssumption
  <2>3. /\ c \in Seq(Events) /\ Len(c) = Least(Len(joined), MaxArchived)
        /\ \A i \in 1 .. Least(Len(joined), MaxArchived) : c[i] = joined[i]
        /\ ToSet(c) \subseteq ToSet(joined) /\ (IsInjective(joined) => IsInjective(c))
    BY <2>2, CutArchive
  <2> HIDE DEF c
  <2>4. /\ c \in Seq(Events) /\ Len(c) = len /\ IsInjective(c)
        /\ \A i \in 1 .. len : c[i] = joined[i]
        /\ ToSet(c) \subseteq ToSet(joined)
    BY <1>5, <1>6, <2>3
  <2>5. k.archive = c
    BY <2>1 DEF c
  <2>6. DOMAIN c = 1 .. len
    BY <2>4, LenProperties
  <2> QED
    BY <2>4, <2>5, <2>6
<1>8. \A i \in 1 .. Len(es) : i \in 1 .. len /\ k.archive[i] = es[i]
  BY <1>3, <1>4, <1>5, <1>6, <1>7, SizesAssumption
<1>9. \A i \in 1 .. Len(m.archive) :
         Len(es) + i <= MaxArchived =>
           Len(es) + i \in 1 .. len /\ k.archive[Len(es) + i] = m.archive[i]
  <2> TAKE i \in 1 .. Len(m.archive)
  <2> HAVE Len(es) + i <= MaxArchived
  <2>1. Len(es) \in Nat /\ Len(m.archive) \in Nat
    BY <1>3, LenProperties
  <2>2. Len(es) + i \in 1 .. len
    BY <1>5, <1>6, <2>1
  <2> QED
    BY <1>5, <1>7, <2>2
<1>10. ListOK(k, sh, now)
  BY <1>3 DEF ListOK
<1>11. ASSUME NEW e \in now, e >= Lo PROVE e \in ToSet(k.archive)
  <2>1. CASE e \in ToSet(es)
    <3>1. PICK i \in 1 .. Len(es) : es[i] = e
      BY <2>1, Members
    <3> QED
      BY <1>7, <1>8, <3>1, Members
  <2>2. CASE e \in go
    <3>1. e \in ToSet(m.archive)
      BY <1>1, <1>11, <2>2 DEF ArchiveOK
    <3>2. PICK i \in 1 .. Len(m.archive) : m.archive[i] = e
      BY <1>3, <3>1, Members
    <3>3. Len(m.items) + i <= MaxArchived
      <4>1. go \subseteq sh /\ sh \subseteq 1 .. n
        BY <1>1, <1>2 DEF FateOK
      <4>2. m.archive[i] >= Lo /\ Lo \in Int
        BY <1>2, <1>11, <3>2
      <4> QED
        BY <1>1, <1>2, <4>1, <4>2, StaysArchived
    <3>4. Len(es) + i <= MaxArchived
      BY <1>3, <1>4, <3>3, SizesAssumption
    <3> QED
      BY <1>7, <1>9, <3>2, <3>4, Members
  <2> QED
    BY <2>1, <2>2
<1>12. ASSUME NEW i \in 1 .. len PROVE Cardinality(Older(k, i)) < MaxItems
  <2>1. CASE i <= Len(es)
    <3> DEFINE B == ToSet(m.items) \ {es[i]}
    <3>1. i \in 1 .. Len(es) /\ k.archive[i] = es[i] /\ es[i] \in ToSet(es)
      BY <1>3, <1>8, <2>1, Members
    <3>2. Cardinality(B) < MaxItems /\ B \in SUBSET Events
      <4>1. IsFiniteSet(ToSet(m.items)) /\ Cardinality(ToSet(m.items)) = Len(m.items)
        BY <1>3, CountMembers
      <4>0. es[i] \in ToSet(m.items)
        BY <3>1
      <4>2. Cardinality(B) = Cardinality(ToSet(m.items)) - 1
        BY <4>0, <4>1, FS_RemoveElement
      <4>3. ToSet(m.items) \subseteq Events
        BY <1>3, Members
      <4> QED
        BY <1>3, <4>1, <4>2, <4>3, SizesAssumption
    <3>3. \A j \in 1 .. i - 1 : k.archive[j] \in B
      <4> TAKE j \in 1 .. i - 1
      <4>1. j \in 1 .. Len(es) /\ j # i /\ DOMAIN es = 1 .. Len(es)
        BY <1>3, <3>1, LenProperties
      <4>2. es[j] # es[i] /\ es[j] \in ToSet(es)
        BY <3>1, <4>1, Members DEF IsInjective
      <4> QED
        BY <1>8, <4>1, <4>2
    <3>4. Older(k, i) \in SUBSET B
      BY <3>1, <3>3 DEF Older, Newer
    <3> QED
      BY <3>2, <3>4, FewOlder
  <2>2. CASE ~ (i <= Len(es))
    <3> DEFINE j == i - Len(es)
    <3>1. j \in 1 .. Len(m.archive) /\ i = Len(es) + j
      BY <1>3, <1>5, <1>6, <2>2
    <3>2. k.archive[i] = m.archive[j]
      BY <1>5, <1>7, <3>1
    <3>3. \A l \in 1 .. i - 1 : k.archive[l] \in Newer(m, j)
      <4> TAKE l \in 1 .. i - 1
      <4>1. l \in 1 .. len /\ k.archive[l] = joined[l]
        BY <1>7
      <4>2. CASE l <= Len(es)
        <5>1. l \in 1 .. Len(es)
          BY <1>3, <4>2
        <5>2. k.archive[l] \in ToSet(m.items)
          BY <1>8, <5>1, Members
        <5> QED
          BY <5>2 DEF Newer
      <4>3. CASE ~ (l <= Len(es))
        <5>1. /\ l - Len(es) \in 1 .. j - 1 /\ l - Len(es) \in 1 .. Len(m.archive)
              /\ Len(es) + (l - Len(es)) = l
          BY <1>3, <3>1, <4>3
        <5>2. k.archive[l] = m.archive[l - Len(es)]
          BY <1>5, <4>1, <5>1
        <5> QED
          BY <5>1, <5>2 DEF Newer
      <4> QED
        BY <4>2, <4>3
    <3>4. Older(k, i) \in SUBSET Older(m, j)
      BY <3>2, <3>3 DEF Older, Newer
    <3>5. Cardinality(Older(m, j)) < MaxItems
      <4>1. DOMAIN m.archive = 1 .. Len(m.archive)
        BY <1>3, LenProperties
      <4> QED
        BY <1>1, <3>1, <4>1 DEF ArchiveOK
    <3>6. Older(m, j) \in SUBSET Events
      BY <1>1, <3>1, OlderAreEvents
    <3> QED
      BY <3>4, <3>5, <3>6, FewOlder
  <2> QED
    BY <2>1, <2>2
<1>13. ArchiveOK(k, Lo, now)
  BY <1>3, <1>5, <1>6, <1>7, <1>11, <1>12 DEF ArchiveOK
<1>14. SeenOK(k, n, Lo, sh, si)
  BY <1>1 DEF SeenOK
<1>15. FateOK(n, Lo, sh, now, si)
  BY <1>1, <1>3 DEF FateOK
<1> QED
  BY <1>10, <1>13, <1>14, <1>15 DEF Account

LEMMA DismissalIsAccount ==
    ASSUME LogOK, NEW m, NEW sh, NEW go, NEW si, m.baselined,
           Account(m, Len(log), Lo, sh, go, si), NEW i \in DOMAIN m.items
    PROVE  LET e == m.items[i]
               k == [m EXCEPT !.items = RemoveAt(@, i), !.read = @ \ {e},
                              !.archive = Archived(m, <<e>>)]
           IN  /\ Account(k, Len(log), Lo, sh, go \cup {e}, si) /\ k.baselined
               /\ ToSet(k.items) = ToSet(m.items) \ {e} /\ k.read = m.read \ {e}
<1> DEFINE e == m.items[i]
           k == [m EXCEPT !.items = RemoveAt(@, i), !.read = @ \ {e},
                          !.archive = Archived(m, <<e>>)]
<1>1. m \in States /\ ListOK(m, sh, go) /\ ArchiveOK(m, Lo, go)
  BY Looked
<1>2. /\ m.items \in Seq(Events) /\ IsInjective(m.items) /\ Len(m.items) <= MaxItems
      /\ m.archive \in Seq(Events) /\ m.read \subseteq ToSet(m.items) /\ Len(m.items) \in Nat
      /\ Len(m.archive) \in Nat
  BY <1>1, LenProperties DEF ListOK, ArchiveOK
<1>3. i \in 1 .. Len(m.items) /\ e \in Events /\ e \in ToSet(m.items)
  BY <1>2, Members
<1>4. /\ RemoveAt(m.items, i) \in Seq(Events) /\ Len(RemoveAt(m.items, i)) = Len(m.items) - 1
      /\ ToSet(RemoveAt(m.items, i)) = ToSet(m.items) \ {e} /\ IsInjective(RemoveAt(m.items, i))
  BY <1>2, <1>3, LeftOut
<1>5. /\ <<e>> \in Seq(Events) /\ Len(<<e>>) = 1 /\ ToSet(<<e>>) = {e} /\ IsInjective(<<e>>)
  BY <1>3 DEF ToSet, IsInjective
<1>6. Archived(m, <<e>>) \in Seq(Events)
  <2>1. <<e>> \o m.archive \in Seq(Events)
    BY <1>2, <1>5, ConcatProperties
  <2> QED
    BY <2>1, CutOff, SizesAssumption DEF Archived
<1> HIDE DEF e
<1>7. /\ k \in States /\ k.items = RemoveAt(m.items, i) /\ k.read = m.read \ {e}
      /\ k.archive = Archived(m, <<e>>) /\ k.seen = m.seen /\ k.baselined
  BY <1>1, <1>4, <1>6 DEF States
<1> HIDE DEF k
<1>8. Len(k.items) <= MaxItems /\ k.read \subseteq ToSet(k.items)
  BY <1>2, <1>4, <1>7, SizesAssumption
<1>9. Account(k, Len(log), Lo, sh, go \cup ToSet(<<e>>), si)
  BY <1>3, <1>4, <1>5, <1>7, <1>8, ArchivingIsAccount
<1> QED
  BY <1>4, <1>5, <1>7, <1>9 DEF k, e

LEMMA ClearanceIsAccount ==
    ASSUME LogOK, NEW m, NEW sh, NEW go, NEW si, m.baselined,
           Account(m, Len(log), Lo, sh, go, si)
    PROVE  LET k == [m EXCEPT !.items = <<>>, !.read = {},
                              !.archive = Archived(m, m.items)]
           IN  /\ Account(k, Len(log), Lo, sh, go \cup ToSet(m.items), si) /\ k.baselined
               /\ k.items = <<>> /\ k.read = {}
<1> DEFINE k == [m EXCEPT !.items = <<>>, !.read = {},
                          !.archive = Archived(m, m.items)]
<1>1. m \in States /\ ListOK(m, sh, go) /\ ArchiveOK(m, Lo, go)
  BY Looked
<1>2. /\ m.items \in Seq(Events) /\ IsInjective(m.items)
      /\ m.archive \in Seq(Events) /\ Len(m.archive) \in Nat /\ Len(m.items) \in Nat
  BY <1>1, LenProperties DEF ListOK, ArchiveOK
<1>3. Archived(m, m.items) \in Seq(Events)
  <2>1. m.items \o m.archive \in Seq(Events)
    BY <1>2, ConcatProperties
  <2> QED
    BY <2>1, CutOff, SizesAssumption DEF Archived
<1>4. <<>> \in Seq(Events) /\ ToSet(<<>>) = {} /\ IsInjective(<<>>) /\ Len(<<>>) = 0
  BY NoMembers
<1>5. /\ k \in States /\ k.items = <<>> /\ k.read = {} /\ k.archive = Archived(m, m.items)
      /\ k.seen = m.seen /\ k.baselined
  BY <1>1, <1>3, <1>4 DEF States
<1> HIDE DEF k
<1>6. Len(k.items) <= MaxItems /\ k.read \subseteq ToSet(k.items) /\ IsInjective(k.items)
      /\ ToSet(k.items) = ToSet(m.items) \ ToSet(m.items)
  BY <1>4, <1>5, SizesAssumption
<1>7. Account(k, Len(log), Lo, sh, go \cup ToSet(m.items), si)
  BY <1>2, <1>5, <1>6, ArchivingIsAccount
<1> QED
  BY <1>5, <1>7 DEF k

(***************************************************************************)
(* What becomes of an event.                                               *)
(***************************************************************************)

\* LifeOf, of the state m of an account.
Stage(m, sh, go, si, e) ==
    IF e \in m.read THEN "read"
    ELSE IF e \in ToSet(m.items) THEN "unread"
    ELSE IF e \in go THEN "gone"
    ELSE IF e <= si THEN "barred"
    ELSE IF e \in sh THEN "out"
    ELSE "new"

\* From one state of an account to the next, with n events in the log.
Lawful(e, n, si, s, t) ==
    /\ I!Follows(s, t)
    /\ s = "out" /\ t = "unread" => n - si + Least(si, Window) > MaxSeen

LEMMA Tidy ==
    ASSUME NEW m, NEW n \in Nat, NEW lo, NEW sh, NEW go, NEW si,
           Account(m, n, lo, sh, go, si)
    PROVE  /\ m.read \subseteq ToSet(m.items) /\ ToSet(m.items) \subseteq sh
           /\ ToSet(m.items) \cap go = {} /\ go \subseteq sh /\ sh \subseteq Int
           /\ \A e \in sh : si < e /\ ~ (e <= si)
           /\ si \in Int
<1>1. CASE m.baselined
  <2>1. ListOK(m, sh, go) /\ FateOK(n, lo, sh, go, si)
    BY <1>1, Looked
  <2>2. si \in Int /\ sh \subseteq si + 1 .. n
    BY <2>1 DEF FateOK
  <2>3. \A e \in sh : e \in Int /\ si < e /\ ~ (e <= si)
    BY <2>2
  <2> QED
    BY <2>1, <2>2, <2>3 DEF ListOK, FateOK
<1>2. CASE ~ m.baselined
  <2>1. m = Blank /\ sh = {} /\ go = {} /\ si = -1
    BY <1>2, Looked
  <2>2. m.read = {} /\ ToSet(m.items) = {}
    BY <2>1, NoMembers DEF Blank
  <2> QED
    BY <2>1, <2>2
<1> QED
  BY <1>1, <1>2

LEMMA PollIsLawful ==
    ASSUME LogOK, NEW m, NEW sh, NEW go, NEW si, NEW p, m.baselined,
           Account(m, Len(log), Lo, sh, go, si), NEW e \in Events
    PROVE  LET w == WithBatch(m, Fresh(m, p))
           IN  Lawful(e, Len(log), si, Stage(m, sh, go, si, e),
                      Stage(w, sh \cup ToSet(w.items), go, si, e))
<1> DEFINE w == WithBatch(m, Fresh(m, p))
           n == Len(log)
           now == sh \cup ToSet(w.items)
<1>1. /\ Account(w, n, Lo, now, go, si)
      /\ ToSet(w.items) \subseteq ToSet(m.items) \cup Fresh(m, p)
      /\ w.read = m.read \cap ToSet(w.items)
  BY BatchIsAccount
<1>2. n \in Nat /\ Lo \in Nat
  BY WindowOfLog
<1> HIDE DEF w
<1>3. /\ m.read \subseteq ToSet(m.items) /\ ToSet(m.items) \subseteq sh
      /\ ToSet(m.items) \cap go = {} /\ go \subseteq sh /\ sh \subseteq Int
      /\ \A x \in sh : si < x /\ ~ (x <= si)
      /\ si \in Int
  BY <1>2, Tidy
<1>4. /\ ToSet(w.items) \cap go = {}
      /\ \A x \in now : si < x /\ ~ (x <= si)
  BY <1>1, <1>2, Tidy
<1>5. ASSUME e \in Fresh(m, p), e \in sh PROVE n - si + Least(si, Window) > MaxSeen
  <2>1. SeenOK(m, n, Lo, sh, si) /\ FateOK(n, Lo, sh, go, si)
    BY Looked
  <2>2. e \notin m.seen
    BY <1>5, FreshIsNew
  <2>3. ~ (n - First(si) + 1 <= MaxSeen)
    BY <1>5, <2>1, <2>2 DEF SeenOK
  <2>4. si \in Nat /\ Least(si, Window) \in Nat
    <3>1. si \in Nat /\ Window \in Nat
      BY <1>2, <2>1, SizesAssumption DEF FateOK
    <3> QED
      BY <3>1, LeastNumbers
  <2> QED
    BY <1>2, <2>3, <2>4, SizesAssumption DEF First
<1> HIDE DEF n
<1> SUFFICES Lawful(e, n, si, Stage(m, sh, go, si, e), Stage(w, now, go, si, e))
  BY DEF w, n
<1>6. CASE e \in m.read
  <2>1. Stage(m, sh, go, si, e) = "read" /\ Stage(w, now, go, si, e) \in {"read", "out"}
    BY <1>1, <1>3, <1>4, <1>6 DEF Stage
  <2> QED
    BY <2>1 DEF Lawful, I!Follows
<1>7. CASE e \notin m.read /\ e \in ToSet(m.items)
  <2>1. Stage(m, sh, go, si, e) = "unread" /\ Stage(w, now, go, si, e) \in {"unread", "out"}
    BY <1>1, <1>3, <1>4, <1>7 DEF Stage
  <2> QED
    BY <2>1 DEF Lawful, I!Follows
<1>8. CASE e \notin ToSet(m.items) /\ e \in go
  <2>1. Stage(m, sh, go, si, e) = "gone" /\ Stage(w, now, go, si, e) = "gone"
    BY <1>1, <1>3, <1>4, <1>8 DEF Stage
  <2> QED
    BY <2>1 DEF Lawful, I!Follows
<1>9. CASE e \notin ToSet(m.items) /\ e \notin go /\ e <= si
  <2>1. Stage(m, sh, go, si, e) = "barred" /\ Stage(w, now, go, si, e) = "barred"
    BY <1>1, <1>3, <1>4, <1>9 DEF Stage
  <2> QED
    BY <2>1 DEF Lawful, I!Follows
<1>10. CASE e \notin ToSet(m.items) /\ e \notin go /\ ~ (e <= si) /\ e \in sh
  <2>1. Stage(m, sh, go, si, e) = "out" /\ Stage(w, now, go, si, e) \in {"out", "unread"}
    BY <1>1, <1>3, <1>4, <1>10 DEF Stage
  <2>2. Stage(w, now, go, si, e) = "unread" => n - si + Least(si, Window) > MaxSeen
    BY <1>1, <1>5, <1>10 DEF Stage
  <2> QED
    BY <2>1, <2>2 DEF Lawful, I!Follows
<1>11. CASE e \notin ToSet(m.items) /\ e \notin go /\ ~ (e <= si) /\ e \notin sh
  <2>1. Stage(m, sh, go, si, e) = "new" /\ Stage(w, now, go, si, e) \in {"new", "unread"}
    BY <1>1, <1>3, <1>4, <1>11 DEF Stage
  <2> QED
    BY <2>1 DEF Lawful, I!Follows
<1> QED
  BY <1>3, <1>6, <1>7, <1>8, <1>9, <1>10, <1>11

LEMMA BaselineIsLawful ==
    ASSUME LogOK, NEW m, NEW sh, NEW go, NEW si, ~ m.baselined,
           Account(m, Len(log), Lo, sh, go, si), NEW e \in Events
    PROVE  Lawful(e, Len(log), si, Stage(m, sh, go, si, e),
                  Stage(Baseline(m), sh, go, Len(log), e))
<1>1. m = Blank /\ sh = {} /\ go = {} /\ si = -1
  BY Looked
<1>2. Baseline(m).items = m.items /\ Baseline(m).read = m.read
  BY BaselineIsAccount
<1>3. m.read = {} /\ ToSet(m.items) = {} /\ ~ (e <= si)
  BY <1>1, NoMembers, EventsAreNumbers DEF Blank
<1>4. Stage(m, sh, go, si, e) = "new"
  BY <1>1, <1>3 DEF Stage
<1>5. Stage(Baseline(m), sh, go, Len(log), e) \in {"new", "barred"}
  BY <1>1, <1>2, <1>3 DEF Stage
<1> QED
  BY <1>4, <1>5 DEF Lawful, I!Follows

LEMMA ReadingIsLawful ==
    ASSUME NEW m, NEW n \in Nat, NEW lo, NEW sh, NEW go, NEW si, m \in States,
           Account(m, n, lo, sh, go, si), NEW r \in SUBSET ToSet(m.items), m.read \subseteq r,
           NEW e
    PROVE  Lawful(e, n, si, Stage(m, sh, go, si, e), Stage([m EXCEPT !.read = r], sh, go, si, e))
<1> DEFINE k == [m EXCEPT !.read = r]
<1>1. k.items = m.items /\ k.read = r
  BY DEF States
<1> HIDE DEF k
<1>2. m.read \subseteq ToSet(m.items) /\ ToSet(m.items) \subseteq sh
  BY Tidy
<1>3. CASE e \in r
  <2>1. Stage(k, sh, go, si, e) = "read" /\ Stage(m, sh, go, si, e) \in {"read", "unread"}
    BY <1>1, <1>2, <1>3 DEF Stage
  <2> QED
    BY <2>1 DEF Lawful, I!Follows, k
<1>4. CASE e \notin r
  <2>1. Stage(k, sh, go, si, e) = Stage(m, sh, go, si, e)
    BY <1>1, <1>2, <1>4 DEF Stage
  <2> QED
    BY <2>1 DEF Lawful, I!Follows, k
<1> QED
  BY <1>3, <1>4

(* Dismissing some of the list. *)
LEMMA DismissingIsLawful ==
    ASSUME NEW m, NEW n \in Nat, NEW lo, NEW sh, NEW go, NEW si,
           Account(m, n, lo, sh, go, si), NEW es \in SUBSET ToSet(m.items),
           NEW k, ToSet(k.items) = ToSet(m.items) \ es, k.read = m.read \ es, NEW e
    PROVE  Lawful(e, n, si, Stage(m, sh, go, si, e), Stage(k, sh, go \cup es, si, e))
<1>1. m.read \subseteq ToSet(m.items)
  BY Tidy
<1>2. CASE e \in es
  <2>1. Stage(k, sh, go \cup es, si, e) = "gone" /\ Stage(m, sh, go, si, e) \in {"read", "unread"}
    BY <1>1, <1>2 DEF Stage
  <2> QED
    BY <2>1 DEF Lawful, I!Follows
<1>3. CASE e \notin es
  <2>1. Stage(k, sh, go \cup es, si, e) = Stage(m, sh, go, si, e)
    BY <1>1, <1>3 DEF Stage
  <2> QED
    BY <2>1 DEF Lawful, I!Follows
<1> QED
  BY <1>2, <1>3

(***************************************************************************)
(* The steps.                                                              *)
(***************************************************************************)

\* One account's events move on; those of the others stay.
Step(a) ==
    /\ \A e \in Events : Lawful(e, Len(log), since[a], LifeOf(a, e), LifeOf(a, e)')
    /\ \A b \in Users \ {a}, e \in Events : LifeOf(b, e)' = LifeOf(b, e)

Still == \A a \in Users, e \in Events : LifeOf(a, e)' = LifeOf(a, e)

LEMMA CentreStarts == CentreInit => CentreInv
<1> SUFFICES ASSUME CentreInit PROVE CentreInv
  OBVIOUS
<1>1. LogOK
  BY NoMembers, SizesAssumption DEF CentreInit, LogOK
<1>2. HubOK
  BY DEF CentreInit, HubOK, Profiles
<1>3. FilesOK
  <2>1. \A a \in Users : Account(file[a], Len(log), Lo, shown[a], gone[a], since[a])
    BY DEF CentreInit, Account
  <2> QED
    BY <2>1, BlankIsState, SizesAssumption DEF CentreInit, FilesOK
<1>4. MemoryOK
  BY BlankIsState, AccountsAssumption DEF CentreInit, MemoryOK
<1> QED
  BY <1>1, <1>2, <1>3, <1>4 DEF CentreInv

LEMMA LoadedIs ==
    ASSUME CentreInv, who \in Users
    PROVE  /\ Account(Loaded, Len(log), Lo, shown[who], gone[who], since[who])
           /\ Loaded \in States /\ Same(Loaded, file[who])
<1>1. who # Nobody
  BY AccountsAssumption
<1>2. CASE who = user
  BY <1>2 DEF Loaded, CentreInv, MemoryOK
<1>3. CASE who # user
  <2>1. Loaded = file[who] /\ file[who] \in States
    BY <1>1, <1>3 DEF Loaded, CentreInv, FilesOK
  <2> QED
    BY <2>1 DEF CentreInv, FilesOK, Same
<1> QED
  BY <1>2, <1>3

LEMMA SameStage ==
    ASSUME NEW m, NEW f, Same(m, f), NEW sh, NEW go, NEW si, NEW e
    PROVE  Stage(m, sh, go, si, e) = Stage(f, sh, go, si, e)
  BY DEF Same, Stage

LEMMA LifeIs ==
    ASSUME CentreInv, NEW a \in Users, NEW e
    PROVE  LifeOf(a, e) = Stage(file[a], shown[a], gone[a], since[a], e)
<1>1. StateOf(a).items = file[a].items /\ StateOf(a).read = file[a].read
  BY DEF StateOf, CentreInv, MemoryOK, Same
<1> QED
  BY <1>1 DEF LifeOf, Barred, Stage

LEMMA LifeIsNext ==
    ASSUME CentreInv', NEW a \in Users, NEW e
    PROVE  LifeOf(a, e)' = Stage(file'[a], shown'[a], gone'[a], since'[a], e)
<1>1. StateOf(a)'.items = file'[a].items /\ StateOf(a)'.read = file'[a].read
  BY DEF StateOf, CentreInv, MemoryOK, Same
<1> QED
  BY <1>1 DEF LifeOf, Barred, Stage

LEMMA NothingMoves ==
    ASSUME CentreInv, CentreInv', UNCHANGED <<file, shown, gone, since>>
    PROVE  Still
  BY LifeIs, LifeIsNext DEF Still

(* A call of the service on the account that is logged in. *)
LEMMA AccountRewritten ==
    ASSUME CentreInv, NEW u \in Users, who = u, UNCHANGED <<log, legible>>, HubOK',
           NEW m, NEW sh, NEW go, NEW si, m.baselined,
           Account(m, Len(log), Lo, sh, go, si),
           \A e \in Events :
              Lawful(e, Len(log), since[u],
                     Stage(Loaded, shown[u], gone[u], since[u], e), Stage(m, sh, go, si, e)),
           user' = u, mem' = m,
           \/ Save(m)
           \/ /\ file' = file /\ Same(m, file[u])
              /\ sh = shown[u] /\ go = gone[u] /\ si = since[u],
           shown' = [shown EXCEPT ![u] = sh],
           gone' = [gone EXCEPT ![u] = go],
           since' = [since EXCEPT ![u] = si]
    PROVE  CentreInv' /\ Step(u)
<1> DEFINE n == Len(log)
<1>1. n \in Nat /\ Lo \in Nat /\ n <= MaxEvents /\ LogOK
  BY WindowOfLog DEF CentreInv
<1>2. Len(log)' = n /\ Lo' = Lo /\ LogOK'
  BY <1>1 DEF LogOK, Lo
<1>3. /\ m \in States /\ FateOK(n, Lo, sh, go, si)
  BY Looked
<1>4. sh \in SUBSET Events /\ go \in SUBSET Events /\ si \in -1 .. MaxEvents
  <2>1. si \in Nat /\ si <= n /\ sh \subseteq si + 1 .. n /\ go \subseteq sh
    BY <1>1, <1>3 DEF FateOK
  <2>2. sh \subseteq Events
    BY <1>1, <2>1, SizesAssumption DEF Events
  <2> QED
    BY <1>1, <2>1, <2>2, SizesAssumption
<1>5. PICK k \in States :
         /\ file' = [file EXCEPT ![u] = k] /\ Same(m, k)
         /\ Account(k, n, Lo, sh, go, si)
  <2>1. file \in [Users -> States]
    BY DEF CentreInv, FilesOK
  <2>2. CASE Save(m)
    <3>1. PICK s \in Kept(m.seen) : file' = [file EXCEPT ![u] = [m EXCEPT !.seen = s]]
      BY <2>2 DEF Save
    <3>2. /\ Account([m EXCEPT !.seen = s], n, Lo, sh, go, si)
          /\ [m EXCEPT !.seen = s] \in States /\ Same(m, [m EXCEPT !.seen = s])
      <4>1. n \in Nat /\ Lo \in Int /\ Account(m, n, Lo, sh, go, si)
        BY <1>1
      <4> QED
        BY <4>1, AccountIsKept
    <3> QED
      BY <3>1, <3>2
  <2>3. CASE /\ file' = file /\ Same(m, file[u])
             /\ sh = shown[u] /\ go = gone[u] /\ si = since[u]
    <3>1. file' = [file EXCEPT ![u] = file[u]] /\ file[u] \in States
      BY <2>1, <2>3
    <3>2. Account(file[u], n, Lo, sh, go, si)
      BY <2>3 DEF CentreInv, FilesOK
    <3> QED
      BY <2>3, <3>1, <3>2
  <2> QED
    BY <2>2, <2>3
<1>6. /\ file \in [Users -> States] /\ shown \in [Users -> SUBSET Events]
      /\ gone \in [Users -> SUBSET Events] /\ since \in [Users -> -1 .. MaxEvents]
  BY DEF CentreInv, FilesOK
<1>7. /\ file'[u] = k /\ shown'[u] = sh /\ gone'[u] = go /\ since'[u] = si
      /\ \A b \in Users \ {u} : /\ file'[b] = file[b] /\ shown'[b] = shown[b]
                                  /\ gone'[b] = gone[b] /\ since'[b] = since[b]
  BY <1>5, <1>6
<1>8. FilesOK'
  <2>1. \A a \in Users : Account(file'[a], n, Lo, shown'[a], gone'[a], since'[a])
    BY <1>5, <1>7 DEF CentreInv, FilesOK
  <2>2. /\ file' \in [Users -> States] /\ shown' \in [Users -> SUBSET Events]
        /\ gone' \in [Users -> SUBSET Events] /\ since' \in [Users -> -1 .. MaxEvents]
    BY <1>4, <1>5, <1>6
  <2> QED
    BY <1>2, <2>1, <2>2 DEF FilesOK
<1>9. MemoryOK'
  <2>1. user' # Nobody
    BY AccountsAssumption
  <2>2. Account(m, n, Lo, shown'[u], gone'[u], since'[u]) /\ Same(m, file'[u])
    BY <1>5, <1>7
  <2> QED
    BY <1>2, <1>3, <2>1, <2>2 DEF MemoryOK
<1>10. CentreInv'
  BY <1>2, <1>8, <1>9 DEF CentreInv
<1>11. \A e \in Events : Lawful(e, n, since[u], LifeOf(u, e), LifeOf(u, e)')
  <2> TAKE e \in Events
  <2>1. LifeOf(u, e) = Stage(file[u], shown[u], gone[u], since[u], e)
    BY LifeIs
  <2>2. LifeOf(u, e)' = Stage(k, sh, go, si, e)
    BY <1>7, <1>10, LifeIsNext
  <2>3. /\ Stage(file[u], shown[u], gone[u], since[u], e)
             = Stage(Loaded, shown[u], gone[u], since[u], e)
        /\ Stage(k, sh, go, si, e) = Stage(m, sh, go, si, e)
    BY <1>5, LoadedIs, SameStage
  <2> QED
    BY <2>1, <2>2, <2>3
<1>12. \A b \in Users \ {u}, e \in Events : LifeOf(b, e)' = LifeOf(b, e)
  BY <1>7, <1>10, LifeIs, LifeIsNext
<1> QED
  BY <1>10, <1>11, <1>12 DEF Step

LEMMA PollSteps ==
    ASSUME CentreInv, NEW u \in Users, who = u, HubOK', NEW p, Poll(p)
    PROVE  CentreInv' /\ Step(u)
<1> DEFINE m == Loaded
           n == Len(log)
<1>1. /\ Account(m, n, Lo, shown[u], gone[u], since[u]) /\ m \in States
      /\ Same(m, file[u])
  BY LoadedIs
<1>2. /\ LogOK /\ shown \in [Users -> SUBSET Events]
      /\ gone \in [Users -> SUBSET Events] /\ since \in [Users -> -1 .. MaxEvents]
  BY DEF CentreInv, FilesOK
<1>3. /\ user' = u /\ UNCHANGED <<log, legible>> /\ gone' = [gone EXCEPT ![u] = gone[u]]
  BY <1>2 DEF Poll
<1>4. CASE ~ m.baselined
  <2> DEFINE b == Baseline(m)
  <2>1. /\ mem' = b /\ Save(b) /\ since' = [since EXCEPT ![u] = n]
        /\ shown' = [shown EXCEPT ![u] = shown[u]]
    BY <1>2, <1>4 DEF Poll
  <2>2. Account(b, n, Lo, shown[u], gone[u], n) /\ b.baselined
    BY <1>1, <1>2, <1>4, BaselineIsAccount
  <2>3. \A e \in Events :
           Lawful(e, n, since[u], Stage(m, shown[u], gone[u], since[u], e),
                  Stage(b, shown[u], gone[u], n, e))
    BY <1>1, <1>2, <1>4, BaselineIsLawful
  <2> HIDE DEF b
  <2> QED
    BY <1>3, <2>1, <2>2, <2>3, AccountRewritten
<1>5. CASE m.baselined
  <2> DEFINE w == WithBatch(m, Fresh(m, p))
             now == shown[u] \cup ToSet(w.items)
  <2>1. /\ mem' = w
        /\ IF Fresh(m, p) = {} THEN UNCHANGED file ELSE Save(w)
        /\ shown' = [shown EXCEPT ![u] = now]
        /\ since' = [since EXCEPT ![u] = since[u]]
    BY <1>2, <1>5 DEF Poll
  <2>2. /\ Account(w, n, Lo, now, gone[u], since[u]) /\ w.baselined
        /\ Fresh(m, p) = {} => Same(w, m)
        /\ ToSet(w.items) \subseteq ToSet(m.items) \cup Fresh(m, p)
    BY <1>1, <1>2, <1>5, BatchIsAccount
  <2>3. \A e \in Events :
           Lawful(e, n, since[u], Stage(m, shown[u], gone[u], since[u], e),
                  Stage(w, now, gone[u], since[u], e))
    BY <1>1, <1>2, <1>5, PollIsLawful
  <2>4. Fresh(m, p) = {} => Same(w, file[u]) /\ now = shown[u]
    <3>1. ToSet(m.items) \subseteq shown[u]
      <4>1. ListOK(m, shown[u], gone[u])
        BY <1>1, <1>5, Looked
      <4> QED
        BY <4>1 DEF ListOK
    <3> QED
      BY <1>1, <2>2, <3>1 DEF Same
  <2>5. \/ Save(w)
        \/ /\ file' = file /\ Same(w, file[u]) /\ now = shown[u]
    BY <2>1, <2>4
  <2> HIDE DEF w, now
  <2> QED
    BY <1>3, <2>1, <2>2, <2>3, <2>5, AccountRewritten
<1> QED
  BY <1>4, <1>5

LEMMA EditSteps ==
    ASSUME CentreInv, NEW u \in Users, who = u, NEW m, NEW es, Edit(m, es), m.baselined,
           Account(m, Len(log), Lo, shown[u], gone[u] \cup es, since[u]),
           \A e \in Events :
              Lawful(e, Len(log), since[u],
                     Stage(Loaded, shown[u], gone[u], since[u], e),
                     Stage(m, shown[u], gone[u] \cup es, since[u], e))
    PROVE  CentreInv' /\ Step(u)
<1>1. /\ shown \in [Users -> SUBSET Events] /\ since \in [Users -> -1 .. MaxEvents]
      /\ HubOK
  BY DEF CentreInv, FilesOK
<1>2. /\ user' = u /\ mem' = m /\ Save(m) /\ UNCHANGED <<log, legible>>
      /\ gone' = [gone EXCEPT ![u] = gone[u] \cup es]
      /\ shown' = [shown EXCEPT ![u] = shown[u]]
      /\ since' = [since EXCEPT ![u] = since[u]]
  BY <1>1 DEF Edit
<1>3. HubOK'
  BY <1>1, <1>2 DEF Edit, HubOK, hub
<1> QED
  BY <1>2, <1>3, AccountRewritten

LEMMA BlankIsWellFormed == WellFormed(Blank)
<1>1. Blank.items = <<>> /\ Blank.archive = <<>> /\ Blank.read = {} /\ Blank \in States
  BY BlankIsState DEF Blank
<1>2. <<>> \o <<>> = <<>>
  BY ConcatEmptySeq, NoMembers
<1> QED
  BY <1>1, <1>2, NoMembers, SizesAssumption DEF WellFormed

LEMMA WindowMoves ==
    ASSUME NEW n \in Int, NEW l \in Int, NEW k \in Int, k <= l + 1
    PROVE  ((n + 1) - k) + 1 \in Int /\ (n - l) + 1 <= ((n + 1) - k) + 1
  OBVIOUS

LEMMA EventSteps ==
    ASSUME CentreInv, NEW kind \in Kinds, NEW rotates \in BOOLEAN, LogEvent(kind, rotates)
    PROVE  CentreInv' /\ Still
<1> DEFINE n == Len(log)
<1>1. n \in Nat /\ Lo \in Nat /\ LogOK /\ legible \in Nat /\ legible <= n /\ legible <= Window
  BY WindowOfLog, SizesAssumption DEF CentreInv, LogOK
<1>2. Len(log') = n + 1 /\ log' \in Seq(Kinds) /\ n < MaxEvents
  BY <1>1 DEF LogEvent, LogOK
<1>3. legible' \in Nat /\ legible' <= Window /\ legible' <= n + 1 /\ legible' <= legible + 1
  <2>1. CASE rotates
    BY <1>1, <2>1, SizesAssumption DEF LogEvent
  <2>2. CASE ~ rotates
    <3>1. legible' = Least(legible + 1, Window) /\ legible + 1 \in Nat /\ Window \in Nat
      BY <1>1, <2>2, SizesAssumption DEF LogEvent
    <3>2. Least(legible + 1, Window) \in Nat /\ Least(legible + 1, Window) <= legible + 1
          /\ Least(legible + 1, Window) <= Window
      BY <3>1, LeastNumbers
    <3> QED
      BY <1>1, <3>1, <3>2
  <2> QED
    BY <2>1, <2>2
<1>4. LogOK'
  BY <1>1, <1>2, <1>3, SizesAssumption DEF LogOK
<1>5. Lo' \in Int /\ Lo <= Lo'
  <2>1. Lo' = (n + 1) - legible' + 1
    BY <1>2 DEF Lo
  <2>2. Lo = n - legible + 1
    BY DEF Lo
  <2>3. /\ n \in Int /\ legible \in Int /\ legible' \in Int /\ legible' <= legible + 1
    BY <1>1, <1>3
  <2>4. ((n + 1) - legible') + 1 \in Int /\ (n - legible) + 1 <= ((n + 1) - legible') + 1
    BY <2>3, WindowMoves
  <2> QED
    BY <2>1, <2>2, <2>4
<1>6. UNCHANGED <<who, opening, profile, user, mem, file, shown, gone, since>>
  BY DEF LogEvent, hub, past
<1>7. ASSUME NEW m, NEW a \in Users, Account(m, n, Lo, shown[a], gone[a], since[a])
      PROVE  Account(m, Len(log'), Lo', shown[a], gone[a], since[a])
  <2>1. gone[a] \subseteq Events
    BY DEF CentreInv, FilesOK
  <2>2. Account(m, n + 1, Lo', shown[a], gone[a], since[a])
    BY <1>1, <1>5, <1>7, <2>1, AccountGrows
  <2> QED
    BY <1>2, <2>2
<1>8. HubOK'
  BY <1>6 DEF CentreInv, HubOK
<1>9. FilesOK'
  BY <1>6, <1>7 DEF CentreInv, FilesOK
<1>10. MemoryOK'
  BY <1>6, <1>7 DEF CentreInv, MemoryOK
<1>11. CentreInv'
  BY <1>4, <1>8, <1>9, <1>10 DEF CentreInv
<1> QED
  BY <1>6, <1>11, NothingMoves

(* Steps that change nothing of an account but where it is kept. *)
LEMMA HubSteps ==
    ASSUME CentreInv, HubOK', UNCHANGED <<log, legible, file, shown, gone, since>>,
           \/ user' = user /\ mem' = mem
           \/ user' = Nobody /\ mem' = Blank
    PROVE  CentreInv' /\ Still
<1>1. LogOK' /\ Lo' = Lo
  BY DEF CentreInv, LogOK, Lo
<1>2. FilesOK'
  BY <1>1 DEF CentreInv, FilesOK
<1>3. MemoryOK'
  <2>1. CASE user' = user /\ mem' = mem
    BY <1>1, <2>1 DEF CentreInv, MemoryOK
  <2>2. CASE user' = Nobody /\ mem' = Blank
    BY <2>2, BlankIsState, AccountsAssumption DEF MemoryOK
  <2> QED
    BY <2>1, <2>2
<1>4. CentreInv'
  BY <1>1, <1>2, <1>3 DEF CentreInv
<1> QED
  BY <1>4, NothingMoves

LEMMA ShowSteps ==
    ASSUME CentreInv, NEW u \in Users, who = u, NEW p \in Profiles, ShowDashboard(p)
    PROVE  CentreInv' /\ Step(u)
<1>1. HubOK'
  BY DEF CentreInv, HubOK, ShowDashboard, Poll
<1> QED
  BY <1>1, PollSteps DEF ShowDashboard

LEMMA ReadingSteps ==
    ASSUME CentreInv, NEW u \in Users, who = u,
           NEW r \in SUBSET ToSet(Loaded.items), Loaded.read \subseteq r, r # {},
           Edit([Loaded EXCEPT !.read = r], {})
    PROVE  CentreInv' /\ Step(u)
<1> DEFINE m == Loaded
           k == [m EXCEPT !.read = r]
           n == Len(log)
<1>1. Account(m, n, Lo, shown[u], gone[u], since[u]) /\ m \in States
  BY LoadedIs
<1>2. m.baselined
  BY <1>1, Looked, NoMembers DEF Blank
<1>3. n \in Nat
  BY WindowOfLog DEF CentreInv
<1>4. Account(k, n, Lo, shown[u], gone[u] \cup {}, since[u]) /\ k.baselined
  BY <1>1, <1>2, ReadIsAccount DEF States
<1>5. \A e \in Events :
         Lawful(e, n, since[u], Stage(m, shown[u], gone[u], since[u], e),
                Stage(k, shown[u], gone[u] \cup {}, since[u], e))
  BY <1>1, <1>3, ReadingIsLawful
<1> QED
  BY <1>4, <1>5, EditSteps

LEMMA DismissSteps ==
    ASSUME CentreInv, NEW e, Dismiss(e)
    PROVE  who \in Users /\ CentreInv' /\ \A u \in Users : u = who => Step(u)
<1>0. who \in Users
  BY DEF Dismiss, InFront
<1>00. PICK u \in Users : u = who
  BY <1>0
<1> DEFINE m == Loaded
           n == Len(log)
<1>1. Account(m, n, Lo, shown[u], gone[u], since[u]) /\ m \in States
  BY <1>00, LoadedIs
<1>2. PICK i \in DOMAIN m.items :
         /\ m.items[i] = e
         /\ Edit([m EXCEPT !.items = RemoveAt(@, i), !.read = @ \ {e},
                           !.archive = Archived(m, <<e>>)], {e})
  BY DEF Dismiss
<1> DEFINE k == [m EXCEPT !.items = RemoveAt(@, i), !.read = @ \ {e},
                          !.archive = Archived(m, <<e>>)]
<1>3. m.baselined
  <2>1. e \in ToSet(m.items)
    BY <1>2 DEF ToSet
  <2> QED
    BY <1>1, <2>1, Looked, NoMembers DEF Blank
<1>4. LogOK /\ n \in Nat
  BY WindowOfLog DEF CentreInv
<1>5. /\ Account(k, n, Lo, shown[u], gone[u] \cup {e}, since[u]) /\ k.baselined
      /\ ToSet(k.items) = ToSet(m.items) \ {e} /\ k.read = m.read \ {e}
  BY <1>1, <1>2, <1>3, <1>4, DismissalIsAccount
<1>6. e \in ToSet(m.items)
  BY <1>2 DEF ToSet
<1> HIDE DEF k
<1>7. \A x \in Events :
         Lawful(x, n, since[u], Stage(m, shown[u], gone[u], since[u], x),
                Stage(k, shown[u], gone[u] \cup {e}, since[u], x))
  BY <1>1, <1>4, <1>5, <1>6, DismissingIsLawful
<1>8. Edit(k, {e})
  BY <1>2 DEF k
<1>9. CentreInv' /\ Step(u)
  BY <1>00, <1>5, <1>7, <1>8, EditSteps
<1> QED
  BY <1>0, <1>00, <1>9

LEMMA ClearSteps ==
    ASSUME CentreInv, DismissAll
    PROVE  who \in Users /\ CentreInv' /\ \A u \in Users : u = who => Step(u)
<1>0. who \in Users
  BY DEF DismissAll, InFront
<1>00. PICK u \in Users : u = who
  BY <1>0
<1> DEFINE m == Loaded
           n == Len(log)
           k == [m EXCEPT !.items = <<>>, !.read = {}, !.archive = Archived(m, m.items)]
<1>1. Account(m, n, Lo, shown[u], gone[u], since[u]) /\ m \in States
  BY <1>00, LoadedIs
<1>2. m.items # <<>> /\ Edit(k, ToSet(m.items))
  BY DEF DismissAll
<1>3. m.baselined
  BY <1>1, <1>2, Looked DEF Blank
<1>4. LogOK /\ n \in Nat
  BY WindowOfLog DEF CentreInv
<1>5. /\ Account(k, n, Lo, shown[u], gone[u] \cup ToSet(m.items), since[u]) /\ k.baselined
      /\ k.items = <<>> /\ k.read = {}
  BY <1>1, <1>3, <1>4, ClearanceIsAccount
<1> HIDE DEF k
<1>6. ToSet(k.items) = ToSet(m.items) \ ToSet(m.items) /\ k.read = m.read \ ToSet(m.items)
  <2>1. m.read \subseteq ToSet(m.items)
    BY <1>1, <1>4, Tidy
  <2> QED
    BY <1>5, <2>1, NoMembers
<1>7. \A x \in Events :
         Lawful(x, n, since[u], Stage(m, shown[u], gone[u], since[u], x),
                Stage(k, shown[u], gone[u] \cup ToSet(m.items), since[u], x))
  BY <1>1, <1>4, <1>6, DismissingIsLawful
<1>8. CentreInv' /\ Step(u)
  BY <1>00, <1>2, <1>5, <1>7, EditSteps
<1> QED
  BY <1>0, <1>00, <1>8

LEMMA CentreSteps ==
    ASSUME CentreInv, [CentreNext]_centreVars
    PROVE  CentreInv' /\ (Still \/ \E u \in Users : Step(u))
<1>1. HubOK /\ (who = Nobody \/ who \in Users)
  BY DEF CentreInv, HubOK
<1>2. ASSUME NEW kind \in Kinds, NEW rotates \in BOOLEAN, LogEvent(kind, rotates)
      PROVE  CentreInv' /\ Still
  BY <1>2, EventSteps
<1>3. CASE Refresh
  <2>1. CASE who = Nobody
    <3>1. PollForNobody /\ UNCHANGED hub
      BY <1>3, <2>1 DEF Refresh
    <3>2. HubOK'
      BY <1>1, <3>1 DEF HubOK, hub, PollForNobody
    <3>3. UNCHANGED <<log, legible, file, shown, gone, since>> /\ user' = Nobody /\ mem' = Blank
      BY <3>1 DEF PollForNobody, past
    <3> QED
      BY <3>2, <3>3, HubSteps
  <2>2. CASE who # Nobody
    <3>1. PICK u \in Users : who = u
      BY <1>1, <2>2
    <3>2. Poll(profile) /\ UNCHANGED hub
      BY <1>3, <2>2 DEF Refresh
    <3>3. HubOK'
      BY <1>1, <3>2 DEF HubOK, hub, Poll
    <3>4. CentreInv' /\ Step(u)
      BY <3>1, <3>2, <3>3, PollSteps
    <3> QED
      BY <3>4
  <2> QED
    BY <2>1, <2>2
<1>4. ASSUME NEW u \in Users, LogIn(u) PROVE CentreInv' /\ Still
  <2>1. HubOK' /\ UNCHANGED <<log, legible, file, shown, gone, since>>
    BY <1>1, <1>4 DEF HubOK, LogIn, past
  <2>2. user' = user /\ mem' = mem
    BY <1>4 DEF LogIn, past
  <2>3. \/ user' = user /\ mem' = mem
        \/ user' = Nobody /\ mem' = Blank
    BY <2>2
  <2> QED
    BY <2>1, <2>3, HubSteps
<1>5. ASSUME NEW p \in Profiles, ShowDashboard(p), who \in Users
      PROVE  CentreInv' /\ \E u \in Users : Step(u)
  <2>1. PICK u \in Users : who = u
    BY <1>5
  <2>2. CentreInv' /\ Step(u)
    BY <1>5, <2>1, ShowSteps
  <2> QED
    BY <2>2
<1>6. CASE OpenDashboard
  <2>1. who \in Users
    BY <1>1, <1>6 DEF OpenDashboard, HubOK
  <2>2. \E p \in Profiles : ShowDashboard(p)
    BY <1>6 DEF OpenDashboard, Profiles
  <2> QED
    BY <1>5, <2>1, <2>2
<1>7. ASSUME NEW p \in Profiles, SwitchProfile(p) PROVE CentreInv' /\ \E u \in Users : Step(u)
  BY <1>5, <1>7 DEF SwitchProfile
<1>8. CASE LogOut
  <2>1. HubOK' /\ UNCHANGED <<log, legible, file, shown, gone, since>>
    BY <1>1, <1>8 DEF HubOK, LogOut, past
  <2>2. user' = user /\ mem' = mem
    BY <1>8 DEF LogOut, past
  <2>3. \/ user' = user /\ mem' = mem
        \/ user' = Nobody /\ mem' = Blank
    BY <2>2
  <2> QED
    BY <2>1, <2>3, HubSteps
<1>9. CASE Restart
  <2>1. /\ HubOK' /\ UNCHANGED <<log, legible, file, shown, gone, since>>
        /\ user' = Nobody /\ mem' = Blank
    BY <1>1, <1>9 DEF HubOK, Restart, past, Profiles
  <2> QED
    BY <2>1, HubSteps
<1>10. ASSUME NEW r, r \subseteq ToSet(Loaded.items), Loaded.read \subseteq r, r # {}, InFront,
              Edit([Loaded EXCEPT !.read = r], {})
       PROVE  CentreInv' /\ \E u \in Users : Step(u)
  <2>1. PICK u \in Users : who = u
    BY <1>10 DEF InFront
  <2>2. CentreInv' /\ Step(u)
    BY <1>10, <2>1, ReadingSteps
  <2> QED
    BY <2>2
<1>11. InFront => /\ Loaded.read \subseteq ToSet(Loaded.items) /\ Loaded \in States
  <2> SUFFICES ASSUME InFront PROVE Loaded.read \subseteq ToSet(Loaded.items) /\ Loaded \in States
    OBVIOUS
  <2>1. Account(Loaded, Len(log), Lo, shown[who], gone[who], since[who]) /\ Loaded \in States
    BY LoadedIs DEF InFront
  <2>2. Len(log) \in Nat
    BY WindowOfLog DEF CentreInv
  <2> QED
    BY <2>1, <2>2, Tidy
<1>12. ASSUME NEW e \in Events, MarkRead(e) PROVE CentreInv' /\ \E u \in Users : Step(u)
  <2> DEFINE r == Loaded.read \cup {e}
  <2>1. InFront /\ e \in ToSet(Loaded.items) /\ Edit([Loaded EXCEPT !.read = r], {})
    BY <1>12 DEF MarkRead
  <2>2. r \subseteq ToSet(Loaded.items) /\ Loaded.read \subseteq r /\ r # {}
    BY <1>11, <2>1
  <2> QED
    BY <1>10, <2>1, <2>2
<1>13. CASE MarkAllRead
  <2> DEFINE r == ToSet(Loaded.items)
  <2>1. InFront /\ r # Loaded.read /\ Edit([Loaded EXCEPT !.read = r], {})
    BY <1>13 DEF MarkAllRead
  <2>2. Loaded.read \subseteq r /\ r # {}
    BY <1>11, <2>1
  <2> QED
    BY <1>10, <2>1, <2>2
<1>14. ASSUME NEW e \in Events, Dismiss(e) PROVE CentreInv' /\ \E u \in Users : Step(u)
  BY <1>14, DismissSteps
<1>15. CASE DismissAll
  BY <1>15, ClearSteps
<1>16. CASE UNCHANGED centreVars
  <2>1. HubOK' /\ UNCHANGED <<log, legible, file, shown, gone, since>>
    BY <1>1, <1>16 DEF HubOK, centreVars
  <2>2. user' = user /\ mem' = mem
    BY <1>16 DEF centreVars
  <2>3. \/ user' = user /\ mem' = mem
        \/ user' = Nobody /\ mem' = Blank
    BY <2>2
  <2> QED
    BY <2>1, <2>3, HubSteps
<1> QED
  BY <1>2, <1>3, <1>4, <1>6, <1>7, <1>8, <1>9, <1>12, <1>13, <1>14, <1>15, <1>16 DEF CentreNext

LEMMA CentreHolds == CentreSpec => []CentreInv
<1>1. CentreInv /\ [CentreNext]_centreVars => CentreInv'
  BY CentreSteps
<1> QED
  BY <1>1, CentreStarts, PTL DEF CentreSpec

(***************************************************************************)
(* The theorems.                                                           *)
(***************************************************************************)

(* Whatever was truncated, merged or reloaded, lists and archives are      *)
(* bounded, repeat nothing and share nothing: _save, _load, dismiss and    *)
(* refresh_from_audit of notification_service.py.                          *)
THEOREM CentreIsTyped == CentreSpec => []CentreTypeOK
<1>1. ASSUME NEW m, NEW n \in Nat, NEW lo, NEW sh, NEW go, NEW si, Account(m, n, lo, sh, go, si)
      PROVE  WellFormed(m)
  <2>1. m \in States
    BY <1>1, Looked
  <2>2. CASE m.baselined
    <3>1. ListOK(m, sh, go) /\ ArchiveOK(m, lo, go)
      BY <1>1, <2>2, Looked
    <3>2. /\ m.items \in Seq(Events) /\ m.archive \in Seq(Events)
          /\ IsInjective(m.items) /\ IsInjective(m.archive)
          /\ ToSet(m.items) \cap ToSet(m.archive) = {}
          /\ Len(m.items) <= MaxItems /\ Len(m.archive) <= MaxArchived
          /\ m.read \subseteq ToSet(m.items)
      BY <3>1 DEF ListOK, ArchiveOK
    <3>3. IsInjective(m.items \o m.archive)
      BY <3>2, Joined
    <3> QED
      BY <2>1, <3>2, <3>3 DEF WellFormed
  <2>3. CASE ~ m.baselined
    BY <1>1, <2>3, Looked, BlankIsWellFormed
  <2> QED
    BY <2>2, <2>3
<1>2. CentreInv => CentreTypeOK
  <2> SUFFICES ASSUME CentreInv PROVE CentreTypeOK
    OBVIOUS
  <2>1. Len(log) \in Nat
    BY WindowOfLog DEF CentreInv
  <2>2. \A a \in Users : WellFormed(file[a])
    BY <1>1, <2>1 DEF CentreInv, FilesOK
  <2>3. WellFormed(mem)
    <3>1. CASE user \in Users
      BY <1>1, <2>1, <3>1 DEF CentreInv, MemoryOK
    <3>2. CASE user \notin Users
      BY <3>2, BlankIsWellFormed DEF CentreInv, MemoryOK, HubOK
    <3> QED
      BY <3>1, <3>2
  <2> QED
    BY <2>2, <2>3 DEF CentreInv, CentreTypeOK, LogOK, HubOK, FilesOK
<1> QED
  BY <1>2, CentreHolds, PTL

(* The centre implements the life cycle of Inbox: what was dismissed or    *)
(* was there at an account's first look is never announced to it, what was *)
(* read is not unread again, and no other account's list changes.          *)
THEOREM CentreImplementsInbox == CentreSpec => Lifecycle
<1>1. CentreInit => I!Init
  <2> SUFFICES ASSUME CentreInit, NEW a \in Users, NEW e \in Events PROVE LifeOf(a, e) = "new"
    BY DEF I!Init, Lives
  <2>1. /\ file[a] = Blank /\ shown[a] = {} /\ gone[a] = {} /\ since[a] = -1
    BY DEF CentreInit
  <2>2. LifeOf(a, e) = Stage(Blank, {}, {}, -1, e)
    BY <2>1, CentreStarts, LifeIs
  <2>3. Blank.read = {} /\ ToSet(Blank.items) = {} /\ ~ (e <= -1)
    BY NoMembers, EventsAreNumbers DEF Blank
  <2> QED
    BY <2>2, <2>3 DEF Stage
<1>2. CentreInv /\ [CentreNext]_centreVars => [I!Next]_Lives
  <2> SUFFICES ASSUME CentreInv, [CentreNext]_centreVars PROVE [I!Next]_Lives
    OBVIOUS
  <2>1. Still \/ \E u \in Users : Step(u)
    BY CentreSteps
  <2>2. CASE Still
    BY <2>2 DEF Still, Lives
  <2>3. ASSUME NEW u \in Users, Step(u) PROVE I!Next
    <3>1. Lives' \in [Users -> [Events -> I!Stages]]
      BY DEF Lives, LifeOf, I!Stages
    <3>2. \A e \in Events : I!Follows(Lives[u][e], Lives'[u][e])
      BY <2>3 DEF Step, Lawful, Lives
    <3>3. \A b \in Users \ {u} : Lives'[b] = Lives[b]
      BY <2>3 DEF Step, Lives
    <3> QED
      BY <3>1, <3>2, <3>3 DEF I!Next, I!Advance
  <2> QED
    BY <2>1, <2>2, <2>3
<1> QED
  BY <1>1, <1>2, CentreHolds, PTL DEF CentreSpec, Lifecycle, I!Spec

(* What newer notifications pushed out of the list is announced again only *)
(* after more events than the state file keeps fingerprints of: the 500 of *)
(* _save against the 200 of read_recent.                                   *)
THEOREM NothingComesBackEarly == CentreSpec => NothingReturnsEarly
<1>1. CentreInv /\ [CentreNext]_centreVars =>
         [\A a \in Users, e \in Events :
            LifeOf(a, e) = "out" /\ LifeOf(a, e)' = "unread"
              => Len(log) - since[a] + Least(since[a], Window) > MaxSeen]_centreVars
  <2> SUFFICES ASSUME CentreInv, [CentreNext]_centreVars, NEW a \in Users, NEW e \in Events,
                      LifeOf(a, e) = "out", LifeOf(a, e)' = "unread"
               PROVE  Len(log) - since[a] + Least(since[a], Window) > MaxSeen
    OBVIOUS
  <2>1. Still \/ \E u \in Users : Step(u)
    BY CentreSteps
  <2>2. ~ (LifeOf(a, e)' = LifeOf(a, e))
    OBVIOUS
  <2>3. Step(a)
    BY <2>1, <2>2 DEF Still, Step
  <2> QED
    BY <2>3 DEF Step, Lawful
<1> QED
  BY <1>1, CentreHolds, PTL DEF CentreSpec, NothingReturnsEarly
=============================================================================
