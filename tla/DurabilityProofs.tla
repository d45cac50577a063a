-------------------------- MODULE DurabilityProofs --------------------------
(***************************************************************************)
(* Theorems about Durability, for any documents, requests, segment sizes,  *)
(* crashes and restarts: the process knows the segments that are on disk,  *)
(* and whatever a document holds after a start is explained.  The first    *)
(* follows from SegInv; the second from Inv, below it, which each action   *)
(* of Durability keeps by a lemma of its own (its name and Step).          *)
(***************************************************************************)
EXTENDS Durability, FiniteSetTheorems, WellFoundedInduction, TLAPS

(* The names of the files are in the order of their numbers.  They are as  *)
(* long as the numbers on disk have as many digits.                        *)
NamesInOrder == \A m, n \in DOMAIN files : NameBefore(m, n) <=> m < n

(* s lists the numbers of the files f, oldest first.                       *)
Lists(s, f) ==
  /\ s \in Seq(Nat) /\ s # <<>>
  /\ \A i, j \in 1 .. Len(s) : i < j => s[i] < s[j]
  /\ ToSet(s) = DOMAIN f

LEMMA ListsFacts ==
  ASSUME NEW s, NEW f, Lists(s, f)
  PROVE  /\ Len(s) \in Nat \ {0} /\ \A i \in 1 .. Len(s) : s[i] \in Nat
         /\ \A n \in DOMAIN f : \E i \in 1 .. Len(s) : s[i] = n
         /\ \A i \in 1 .. Len(s) : s[i] \in DOMAIN f
         /\ s[Len(s)] \in DOMAIN f
         /\ \A n \in DOMAIN f : n \in Nat /\ n <= s[Len(s)]
<1>1. s \in Seq(Nat) /\ Len(s) \in Nat \ {0} /\ \A i \in 1 .. Len(s) : s[i] \in Nat
  BY DEF Lists
<1>2. \A n \in DOMAIN f : \E i \in 1 .. Len(s) : s[i] = n
  BY <1>1 DEF Lists, ToSet
<1>3. \A i \in 1 .. Len(s) : s[i] \in DOMAIN f
  BY <1>1 DEF Lists, ToSet
<1>4. \A i \in 1 .. Len(s) : s[i] <= s[Len(s)]
  <2>1. \A i \in 1 .. Len(s) : i = Len(s) \/ s[i] < s[Len(s)]
    BY <1>1 DEF Lists
  <2> QED BY <1>1, <2>1
<1>5. Len(s) \in 1 .. Len(s)
  BY <1>1
<1>6. ASSUME NEW n \in DOMAIN f PROVE n \in Nat /\ n <= s[Len(s)]
  <2>1. PICK i \in 1 .. Len(s) : s[i] = n
    BY <1>2
  <2> QED BY <1>1, <1>4, <2>1
<1> QED BY <1>1, <1>2, <1>3, <1>5, <1>6

LEMMA RotatedLists ==
  ASSUME NEW s, NEW f, Lists(s, f)
  PROVE  Lists(Rotated(f, s).segs, Rotated(f, s).files)
<1> DEFINE n == Len(s)
           id == s[n] + 1
           s2 == Append(s, id)
           drop == IF Len(s2) > MaxSegs THEN Len(s2) - MaxSegs ELSE 0
           gone == SubSeq(s2, 1, drop)
           f2 == [m \in DOMAIN f \cup {id} |-> IF m = id THEN NewFile ELSE f[m]]
           kept == SubSeq(s2, drop + 1, Len(s2))
           files2 == [m \in DOMAIN f2 \ ToSet(gone) |-> f2[m]]
<1>1. Rotated(f, s).segs = kept /\ Rotated(f, s).files = files2
  BY DEF Rotated
<1>2. /\ n \in Nat \ {0} /\ \A i \in 1 .. n : s[i] \in Nat
      /\ s[n] \in DOMAIN f /\ \A m \in DOMAIN f : m \in Nat /\ m <= s[n]
      /\ s \in Seq(Nat) /\ \A i, j \in 1 .. n : i < j => s[i] < s[j]
  BY ListsFacts DEF Lists
<1>3. /\ s2 \in Seq(Nat) /\ Len(s2) = n + 1
      /\ \A i \in 1 .. n : s2[i] = s[i]
      /\ s2[n + 1] = id /\ id \in Nat
  BY <1>2
<1>4. \A i, j \in 1 .. (n + 1) : i < j => s2[i] < s2[j]
  <2> SUFFICES ASSUME NEW i \in 1 .. (n + 1), NEW j \in 1 .. (n + 1), i < j
               PROVE  s2[i] < s2[j]
    OBVIOUS
  <2>1. i \in 1 .. n
    BY <1>2
  <2>2. CASE j \in 1 .. n
    BY <1>2, <1>3, <2>1, <2>2
  <2>3. CASE j = n + 1
    <3>1. s[i] \in DOMAIN f
      BY <2>1, ListsFacts
    <3>2. s[i] < id
      BY <1>2, <3>1
    <3> QED BY <1>3, <2>1, <2>3, <3>2
  <2>4. PICK k \in Nat : k = n
    BY <1>2
  <2>5. j \in 1 .. (k + 1)
    BY <2>4
  <2>6. j \in 1 .. k \/ j = k + 1
    BY <2>5
  <2> QED BY <2>2, <2>3, <2>4, <2>6
<1>5. drop \in 0 .. n
  BY <1>2, <1>3, ConstantsAssumption
<1> HIDE DEF s2, drop
<1>12. PICK k \in Nat : k = n
  BY <1>2
<1>13. PICK e \in Nat : e = drop /\ e <= k
  BY <1>5, <1>12
<1>6. /\ Len(gone) = drop /\ \A i \in 1 .. drop : gone[i] = s2[i]
      /\ DOMAIN gone = 1 .. drop
  BY <1>2, <1>3, <1>5
<1>7. /\ kept \in Seq(Nat) /\ Len(kept) = n + 1 - drop
      /\ \A i \in 1 .. (n + 1 - drop) : kept[i] = s2[drop + i]
      /\ DOMAIN kept = 1 .. (n + 1 - drop)
  <2>1. drop + 1 \in Nat /\ n + 1 \in Nat /\ drop + 1 <= n + 1
    BY <1>2, <1>5
  <2>2. PICK a \in Nat, b \in Nat : a = drop + 1 /\ b = n + 1
    BY <2>1
  <2>3. a <= b /\ a \in 1 .. b /\ Len(s2) = b /\ s2 \in Seq(Nat) /\ kept = SubSeq(s2, a, b)
    BY <1>3, <1>5, <2>1, <2>2
  <2> HIDE DEF kept
  <2>4. /\ kept \in Seq(Nat) /\ Len(kept) = b - a + 1 /\ DOMAIN kept = 1 .. (b - a + 1)
        /\ \A i \in 1 .. (b - a + 1) : kept[i] = s2[a + i - 1]
    BY <2>3
  <2>6. a = e + 1 /\ b = k + 1
    BY <1>12, <1>13, <2>2
  <2>7. b - a + 1 = k + 1 - e /\ \A i \in 1 .. (k + 1 - e) : a + i - 1 = e + i
    BY <2>6
  <2> QED BY <1>12, <1>13, <2>4, <2>7
<1> HIDE DEF gone, kept
<1>8. \A i, j \in 1 .. Len(kept) : i < j => kept[i] < kept[j]
  <2> SUFFICES ASSUME NEW i \in 1 .. Len(kept), NEW j \in 1 .. Len(kept), i < j
               PROVE  kept[i] < kept[j]
    OBVIOUS
  <2>1. drop + i \in 1 .. (n + 1) /\ drop + j \in 1 .. (n + 1) /\ drop + i < drop + j
    BY <1>2, <1>5, <1>7
  <2>2. s2[drop + i] < s2[drop + j]
    BY <1>4, <2>1
  <2> QED BY <1>7, <2>2
<1>9. DOMAIN f2 = {s2[i] : i \in 1 .. (n + 1)}
  <2>1. \A m \in DOMAIN f : \E i \in 1 .. n : s[i] = m
    BY ListsFacts
  <2>2. \A i \in 1 .. n : s[i] \in DOMAIN f
    BY ListsFacts
  <2>3. ASSUME NEW m \in DOMAIN f2 PROVE \E i \in 1 .. (n + 1) : m = s2[i]
    <3>1. CASE m = id
      BY <1>2, <1>3, <3>1
    <3>2. CASE m \in DOMAIN f
      <4>1. PICK i \in 1 .. n : s[i] = m
        BY <2>1, <3>2
      <4>2. i \in 1 .. (n + 1)
        BY <1>2
      <4> QED BY <1>3, <4>1, <4>2
    <3> QED BY <3>1, <3>2
  <2>4. ASSUME NEW i \in 1 .. (n + 1) PROVE s2[i] \in DOMAIN f2
    <3>1. CASE i = n + 1
      BY <1>3, <3>1
    <3>2. CASE i \in 1 .. n
      BY <1>3, <2>2, <3>2
    <3> QED BY <1>2, <3>1, <3>2
  <2> HIDE DEF f2
  <2> QED BY <2>3, <2>4
<1>10. ToSet(kept) = DOMAIN f2 \ ToSet(gone)
  <2>1. ToSet(kept) = {s2[drop + i] : i \in 1 .. (n + 1 - drop)}
    BY <1>7 DEF ToSet
  <2>2. ToSet(gone) = {s2[i] : i \in 1 .. drop}
    BY <1>6 DEF ToSet
  <2>3. \A i \in 1 .. (n + 1) : i \in 1 .. drop \/ (i - drop \in 1 .. (n + 1 - drop) /\ i = drop + (i - drop))
    BY <1>2, <1>5
  <2>4. ASSUME NEW i \in 1 .. (n + 1 - drop)
        PROVE  drop + i \in 1 .. (n + 1) /\ \A j \in 1 .. drop : s2[j] < s2[drop + i]
    <3>1. e + i \in 1 .. (k + 1) /\ \A j \in 1 .. e : j \in 1 .. (k + 1) /\ j < e + i
      BY <1>12, <1>13
    <3> QED BY <1>4, <1>12, <1>13, <3>1
  <2>5. \A i \in 1 .. (n + 1) : s2[i] \in Nat
    BY <1>2, <1>3
  <2>6. ASSUME NEW m \in DOMAIN f2 \ ToSet(gone) PROVE m \in ToSet(kept)
    <3>1. PICK i \in 1 .. (n + 1) : m = s2[i]
      BY <1>9
    <3>2. i \notin 1 .. drop
      BY <2>2, <2>6, <3>1
    <3> QED BY <2>1, <2>3, <3>1, <3>2
  <2>7. ASSUME NEW m \in ToSet(kept) PROVE m \in DOMAIN f2 \ ToSet(gone)
    <3>1. PICK i \in 1 .. (n + 1 - drop) : m = s2[drop + i]
      BY <2>1
    <3>2. m \in DOMAIN f2
      BY <1>9, <2>4, <3>1
    <3>3. ASSUME NEW j \in 1 .. drop PROVE m # s2[j]
      <4>1. j \in 1 .. (n + 1)
        BY <1>2, <1>5
      <4>2. drop + i \in 1 .. (n + 1) /\ s2[j] < s2[drop + i]
        BY <2>4
      <4> QED BY <2>5, <3>1, <4>1, <4>2
    <3> QED BY <2>2, <3>2, <3>3
  <2> QED BY <2>6, <2>7
<1>11. kept # <<>>
  BY <1>2, <1>5, <1>7
<1> QED BY <1>1, <1>7, <1>8, <1>10, <1>11 DEF Lists

LEMMA LoggedLists ==
  ASSUME NEW s, NEW f, NEW es, Lists(s, f)
  PROVE  Lists(Logged(f, s, es).segs, Logged(f, s, es).files)
<1> DEFINE n == s[Len(s)]
           data == f[n].data \o es
           f2 == IF n \notin DOMAIN f THEN f
                 ELSE [f EXCEPT ![n] = [data |-> data, torn |-> f[n].torn,
                    synced |-> IF policy = "always" THEN Len(data) ELSE f[n].synced]]
<1>1. Logged(f, s, es) = IF Full(f2, s) THEN Rotated(f2, s) ELSE [files |-> f2, segs |-> s]
  BY DEF Logged
<1>2. DOMAIN f2 = DOMAIN f
  OBVIOUS
<1> HIDE DEF f2
<1>3. Lists(s, f2)
  BY <1>2 DEF Lists
<1>4. Lists(Rotated(f2, s).segs, Rotated(f2, s).files)
  BY <1>3, RotatedLists
<1> QED BY <1>1, <1>3, <1>4

LEMMA OnlyCurrentLists ==
  ASSUME Lists(segs, files)
  PROVE  Lists(OnlyCurrent.segs, OnlyCurrent.files)
<1> DEFINE n == Len(segs)
<1>1. /\ n \in Nat \ {0} /\ segs \in Seq(Nat) /\ \A i \in 1 .. n : segs[i] \in Nat
      /\ \A i, j \in 1 .. n : i < j => segs[i] < segs[j]
  BY ListsFacts DEF Lists
<1>2. /\ Len(Front(segs)) = n - 1 /\ \A i \in 1 .. n - 1 : Front(segs)[i] = segs[i]
      /\ DOMAIN Front(segs) = 1 .. n - 1
  <2>1. PICK m : m = n - 1
    OBVIOUS
  <2>2. m \in Nat /\ m <= n
    BY <1>1, <2>1
  <2>3. Front(segs) = SubSeq(segs, 1, m)
    BY <2>1 DEF Front
  <2>4. Len(SubSeq(segs, 1, m)) = m /\ DOMAIN SubSeq(segs, 1, m) = 1 .. m
    BY <1>1, <2>2
  <2>5. \A i \in 1 .. m : SubSeq(segs, 1, m)[i] = segs[i]
    BY <1>1, <2>2
  <2> QED BY <2>1, <2>3, <2>4, <2>5
<1>3. ToSet(Front(segs)) = {segs[i] : i \in 1 .. n - 1}
  BY <1>2 DEF ToSet
<1>4. DOMAIN files = {segs[i] : i \in 1 .. n}
  <2>1. DOMAIN segs = 1 .. n /\ DOMAIN files = ToSet(segs)
    BY <1>1 DEF Lists
  <2> QED BY <2>1 DEF ToSet
<1>5. Last(segs) = segs[n] /\ \A i \in 1 .. n - 1 : segs[i] # segs[n]
  <2>1. \A i \in 1 .. n - 1 : i \in 1 .. n /\ n \in 1 .. n /\ i < n
    BY <1>1
  <2>2. \A i \in 1 .. n - 1 : segs[i] < segs[n] /\ segs[i] \in Nat /\ segs[n] \in Nat
    BY <1>1, <2>1
  <2> QED BY <2>2 DEF Last
<1>6. \A i \in 1 .. n : i = n \/ i \in 1 .. n - 1
  BY <1>1
<1>7. DOMAIN files \ ToSet(Front(segs)) = {segs[n]}
  BY <1>1, <1>3, <1>4, <1>5, <1>6
<1>8. OnlyCurrent.segs = <<segs[n]>> /\ DOMAIN OnlyCurrent.files = {segs[n]}
  BY <1>5, <1>7 DEF OnlyCurrent
<1>9. ToSet(<<segs[n]>>) = {segs[n]}
  BY DEF ToSet
<1> QED BY <1>1, <1>8, <1>9 DEF Lists
-----------------------------------------------------------------------------
(* A start sorts the names: what it gets lists the files.                  *)
LEMMA StartLists ==
  ASSUME Lists(segs, files), NamesInOrder
  PROVE  Lists(FileNames, files)
<1> DEFINE D == DOMAIN files
           n == Len(segs)
           Sorted(s) == \A i, j \in DOMAIN s : i < j => NameBefore(s[i], s[j])
<1>1. /\ n \in Nat \ {0} /\ segs \in [1 .. n -> D]
      /\ \A i, j \in 1 .. n : i < j => segs[i] < segs[j]
      /\ \A m \in D : \E i \in 1 .. n : segs[i] = m
      /\ \A m \in D : m \in Nat
  <2>1. segs = [i \in 1 .. n |-> segs[i]]
    BY DEF Lists
  <2> QED BY <2>1, ListsFacts DEF Lists
<1>2. IsFiniteSet(D) /\ Cardinality(D) = n
  <2>1. \A i, j \in 1 .. n : segs[i] = segs[j] => i = j
    BY <1>1
  <2>2. segs \in Bijection(1 .. n, D)
    BY <1>1, <2>1 DEF Bijection, Injection, Surjection, IsInjective
  <2>3. ExistsBijection(1 .. n, D)
    BY <2>2 DEF ExistsBijection
  <2> QED BY <1>1, <2>3, FS_NatBijection, FS_CountingElements
<1>3. Sorted(segs)
  BY <1>1 DEF NamesInOrder
<1>4. PICK s : s = FileNames
  OBVIOUS
<1>5. s \in [1 .. n -> D] /\ Sorted(s)
  <2>1. s = CHOOSE t \in [1 .. n -> D] : Sorted(t)
    BY <1>2, <1>4 DEF FileNames
  <2> HIDE DEF Sorted
  <2> QED BY <1>1, <1>3, <2>1
<1>6. \A i, j \in 1 .. n : i < j => s[i] < s[j]
  BY <1>5 DEF NamesInOrder
<1>7. \A i, j \in 1 .. n : s[i] = s[j] => i = j
  BY <1>1, <1>5, <1>6
<1>8. s \in Surjection(1 .. n, D)
  <2>1. s \in Injection(1 .. n, D)
    BY <1>5, <1>7 DEF Injection, IsInjective
  <2>2. IsFiniteSet(1 .. n) /\ Cardinality(1 .. n) = n
    BY <1>1, FS_Interval
  <2> QED BY <1>2, <2>1, <2>2, FS_Injection
<1>9. \A m \in D : \E i \in 1 .. n : s[i] = m
  BY <1>8 DEF Surjection
<1>10. s \in Seq(Nat) /\ Len(s) = n /\ s # <<>> /\ DOMAIN s = 1 .. n
  BY <1>1, <1>5
<1>11. ToSet(s) = D
  BY <1>5, <1>9, <1>10 DEF ToSet
<1> QED BY <1>4, <1>6, <1>10, <1>11 DEF Lists

-----------------------------------------------------------------------------
(* The segments of the process are those on disk, also while it is down.   *)
SegInv == Lists(segs, files)

LEMMA InitSeg == Init => SegInv
<1> SUFFICES ASSUME Init PROVE SegInv
  OBVIOUS
<1>1. segs = <<FirstId>> /\ DOMAIN files = {FirstId} /\ FirstId \in Nat
  BY ConstantsAssumption DEF Init
<1>2. ToSet(<<FirstId>>) = {FirstId}
  BY DEF ToSet
<1> QED BY <1>1, <1>2 DEF SegInv, Lists

LEMMA SameFiles ==
  ASSUME SegInv, segs' = segs, DOMAIN files' = DOMAIN files PROVE SegInv'
BY DEF SegInv, Lists

LEMMA SetLogSeg ==
  ASSUME NEW new, Lists(new.segs, new.files), SetLog(new) PROVE SegInv'
BY DEF SetLog, SegInv

LEMMA SyncedFiles == DOMAIN SyncedCurrent = DOMAIN files
BY DEF SyncedCurrent

LEMMA NextSeg == ASSUME SegInv, NamesInOrder, [Next]_vars PROVE SegInv'
<1>1. \A new : Lists(new.segs, new.files) /\ SetLog(new) => SegInv'
  BY SetLogSeg
<1>2. \A es : Lists(Logged(files, segs, es).segs, Logged(files, segs, es).files)
  BY LoggedLists DEF SegInv
<1>3. Lists(Rotated(files, segs).segs, Rotated(files, segs).files)
  BY RotatedLists DEF SegInv
<1>4. Lists(OnlyCurrent.segs, OnlyCurrent.files)
  BY OnlyCurrentLists DEF SegInv
<1>5. CASE UNCHANGED logVars
  BY <1>5, SameFiles DEF logVars
<1>6. ASSUME NEW r \in Requests, RequestStep(r) PROVE SegInv'
  <2>1. ASSUME NEW kind, NEW D, InsertLog(r, kind, D) PROVE SegInv'
    BY <1>1, <1>2, <2>1 DEF InsertLog
  <2>2. ASSUME NEW d, LogDoc(r, d) PROVE SegInv'
    BY <1>1, <1>2, <2>2 DEF LogDoc
  <2>3. ASSUME NEW kind, NEW F, FilterBegin(r, kind, F) PROVE SegInv'
    BY <1>5, <2>3 DEF FilterBegin
  <2>4. ASSUME NEW D, InsertCommit(r, D) PROVE SegInv'
    BY <1>5, <2>4 DEF InsertCommit
  <2>5. ASSUME NEW d, SkipDoc(r, d) PROVE SegInv'
    BY <1>5, <2>5 DEF SkipDoc
  <2>6. InsertFails(r) \/ FilterCommit(r) => SegInv'
    BY <1>5 DEF InsertFails, FilterCommit
  <2> QED BY <1>6, <2>1, <2>2, <2>3, <2>4, <2>5, <2>6 DEF RequestStep
<1>7. CASE SyncAll \/ PoolClose \/ Kill \/ ReplaySkip \/ ReplayStore \/ Open
  BY <1>5, <1>7 DEF SyncAll, PoolClose, Kill, ReplaySkip, ReplayStore, Open
<1>8. CASE WalSync \/ WalClose
  BY <1>8, SameFiles, SyncedFiles DEF WalSync, WalClose
<1>9. CASE Rotate \/ RecoverRotate
  BY <1>1, <1>3, <1>9 DEF Rotate, RecoverRotate
<1>10. CASE Prune \/ RecoverPrune
  BY <1>1, <1>4, <1>10 DEF Prune, RecoverPrune
<1>11. CASE PowerLoss
  <2>1. PICK f \in AfterPowerLoss : files' = f
    BY <1>11 DEF PowerLoss
  <2>2. DOMAIN f = DOMAIN files /\ segs' = segs
    BY <1>11 DEF AfterPowerLoss, PowerLoss
  <2> QED BY <2>1, <2>2, SameFiles
<1>12. CASE Start
  <2>1. Lists(FileNames, files)
    BY StartLists DEF SegInv
  <2>2. Lists(Rotated(files, FileNames).segs, Rotated(files, FileNames).files)
    BY <2>1, RotatedLists
  <2>3. PICK new : /\ new = IF Full(files, FileNames) THEN Rotated(files, FileNames)
                            ELSE [files |-> files, segs |-> FileNames]
                   /\ SetLog(new)
    BY <1>12 DEF Start
  <2>4. Lists(new.segs, new.files)
    BY <2>1, <2>2, <2>3
  <2> QED BY <1>1, <2>3, <2>4
<1>13. CASE ReplayUpdate \/ ReplayLog
  BY <1>1, <1>2, <1>13 DEF ReplayUpdate, ReplayLog
<1>14. CASE UNCHANGED vars
  BY <1>5, <1>14 DEF vars, logVars
<1> QED
  BY <1>6, <1>7, <1>8, <1>9, <1>10, <1>11, <1>12, <1>13, <1>14 DEF Next, RecoveryStep

(* As long as the names of the files are in the order of their numbers,    *)
(* the process knows every segment on disk, each under one name, whatever  *)
(* rotation, retention, checkpoints, crashes and restarts do (rotate,      *)
(* pruneToLastSegmentLocked, recover).                                     *)
THEOREM SegmentsAreKnown == Spec /\ []NamesInOrder => []SegmentsOnDisk
<1>1. SegInv => SegmentsOnDisk
  <2> SUFFICES ASSUME SegInv PROVE IsInjective(segs) /\ ToSet(segs) = DOMAIN files
    BY DEF SegmentsOnDisk
  <2>1. \A i, j \in 1 .. Len(segs) : segs[i] = segs[j] => i = j
    <3>1. \A i \in 1 .. Len(segs) : segs[i] \in Nat
      BY ListsFacts DEF SegInv
    <3> QED BY <3>1 DEF SegInv, Lists
  <2>2. DOMAIN segs = 1 .. Len(segs)
    BY DEF SegInv, Lists
  <2> QED BY <2>1, <2>2 DEF IsInjective, SegInv, Lists
<1>2. SegInv /\ NamesInOrder /\ [Next]_vars => SegInv'
  BY NextSeg
<1> QED BY <1>1, <1>2, InitSeg, PTL DEF Spec

-----------------------------------------------------------------------------
(* The invariant behind EveryLossIsExplained: the log's entries by place,  *)
(* what may be known of a document, and the parts of the invariant.        *)

(* The entries of the log by segment and index, oldest first.              *)
At(f) == UNION {{n} \X DOMAIN f[n].data : n \in DOMAIN f}
EntryAt(f, p) == f[p[1]].data[p[2]]
Before(p, q) == p[1] < q[1] \/ (p[1] = q[1] /\ p[2] < q[2])

(* Recovery redoes e, and d is one of its documents; e is of the request   *)
(* that committed d last.                                                  *)
Redone(e, d) == e.op \in {"insert", "delete"} /\ d \in e.docs
Mine(e, d) == Redone(e, d) /\ e.by = last[d].by
MineThere(d) == \E p \in At(files) : Mine(EntryAt(files, p), d)

(* The value r leaves, and those recovery may leave to a document: that of *)
(* the last commit, of a request that was cut off, or of one under way.    *)
Meant(r) == IF req[r].kind = "delete" THEN Gone ELSE r
Unfinished(r, d) == (Active(r) \/ req[r].pc = "lost") /\ d \in req[r].docs
Allowed(d) == {last[d].val} \cup {Meant(r) : r \in {x \in Requests : Unfinished(x, d)}}
Known(d) == {last[d].val} \cup LostValues(d)

(* Redoing e would leave d a value it must not have.                       *)
Bad(e, d) == Redone(e, d) /\ ~Mine(e, d) /\ ValueOf(e) \notin Allowed(d)

(* What Badger may be back at for d after a power failure.                 *)
Starts(d) == {base[d]} \cup {tail[i].val : i \in CommitsOf(tail, d)}

(* Documents a crash now excuses, and those nothing is known against.      *)
NowExcused == excused \cup Excuses
Clean(d) == d \notin excused \cup raced \cup NotRedone /\ (applied => d \notin Rewound)

(* What is on disk or still to be redone; and how an entry names its       *)
(* request's kind.                                                         *)
Entries == EntriesIn(files) \cup ToSet(replay)
OpOf(kind) == IF kind = "batch" THEN "insert" ELSE kind
-----------------------------------------------------------------------------
(* Types, as far as the steps need them.                                   *)
Seen == {<<>>} \cup UNION {[S -> Value] : S \in SUBSET Docs}
Request == [pc : {"idle", "log", "commit", "done", "lost"},
            kind : {"none", "insert", "large", "batch", "update", "delete"},
            docs : SUBSET Docs, todo : SUBSET Docs, match : SUBSET Docs,
            seen : Seen, overlap : SUBSET Docs]
Commit == [doc : Docs, val : Value]

FilesOK(f) == DOMAIN f \subseteq Nat /\ f \in [DOMAIN f -> SegmentFile]

TypeInv ==
  /\ FilesOK(files) /\ base \in [Docs -> Value] /\ tail \in Seq(Commit)
  /\ replay \in Seq(LogEntry) /\ applied \in BOOLEAN /\ marker \in BOOLEAN
  /\ req \in [Requests -> Request] /\ last \in [Docs -> [by : Value, val : Value]]
  /\ raced \in SUBSET Docs /\ pruned \in SUBSET Docs /\ excused \in SUBSET Docs

(* A full segment is rotated when it becomes full, never left for later.   *)
NotFull == ~Full(files, segs)

(* With "always", what is logged is on stable storage.                     *)
Synced == policy = "always" => \A n \in DOMAIN files : files[n].synced = Len(files[n].data)

(* What each phase of the process says of the rest: replay is about        *)
(* something only in recovery, no request outlives its process, a marker   *)
(* only follows a shutdown, and a rotation starts an empty segment.        *)
PhaseInv ==
  /\ applied => phase \in {"replay", "redo", "rotated"}
  /\ phase = "redo" => applied /\ replay # <<>> /\ Head(replay).op \in {"insert", "delete"}
  /\ phase \notin {"replay", "redo"} => replay = <<>>
  /\ phase \notin {"up", "closing"} => \A r \in Requests : ~Active(r)
  /\ admin # "idle" => phase = "up"
  /\ marker => phase \in {"closing", "down"}
  /\ phase = "closing" => marker /\ Unsynced \subseteq pruned
  /\ admin = "rotated" \/ phase = "rotated" => files[Last(segs)].data = <<>>

(* The documents of a request, by how far it is.                           *)
ReqInv == \A r \in Requests :
  LET q == req[r]
  IN  /\ q.match \subseteq q.docs /\ q.todo \subseteq q.docs
      /\ Active(r) => q.kind # "none"
      /\ q.pc = "log" => q.kind \in {"update", "delete"}
      /\ Active(r) /\ q.kind \in {"insert", "large"} => \E d \in Docs : q.docs = {d} /\ q.todo = {d}
      /\ Active(r) /\ q.kind \in {"update", "delete"} => q.todo \subseteq q.match
      /\ q.pc = "commit" /\ q.kind \in {"update", "delete"} => q.todo = {}

(* A delete that skipped every document has logged nothing.                *)
HasLogged(r) == req[r].kind = "delete" => req[r].match \ req[r].todo # {}

(* An entry is of a request that began, and says what that request does.   *)
EntryInv == \A e \in Entries :
  /\ req[e.by].pc # "idle" /\ e.op = OpOf(req[e.by].kind)
  /\ Active(e.by) => HasLogged(e.by)

(* The last commit to a document is of a request that got that far, and    *)
(* its entries say the value it left.                                      *)
LastInv == \A d \in Docs :
  /\ last[d].by \in Requests => req[last[d].by].pc \in {"commit", "done", "lost"}
  /\ last[d].val \in Requests => req[last[d].val].pc # "idle"
  /\ \A e \in Entries : e.by = last[d].by => ValueOf(e) = last[d].val

(* What Badger may be back at was committed: by a request that was         *)
(* answered, by one recovery redid, or by a batch in part.                 *)
SourceInv == \A d \in Docs : \A v \in Starts(d) \ {Gone} :
  \/ req[v].pc = "done"
  \/ req[v].pc = "lost" /\ req[v].kind \in {"insert", "batch"}
  \/ Active(v) /\ req[v].kind = "batch" /\ d \in req[v].docs \ req[v].todo

(* Two requests with entries about one document both know it.              *)
OverlapInv == \A r, q \in Requests : r # q => Pending(r) \cap Pending(q) \subseteq req[r].overlap

(* What a batch has committed is the last of each document, unless another *)
(* request had entries about it.                                           *)
BatchOf(r) == Active(r) /\ req[r].kind = "batch" =>
  \A d \in req[r].docs \ req[r].todo :
    d \notin raced => last[d] = [by |-> r, val |-> r] /\ d \notin excused
BatchInv == \A r \in Requests : BatchOf(r)

(* What the filters of a delete select and it does not delete is not       *)
(* there, or another request had entries about it.                         *)
DelOf(r) == Active(r) /\ req[r].kind = "delete" =>
  \A d \in req[r].docs \ req[r].match : d \in Readable => d \in raced
DelInv == \A r \in Requests : DelOf(r)

(* Behind the entries of r about d are no others that are redone; and when *)
(* any is redone, one of r is.                                             *)
OwnLast(r, d) == \A p, q \in At(files) :
  Before(p, q) /\ Redone(EntryAt(files, p), d) /\ EntryAt(files, p).by = r
  /\ Redone(EntryAt(files, q), d) => EntryAt(files, q).by = r
OwnThere(r, d) == \A q \in At(files) : Redone(EntryAt(files, q), d) =>
  \E p \in At(files) : Redone(EntryAt(files, p), d) /\ EntryAt(files, p).by = r
OwnOf(r) == Active(r) /\ HasLogged(r) =>
  \A d \in req[r].docs \ req[r].overlap :
    OwnLast(r, d) /\ (req[r].kind \in {"insert", "batch", "delete"} => OwnThere(r, d))
OwnInv == \A r \in Requests : OwnOf(r)

(* An entry whose value a document must not have is followed by one of the *)
(* document's last request.                                                *)
OrderInv == \A d \in Docs : Clean(d) =>
  \A q \in At(files) : Bad(EntryAt(files, q), d) =>
    /\ \A p \in At(files) : Mine(EntryAt(files, p), d) => ~Before(p, q)
    /\ MineThere(d)

(* Wherever a power failure leaves a document, that is a value it may      *)
(* have, or the log has its last request.                                  *)
CovInv == \A d \in Docs : Clean(d) /\ d \notin pruned =>
  \A v \in Starts(d) : v \in Allowed(d) \/ MineThere(d)

(* What is not on stable storage is in the log, or noted as pruned.        *)
TailInv == Unsynced \subseteq pruned \cup DocsIn(files)

(* While requests are served, and after a clean shutdown, each document is *)
(* as it should be.                                                        *)
ValInv == phase \in {"up", "closing", "rotated"} \/ (phase = "down" /\ marker) =>
  \A d \in Docs \ excused : Val(d) \in Known(d)

(* While they are not, it is so or the log redoes its last request.        *)
NowInv == phase \notin {"up", "closing", "rotated"} =>
  \A d \in Docs \ NowExcused : Val(d) \in Known(d) \/ MineThere(d)

(* A process that is down without the marker has excused what its next     *)
(* start may get wrong.                                                    *)
NowVals == [d \in Docs |-> Val(d)]
DownInv == phase = "down" /\ ~marker =>
  ((raced \cup NotRedone) \cap DocsIn(files)) \cup PassedOver(NowVals, files) \subseteq excused

(* What is left to redo for d: the last of it decides its value, unless    *)
(* recovery passes over all of it, which it does with deletes of a version *)
(* that is stored compressed.                                              *)
RedoneLeft(d) == {i \in DOMAIN replay : Redone(replay[i], d)}
Decides(d) ==
  IF \E i \in RedoneLeft(d) : KindOf(Val(d)) # "large" \/ replay[i].op = "insert"
  THEN \E i \in RedoneLeft(d) : (\A j \in RedoneLeft(d) : j <= i) /\ ValueOf(replay[i]) \in Known(d)
  ELSE Val(d) \in Known(d)
ReplayInv == phase \in {"replay", "redo"} => \A d \in Docs \ excused : Decides(d)

-----------------------------------------------------------------------------
(* Sequences: what concatenating the segments returns.                     *)

(* Induction over positions, from the well-foundedness of finite sets: the *)
(* positions that a property holds up to have a largest one.               *)
LEMMA LargestPosition ==
  ASSUME NEW S \in SUBSET Nat, IsFiniteSet(S), S # {}
  PROVE  \E x \in S : \A y \in S : x >= y
<1> DEFINE Without == {U \in SUBSET S : U # {} /\ ~ \E x \in U : \A y \in U : x >= y}
<1>1. SUFFICES ASSUME Without # {} PROVE FALSE
  OBVIOUS
<1>2. PICK U \in Without : \A V \in Without : <<V, U>> \notin StrictSubsetOrdering(S)
  <2>1. IsWellFoundedOn(StrictSubsetOrdering(S), SUBSET S)
    BY FS_StrictSubsetOrderingWellFounded, FS_FiniteSubsetsOfFinite
  <2>2. Without \subseteq SUBSET S
    OBVIOUS
  <2> HIDE DEF Without
  <2>3. PICK U \in Without : \A V \in Without : ~ (<<V, U>> \in StrictSubsetOrdering(S))
    BY <1>1, <2>1, <2>2, WFMin
  <2> QED BY <2>3
<1>3. PICK x \in U : TRUE
  OBVIOUS
<1> DEFINE V == {y \in U : y > x}
<1>4. V # {}
  OBVIOUS
<1>5. V \notin Without
  <2>1. x \in Nat /\ x \notin V /\ V \subseteq U /\ U \in SUBSET S
    OBVIOUS
  <2>2. <<V, U>> \in StrictSubsetOrdering(S)
    BY <2>1 DEF StrictSubsetOrdering
  <2> QED BY <1>2, <2>2
<1>6. PICK z \in V : \A y \in V : z >= y
  BY <1>4, <1>5
<1>7. \A y \in U : z >= y
  BY <1>6
<1> QED BY <1>6, <1>7

LEMMA UpToTheEnd ==
  ASSUME NEW n \in Nat, NEW G \in SUBSET (0 .. n), 0 \in G,
         \A i \in G : i < n => i + 1 \in G
  PROVE  n \in G
<1>1. IsFiniteSet(0 .. n)
  BY FS_Interval
<1>2. IsFiniteSet(G) /\ G \in SUBSET Nat /\ G # {}
  <2>1. IsFiniteSet(G)
    BY <1>1, FS_Subset
  <2> QED BY <2>1
<1>3. PICK m \in G : \A y \in G : m >= y
  BY <1>2, LargestPosition
<1>4. m \in 0 .. n /\ ~(m < n)
  BY <1>3
<1> QED BY <1>4

-----------------------------------------------------------------------------
(* Concatenating the segments.  Unrolls is the function the definition of  *)
(* FlattenSeq recurses with.                                               *)
Unrolls(seqs, f) ==
  f = [i \in 1 .. Len(seqs) |-> IF i = 1 THEN seqs[i] ELSE f[i - 1] \o seqs[i]]

LEMMA FlattenIs ==
  ASSUME NEW seqs
  PROVE  FlattenSeq(seqs) = IF Len(seqs) = 0 THEN seqs
                            ELSE (CHOOSE f : Unrolls(seqs, f))[Len(seqs)]
BY DEF FlattenSeq, Unrolls

LEMMA Unrolled ==
  ASSUME NEW S, NEW seqs \in Seq(Seq(S)), Len(seqs) # 0
  PROVE  \E f : /\ FlattenSeq(seqs) = f[Len(seqs)]
                /\ f[1] = seqs[1]
                /\ \A i \in 1 .. Len(seqs) : f[i] \in Seq(S)
                /\ \A i \in 1 .. Len(seqs) - 1 : f[i + 1] = f[i] \o seqs[i + 1]
<1> DEFINE n == Len(seqs)
           Upto(m, f) == \A i \in 1 .. m :
                           f[i] = IF i = 1 THEN seqs[i] ELSE f[i - 1] \o seqs[i]
           G == {m \in 0 .. n : \E f \in [1 .. m -> Seq(S)] : Upto(m, f)}
<1>1. n \in Nat \ {0} /\ \A i \in 1 .. n : seqs[i] \in Seq(S)
  OBVIOUS
<1>2. 0 \in G
  <2>1. [i \in 1 .. 0 |-> seqs[i]] \in [1 .. 0 -> Seq(S)]
    OBVIOUS
  <2>2. Upto(0, [i \in 1 .. 0 |-> seqs[i]])
    OBVIOUS
  <2> HIDE DEF Upto
  <2>3. \E f \in [1 .. 0 -> Seq(S)] : Upto(0, f)
    BY <2>1, <2>2
  <2>4. 0 \in 0 .. n
    BY <1>1
  <2> QED BY <2>3, <2>4
<1>3. ASSUME NEW m \in G, m < n PROVE m + 1 \in G
  <2>1. PICK f \in [1 .. m -> Seq(S)] : Upto(m, f)
    OBVIOUS
  <2>2. m \in 0 .. n /\ m + 1 \in 1 .. n
    BY <1>1, <1>3
  <2>3. PICK x : x = IF m = 0 THEN seqs[1] ELSE f[m] \o seqs[m + 1]
    OBVIOUS
  <2>4. x \in Seq(S)
    <3>1. m # 0 => f[m] \in Seq(S)
      BY <2>2
    <3> QED BY <1>1, <2>2, <2>3, <3>1
  <2>5. PICK g : g = [i \in 1 .. (m + 1) |-> IF i <= m THEN f[i] ELSE x]
    OBVIOUS
  <2>6. g \in [1 .. (m + 1) -> Seq(S)]
    BY <2>2, <2>4, <2>5
  <2>7. ASSUME NEW i \in 1 .. (m + 1)
        PROVE  g[i] = IF i = 1 THEN seqs[i] ELSE g[i - 1] \o seqs[i]
    <3>1. CASE i <= m
      <4>1. i \in 1 .. m /\ (i # 1 => i - 1 \in 1 .. m)
        BY <2>2, <3>1
      <4>2. g[i] = f[i] /\ (i # 1 => g[i - 1] = f[i - 1])
        BY <2>2, <2>5, <4>1
      <4> QED BY <2>1, <4>1, <4>2
    <3>2. CASE i = m + 1
      <4>1. g[i] = x
        BY <2>2, <2>5, <3>2
      <4>2. CASE m = 0
        BY <2>3, <3>2, <4>1, <4>2
      <4>3. CASE m # 0
        <5>1. g[i - 1] = f[m] /\ i # 1
          BY <2>2, <2>5, <3>2, <4>3
        <5> QED BY <2>3, <3>2, <4>1, <4>3, <5>1
      <4> QED BY <4>2, <4>3
    <3> QED BY <2>2, <3>1, <3>2
  <2>8. Upto(m + 1, g)
    BY <2>7
  <2> HIDE DEF Upto
  <2>9. \E h \in [1 .. (m + 1) -> Seq(S)] : Upto(m + 1, h)
    BY <2>6, <2>8
  <2>10. m + 1 \in 0 .. n
    BY <2>2
  <2> QED BY <2>9, <2>10
<1>4. n \in G
  <2> HIDE DEF G
  <2>1. G \in SUBSET (0 .. n)
    BY DEF G
  <2> QED BY <1>1, <1>2, <1>3, <2>1, UpToTheEnd
<1>5. PICK f \in [1 .. n -> Seq(S)] : Upto(n, f)
  BY <1>4
<1>6. Unrolls(seqs, f)
  BY <1>5 DEF Unrolls
<1>7. PICK g : g = CHOOSE h : Unrolls(seqs, h)
  OBVIOUS
<1>8. Unrolls(seqs, g) /\ FlattenSeq(seqs) = g[n]
  BY <1>6, <1>7, FlattenIs
<1>9. \A i \in 1 .. n : g[i] = IF i = 1 THEN seqs[i] ELSE g[i - 1] \o seqs[i]
  BY <1>8 DEF Unrolls
<1> DEFINE T == {m \in 0 .. n : \A i \in 1 .. m : g[i] \in Seq(S)}
<1>10. n \in T
  <2>1. 0 \in T
    BY <1>1
  <2>2. ASSUME NEW m \in T, m < n PROVE m + 1 \in T
    <3>1. m + 1 \in 1 .. n /\ m \in Nat
      BY <1>1, <2>2
    <3>2. m # 0 => g[m] \in Seq(S)
      BY <3>1
    <3>3. g[m + 1] = IF m = 0 THEN seqs[1] ELSE g[m] \o seqs[m + 1]
      BY <1>9, <3>1
    <3>4. g[m + 1] \in Seq(S)
      BY <1>1, <3>1, <3>2, <3>3
    <3>5. \A i \in 1 .. (m + 1) : i \in 1 .. m \/ i = m + 1
      BY <3>1
    <3> QED BY <3>1, <3>4, <3>5
  <2> HIDE DEF T
  <2>3. T \in SUBSET (0 .. n)
    BY DEF T
  <2> QED BY <1>1, <2>1, <2>2, <2>3, UpToTheEnd
<1>11. g[1] = seqs[1]
  BY <1>1, <1>9
<1>12. ASSUME NEW i \in 1 .. n - 1 PROVE g[i + 1] = g[i] \o seqs[i + 1]
  <2>1. i + 1 \in 1 .. n /\ i + 1 # 1 /\ (i + 1) - 1 = i
    BY <1>1
  <2> QED BY <1>9, <2>1
<1> QED BY <1>8, <1>10, <1>11, <1>12

-----------------------------------------------------------------------------
(* Places in the log, and how a step may extend it.                        *)

LEMMA SetToSeqFacts ==
  ASSUME NEW S, IsFiniteSet(S)
  PROVE  SetToSeq(S) \in Seq(S) /\ ToSet(SetToSeq(S)) = S
<1> DEFINE n == Cardinality(S)
<1>1. n \in Nat /\ ExistsBijection(1 .. n, S)
  BY FS_CardinalityType
<1>2. PICK f \in [1 .. n -> S] : IsInjective(f)
  BY <1>1 DEF ExistsBijection, Bijection, Injection
<1>3. PICK s : s = SetToSeq(S)
  OBVIOUS
<1>4. s \in [1 .. n -> S] /\ IsInjective(s)
  BY <1>2, <1>3 DEF SetToSeq
<1>5. s \in Surjection(1 .. n, S)
  <2>1. s \in Injection(1 .. n, S)
    BY <1>4 DEF Injection
  <2>2. IsFiniteSet(1 .. n) /\ Cardinality(1 .. n) = n
    BY <1>1, FS_Interval
  <2> QED BY <2>1, <2>2, FS_Injection
<1>6. s \in Seq(S) /\ DOMAIN s = 1 .. n
  BY <1>1, <1>4
<1>7. ToSet(s) = S
  BY <1>4, <1>5, <1>6 DEF ToSet, Surjection
<1> QED BY <1>3, <1>6, <1>7

-----------------------------------------------------------------------------
(* The entries of the log, by place. *)

LEMMA AtFacts ==
  ASSUME NEW f
  PROVE  /\ \A p \in At(f) : /\ p = <<p[1], p[2]>> /\ p[1] \in DOMAIN f
                             /\ p[2] \in DOMAIN f[p[1]].data
         /\ \A n \in DOMAIN f : \A i \in DOMAIN f[n].data : <<n, i>> \in At(f)
BY DEF At

LEMMA EntriesAt ==
  ASSUME NEW f
  PROVE  EntriesIn(f) = {EntryAt(f, p) : p \in At(f)}
<1>1. ASSUME NEW e \in EntriesIn(f) PROVE \E p \in At(f) : e = EntryAt(f, p)
  <2>1. PICK n \in DOMAIN f : e \in ToSet(f[n].data)
    BY DEF EntriesIn
  <2>2. PICK i \in DOMAIN f[n].data : e = f[n].data[i]
    BY <2>1 DEF ToSet
  <2>3. <<n, i>> \in At(f)
    BY AtFacts
  <2>4. EntryAt(f, <<n, i>>) = e
    BY <2>2 DEF EntryAt
  <2> QED BY <2>3, <2>4
<1>2. ASSUME NEW p \in At(f) PROVE EntryAt(f, p) \in EntriesIn(f)
  BY AtFacts DEF EntriesIn, EntryAt, ToSet
<1> QED BY <1>1, <1>2

LEMMA AtType ==
  ASSUME NEW f, FilesOK(f), NEW p \in At(f)
  PROVE  p[1] \in Nat /\ p[2] \in Nat /\ EntryAt(f, p) \in LogEntry
<1>1. p[1] \in DOMAIN f /\ p[2] \in DOMAIN f[p[1]].data
  BY AtFacts
<1>2. f[p[1]].data \in Seq(LogEntry)
  BY <1>1 DEF FilesOK, SegmentFile
<1> QED BY <1>1, <1>2 DEF FilesOK, EntryAt

LEMMA EntriesType == ASSUME NEW f, FilesOK(f) PROVE EntriesIn(f) \subseteq LogEntry
BY AtType, EntriesAt

LEMMA BeforeOrder ==
  ASSUME NEW f, FilesOK(f)
  PROVE  /\ \A p \in At(f) : ~Before(p, p)
         /\ \A p, q \in At(f) : p # q => Before(p, q) \/ Before(q, p)
         /\ \A p, q \in At(f) : ~(Before(p, q) /\ Before(q, p))
         /\ \A p, q, x \in At(f) : Before(p, q) /\ Before(q, x) => Before(p, x)
<1>1. \A p \in At(f) : p[1] \in Nat /\ p[2] \in Nat /\ p = <<p[1], p[2]>>
  BY AtType, AtFacts
<1>2. \A p, q \in At(f) : p[1] = q[1] /\ p[2] = q[2] => p = q
  BY <1>1
<1> QED BY <1>1, <1>2 DEF Before

(* g is f with the entries S added at the end and its oldest segments gone. *)
Extends(f, g, S) ==
  /\ \A p \in At(g) : \/ p \in At(f) /\ EntryAt(g, p) = EntryAt(f, p)
                      \/ EntryAt(g, p) \in S /\ \A q \in At(f) : Before(q, p)
  /\ \A p, q \in At(f) : q \in At(g) /\ Before(q, p) => p \in At(g)
  /\ \A p \in At(f) : p \notin At(g) => p[1] \in DOMAIN f \ DOMAIN g
  /\ \A q \in At(f) : q \in At(g) =>
       \A e \in S : \E p \in At(g) : EntryAt(g, p) = e /\ \A x \in At(f) : Before(x, p)

LEMMA ExtendsKeeps ==
  ASSUME NEW f, NEW g, NEW S, FilesOK(f), Extends(f, g, S)
  PROVE  /\ \A p \in At(f) : p \in At(g) => EntryAt(g, p) = EntryAt(f, p)
         /\ EntriesIn(g) \subseteq EntriesIn(f) \cup S
         /\ \A e \in EntriesIn(f) \ EntriesIn(g) :
              \E n \in DOMAIN f \ DOMAIN g : e \in ToSet(f[n].data)
<1>1. \A p \in At(f) : p \in At(g) => EntryAt(g, p) = EntryAt(f, p)
  BY BeforeOrder DEF Extends
<1>2. EntriesIn(g) \subseteq EntriesIn(f) \cup S
  BY EntriesAt DEF Extends
<1>3. ASSUME NEW e \in EntriesIn(f) \ EntriesIn(g)
      PROVE  \E n \in DOMAIN f \ DOMAIN g : e \in ToSet(f[n].data)
  <2>1. PICK p \in At(f) : e = EntryAt(f, p)
    BY EntriesAt
  <2>2. p \notin At(g)
    BY <1>1, <2>1, EntriesAt
  <2>3. p[1] \in DOMAIN f \ DOMAIN g
    BY <2>2 DEF Extends
  <2>4. e \in ToSet(f[p[1]].data)
    BY <2>1, AtFacts DEF ToSet, EntryAt
  <2> QED BY <2>3, <2>4
<1> QED BY <1>1, <1>2, <1>3

-----------------------------------------------------------------------------
(* Rotation and logging extend the log at its end.                         *)

LEMMA RotatedIs ==
  ASSUME NEW s, NEW f, Lists(s, f)
  PROVE  \E id \in Nat : \E g : \E k \in 0 .. id :
           /\ id = s[Len(s)] + 1 /\ g = Rotated(f, s).files
           /\ Last(Rotated(f, s).segs) = id
           /\ DOMAIN g = {m \in DOMAIN f \cup {id} : m >= k}
           /\ g = [m \in DOMAIN g |-> IF m = id THEN NewFile ELSE f[m]]
<1> DEFINE n == Len(s)
           id == s[n] + 1
           s2 == Append(s, id)
           drop == IF Len(s2) > MaxSegs THEN Len(s2) - MaxSegs ELSE 0
           gone == SubSeq(s2, 1, drop)
           f2 == [m \in DOMAIN f \cup {id} |-> IF m = id THEN NewFile ELSE f[m]]
           kept == SubSeq(s2, drop + 1, Len(s2))
           g == [m \in DOMAIN f2 \ ToSet(gone) |-> f2[m]]
<1>1. Rotated(f, s).segs = kept /\ Rotated(f, s).files = g
  BY DEF Rotated
<1>2. /\ n \in Nat \ {0} /\ \A i \in 1 .. n : s[i] \in Nat
      /\ s[n] \in DOMAIN f /\ \A m \in DOMAIN f : m \in Nat /\ m <= s[n]
      /\ s \in Seq(Nat) /\ \A i, j \in 1 .. n : i < j => s[i] < s[j]
      /\ \A m \in DOMAIN f : \E i \in 1 .. n : s[i] = m
  BY ListsFacts DEF Lists
<1>3. /\ s2 \in Seq(Nat) /\ Len(s2) = n + 1
      /\ \A i \in 1 .. n : s2[i] = s[i]
      /\ s2[n + 1] = id /\ id \in Nat
  BY <1>2
<1>4. drop \in 0 .. n
  BY <1>2, <1>3, ConstantsAssumption
<1>5. \A i \in 1 .. n : s[i] < id
  <2> SUFFICES ASSUME NEW i \in 1 .. n PROVE s[i] < id
    OBVIOUS
  <2>1. s[i] \in DOMAIN f
    BY ListsFacts
  <2>2. s[i] \in Nat /\ s[i] <= s[n] /\ s[n] \in Nat
    BY <1>2, <2>1
  <2> QED BY <2>2
<1> HIDE DEF s2, drop
<1>6. ToSet(gone) = {s2[i] : i \in 1 .. drop}
  <2>1. DOMAIN gone = 1 .. drop /\ \A i \in 1 .. drop : gone[i] = s2[i]
    BY <1>2, <1>3, <1>4
  <2> QED BY <2>1 DEF ToSet
<1>7. kept[Len(kept)] = id
  <2>1. drop + 1 \in Nat /\ n + 1 \in Nat /\ drop + 1 <= n + 1 /\ drop + 1 >= 1
    BY <1>2, <1>4
  <2>2. Len(kept) = n + 1 - drop /\ n + 1 - drop \in 1 .. (n + 1 - drop)
    BY <1>2, <1>3, <1>4, <2>1
  <2>3. kept[n + 1 - drop] = s2[drop + 1 + (n + 1 - drop) - 1]
    BY <1>2, <1>3, <1>4, <2>1
  <2>4. drop + 1 + (n + 1 - drop) - 1 = n + 1
    BY <1>2, <1>4
  <2> QED BY <1>3, <2>2, <2>3, <2>4
<1> HIDE DEF gone, kept
<1>8. id \notin DOMAIN f
  BY <1>2
<1>9. PICK k : k = s2[drop + 1]
  OBVIOUS
<1>10. k \in 0 .. id
  <2>1. drop + 1 \in 1 .. n \/ drop + 1 = n + 1
    BY <1>2, <1>4
  <2> QED BY <1>2, <1>3, <1>5, <1>9, <2>1
<1>11. ASSUME NEW m \in DOMAIN f \cup {id} PROVE m \in ToSet(gone) <=> ~(m >= k)
  <2>1. PICK i \in 1 .. (n + 1) : m = s2[i]
    <3>1. CASE m = id
      BY <1>2, <1>3, <3>1
    <3>2. CASE m \in DOMAIN f
      <4>1. PICK i \in 1 .. n : s[i] = m
        BY <1>2, <3>2
      <4>2. i \in 1 .. (n + 1)
        BY <1>2
      <4> QED BY <1>3, <4>1, <4>2
    <3> QED BY <3>1, <3>2
  <2>2. \A a, b \in 1 .. (n + 1) : a < b => s2[a] < s2[b]
    <3> SUFFICES ASSUME NEW a \in 1 .. (n + 1), NEW b \in 1 .. (n + 1), a < b PROVE s2[a] < s2[b]
      OBVIOUS
    <3>1. a \in 1 .. n /\ (b \in 1 .. n \/ b = n + 1)
      BY <1>2
    <3> QED BY <1>2, <1>3, <1>5, <3>1
  <2>3. \A a \in 1 .. (n + 1) : s2[a] \in Nat
    BY <1>2, <1>3
  <2>4. drop + 1 \in 1 .. (n + 1) /\ \A a \in 1 .. drop : a \in 1 .. (n + 1) /\ a < drop + 1
    BY <1>2, <1>4
  <2>5. ASSUME m \in ToSet(gone) PROVE ~(m >= k)
    <3>1. PICK a \in 1 .. drop : m = s2[a]
      BY <1>6, <2>5
    <3>2. s2[a] < s2[drop + 1]
      BY <2>2, <2>4
    <3> QED BY <1>9, <2>3, <2>4, <3>1, <3>2
  <2>6. ASSUME ~(m >= k) PROVE m \in ToSet(gone)
    <3>1. ~(drop + 1 < i) /\ i # drop + 1
      BY <1>9, <2>1, <2>2, <2>3, <2>4, <2>6
    <3>2. i \in 1 .. drop
      BY <1>2, <1>4, <3>1
    <3> QED BY <1>6, <2>1, <3>2
  <2> QED BY <2>5, <2>6
<1>12. DOMAIN g = {m \in DOMAIN f \cup {id} : m >= k}
  <2>1. DOMAIN f2 = DOMAIN f \cup {id}
    OBVIOUS
  <2> HIDE DEF f2
  <2>2. DOMAIN g = DOMAIN f2 \ ToSet(gone)
    OBVIOUS
  <2> HIDE DEF g
  <2> QED BY <1>11, <2>1, <2>2
<1>13. g = [m \in DOMAIN g |-> IF m = id THEN NewFile ELSE f[m]]
  OBVIOUS
<1> HIDE DEF g
<1> QED BY <1>1, <1>3, <1>7, <1>10, <1>12, <1>13 DEF Last

LEMMA RotatedExtends ==
  ASSUME NEW s, NEW f, Lists(s, f), FilesOK(f)
  PROVE  /\ Extends(f, Rotated(f, s).files, {}) /\ FilesOK(Rotated(f, s).files)
         /\ Rotated(f, s).files[Last(Rotated(f, s).segs)] = NewFile
         /\ Last(Rotated(f, s).segs) \in DOMAIN Rotated(f, s).files
         /\ \A n \in DOMAIN Rotated(f, s).files :
              Rotated(f, s).files[n] = NewFile \/ (n \in DOMAIN f /\ Rotated(f, s).files[n] = f[n])
<1>1. PICK id \in Nat : \E g : \E k \in 0 .. id :
           /\ id = s[Len(s)] + 1 /\ g = Rotated(f, s).files
           /\ Last(Rotated(f, s).segs) = id
           /\ DOMAIN g = {m \in DOMAIN f \cup {id} : m >= k}
           /\ g = [m \in DOMAIN g |-> IF m = id THEN NewFile ELSE f[m]]
  BY RotatedIs, Zenon
<1> DEFINE g == Rotated(f, s).files
<1>2. id = s[Len(s)] + 1
  BY <1>1
<1>3. PICK k \in 0 .. id : DOMAIN g = {m \in DOMAIN f \cup {id} : m >= k}
  BY <1>1
<1>4. /\ id \in Nat /\ g = [m \in DOMAIN g |-> IF m = id THEN NewFile ELSE f[m]]
      /\ Last(Rotated(f, s).segs) = id
  BY <1>1
<1>5. id \notin DOMAIN f /\ DOMAIN f \subseteq Nat
  BY <1>2, ListsFacts
<1> HIDE DEF g
<1>6. NewFile \in SegmentFile /\ DOMAIN NewFile.data = {} /\ NewFile.data = <<>>
  BY DEF NewFile, SegmentFile
<1>7. FilesOK(g)
  BY <1>3, <1>4, <1>5, <1>6 DEF FilesOK
<1>8. id \in DOMAIN g /\ g[id] = NewFile
  BY <1>3, <1>4
<1>9. \A n \in DOMAIN g : n # id => n \in DOMAIN f /\ g[n] = f[n]
  BY <1>3, <1>4
<1>10. At(g) = {p \in At(f) : p[1] >= k}
  <2>1. ASSUME NEW p \in At(g) PROVE p \in At(f) /\ p[1] >= k
    <3>1. p = <<p[1], p[2]>> /\ p[1] \in DOMAIN g /\ p[2] \in DOMAIN g[p[1]].data
      BY AtFacts
    <3>2. p[1] # id
      BY <1>6, <1>8, <3>1
    <3>3. p[1] \in DOMAIN f /\ p[2] \in DOMAIN f[p[1]].data /\ p[1] >= k
      BY <1>3, <1>9, <3>1, <3>2
    <3>4. <<p[1], p[2]>> \in At(f)
      BY <3>3, AtFacts
    <3> QED BY <3>1, <3>3, <3>4
  <2>2. ASSUME NEW p \in At(f), p[1] >= k PROVE p \in At(g)
    <3>1. p = <<p[1], p[2]>> /\ p[1] \in DOMAIN f /\ p[2] \in DOMAIN f[p[1]].data
      BY AtFacts
    <3>2. p[1] \in DOMAIN g /\ p[1] # id
      BY <1>3, <1>5, <2>2, <3>1
    <3>3. <<p[1], p[2]>> \in At(g)
      BY <1>9, <3>1, <3>2, AtFacts
    <3> QED BY <3>1, <3>3
  <2> QED BY <2>1, <2>2
<1>11. ASSUME NEW p \in At(g) PROVE EntryAt(g, p) = EntryAt(f, p)
  <2>1. p[1] # id /\ p[1] \in DOMAIN g
    <3>1. p[1] \in DOMAIN f /\ p[1] \in DOMAIN g
      BY <1>10, AtFacts
    <3> QED BY <1>5, <3>1
  <2> QED BY <1>9, <2>1 DEF EntryAt
<1>12. ASSUME NEW p \in At(f), NEW q \in At(f), q \in At(g), Before(q, p) PROVE p \in At(g)
  <2>1. q[1] >= k /\ p[1] \in Nat /\ q[1] \in Nat
    BY <1>10, <1>12, AtType
  <2>2. p[1] >= q[1]
    BY <1>12, <2>1 DEF Before
  <2> QED BY <1>3, <1>4, <1>10, <2>1, <2>2
<1>13. ASSUME NEW p \in At(f), p \notin At(g) PROVE p[1] \in DOMAIN f \ DOMAIN g
  <2>1. p[1] \in DOMAIN f /\ ~(p[1] >= k)
    BY <1>10, <1>13, AtFacts
  <2> QED BY <1>3, <2>1
<1>14. Extends(f, g, {})
  BY <1>10, <1>11, <1>12, <1>13 DEF Extends
<1> QED BY <1>4, <1>7, <1>8, <1>9, <1>14 DEF g

(* Write and WriteBatch. *)
LEMMA LoggedExtends ==
  ASSUME NEW s, NEW f, NEW es \in Seq(LogEntry), Lists(s, f), FilesOK(f), ~Full(f, s)
  PROVE  LET new == Logged(f, s, es)
         IN  /\ Extends(f, new.files, ToSet(es)) /\ FilesOK(new.files)
             /\ Lists(new.segs, new.files) /\ ~Full(new.files, new.segs)
             /\ (policy = "always" /\ \A n \in DOMAIN f : f[n].synced = Len(f[n].data)) =>
                  \A n \in DOMAIN new.files : new.files[n].synced = Len(new.files[n].data)
<1> DEFINE n == s[Len(s)]
           data == f[n].data \o es
           file == [data |-> data, torn |-> f[n].torn,
                    synced |-> IF policy = "always" THEN Len(data) ELSE f[n].synced]
           AllSynced(x) == \A m \in DOMAIN x : x[m].synced = Len(x[m].data)
<1>1. n \in DOMAIN f /\ \A m \in DOMAIN f : m \in Nat /\ m <= n
  BY ListsFacts
<1>2. f[n] \in SegmentFile /\ f[n].data \in Seq(LogEntry)
  BY <1>1 DEF FilesOK, SegmentFile
<1>3. PICK h : h = [f EXCEPT ![n] = file]
  OBVIOUS
<1>4. Logged(f, s, es) = IF Full(h, s) THEN Rotated(h, s) ELSE [files |-> h, segs |-> s]
  BY <1>1, <1>3 DEF Logged
<1>5. data \in Seq(LogEntry) /\ Len(data) \in Nat
  BY <1>2
<1>6. file \in SegmentFile /\ file.data = data
  BY <1>2, <1>5 DEF SegmentFile
<1> HIDE DEF file
<1>7. DOMAIN h = DOMAIN f /\ h[n] = file /\ \A m \in DOMAIN f : m # n => h[m] = f[m]
  BY <1>1, <1>3
<1>8. FilesOK(h) /\ Lists(s, h)
  BY <1>3, <1>6, <1>7 DEF FilesOK, Lists
<1>9. /\ \A i \in DOMAIN data : \/ i \in DOMAIN f[n].data /\ data[i] = f[n].data[i]
                                \/ data[i] \in ToSet(es) /\ i > Len(f[n].data) /\ i \in Nat
      /\ \A i \in DOMAIN f[n].data : i \in DOMAIN data
      /\ \A e \in ToSet(es) : \E i \in DOMAIN data : data[i] = e /\ i > Len(f[n].data)
  <2> DEFINE a == Len(f[n].data)
             b == Len(es)
  <2>1. a \in Nat /\ b \in Nat
    BY <1>2
  <2>2. /\ Len(data) = a + b /\ DOMAIN data = 1 .. (a + b)
        /\ \A i \in 1 .. (a + b) : data[i] = IF i <= a THEN f[n].data[i] ELSE es[i - a]
    BY <1>2, <2>1
  <2>3. DOMAIN f[n].data = 1 .. a /\ DOMAIN es = 1 .. b
    BY <1>2, <2>1
  <2> HIDE DEF data, b
  <2>4. ASSUME NEW i \in DOMAIN data
        PROVE  \/ i \in DOMAIN f[n].data /\ data[i] = f[n].data[i]
               \/ data[i] \in ToSet(es) /\ i > Len(f[n].data) /\ i \in Nat
    <3>1. CASE i <= a
      BY <2>1, <2>2, <2>3, <3>1
    <3>2. CASE ~(i <= a)
      <4>1. i - a \in 1 .. b /\ i > a /\ i \in Nat
        <5>1. i \in 1 .. (a + b)
          BY <2>2
        <5> HIDE DEF a
        <5> QED BY <2>1, <3>2, <5>1
      <4> QED BY <2>1, <2>2, <2>3, <3>2, <4>1 DEF ToSet
    <3> QED BY <3>1, <3>2
  <2>5. ASSUME NEW e \in ToSet(es) PROVE \E i \in DOMAIN data : data[i] = e /\ i > Len(f[n].data)
    <3>1. PICK j \in 1 .. b : es[j] = e
      BY <2>3 DEF ToSet
    <3>2. a + j \in 1 .. (a + b) /\ ~(a + j <= a) /\ (a + j) - a = j /\ a + j > a
      <4> HIDE DEF a
      <4> QED BY <2>1
    <3>3. data[a + j] = es[j] /\ a + j \in DOMAIN data
      <4> HIDE DEF a
      <4>1. data[a + j] = es[(a + j) - a]
        BY <2>2, <3>2
      <4> QED BY <2>2, <3>2, <4>1
    <3> QED BY <3>1, <3>2, <3>3
  <2> QED BY <2>1, <2>2, <2>3, <2>4, <2>5
<1> HIDE DEF data
<1>10. ASSUME NEW p \in At(f)
       PROVE  p \in At(h) /\ p[1] \in Nat /\ p[1] <= n
              /\ (p[1] = n => p[2] \in Nat /\ p[2] <= Len(f[n].data))
  <2>1. p = <<p[1], p[2]>> /\ p[1] \in DOMAIN f /\ p[2] \in DOMAIN f[p[1]].data
    BY AtFacts
  <2>2. p[2] \in DOMAIN h[p[1]].data
    BY <1>6, <1>7, <1>9, <2>1
  <2>3. <<p[1], p[2]>> \in At(h)
    BY <1>7, <2>1, <2>2, AtFacts
  <2> QED BY <1>1, <1>2, <2>1, <2>3
<1>11. ASSUME NEW i \in DOMAIN data, i > Len(f[n].data)
       PROVE  <<n, i>> \in At(h) /\ EntryAt(h, <<n, i>>) = data[i]
              /\ \A q \in At(f) : Before(q, <<n, i>>)
  <2>1. <<n, i>> \in At(h) /\ EntryAt(h, <<n, i>>) = data[i]
    BY <1>1, <1>6, <1>7, AtFacts DEF EntryAt
  <2>2. i \in Nat /\ Len(f[n].data) \in Nat /\ n \in Nat
    BY <1>1, <1>2, <1>5
  <2>3. ASSUME NEW q \in At(f) PROVE Before(q, <<n, i>>)
    BY <1>10, <1>11, <2>2 DEF Before
  <2> QED BY <2>1, <2>3
<1>12. Extends(f, h, ToSet(es))
  <2>1. ASSUME NEW p \in At(h)
        PROVE  \/ p \in At(f) /\ EntryAt(h, p) = EntryAt(f, p)
               \/ EntryAt(h, p) \in ToSet(es) /\ \A q \in At(f) : Before(q, p)
    <3>1. p = <<p[1], p[2]>> /\ p[1] \in DOMAIN f /\ p[2] \in DOMAIN h[p[1]].data
      BY <1>7, AtFacts
    <3>2. CASE p[1] # n
      BY <1>7, <3>1, <3>2, AtFacts DEF EntryAt
    <3>3. CASE p[1] = n
      <4>1. p[2] \in DOMAIN data
        BY <1>6, <1>7, <3>1, <3>3
      <4>2. CASE p[2] \in DOMAIN f[n].data /\ data[p[2]] = f[n].data[p[2]]
        <5>1. <<p[1], p[2]>> \in At(f)
          BY <3>1, <3>3, <4>2, AtFacts
        <5>2. EntryAt(h, p) = EntryAt(f, p)
          BY <1>6, <1>7, <3>3, <4>2 DEF EntryAt
        <5> QED BY <3>1, <5>1, <5>2
      <4>3. CASE data[p[2]] \in ToSet(es) /\ p[2] > Len(f[n].data)
        BY <1>11, <3>1, <3>3, <4>1, <4>3
      <4> QED BY <1>9, <4>1, <4>2, <4>3
    <3> QED BY <3>2, <3>3
  <2>2. \A e \in ToSet(es) : \E p \in At(h) : EntryAt(h, p) = e /\ \A x \in At(f) : Before(x, p)
    BY <1>9, <1>11
  <2>3. \A p \in At(f) : p \in At(h)
    BY <1>10
  <2> QED BY <2>1, <2>2, <2>3 DEF Extends
<1>13. policy = "always" /\ AllSynced(f) => AllSynced(h)
  BY <1>5, <1>6, <1>7 DEF file
<1>14. CASE ~Full(h, s)
  BY <1>4, <1>8, <1>12, <1>13, <1>14
<1>15. CASE Full(h, s)
  <2>1. PICK g : g = Rotated(h, s)
    OBVIOUS
  <2>2. /\ Extends(h, g.files, {}) /\ FilesOK(g.files)
        /\ g.files[Last(g.segs)] = NewFile /\ Last(g.segs) \in DOMAIN g.files
        /\ \A m \in DOMAIN g.files : g.files[m] = NewFile \/ (m \in DOMAIN h /\ g.files[m] = h[m])
    BY <1>8, <2>1, RotatedExtends
  <2>3. Lists(g.segs, g.files)
    BY <1>8, <2>1, RotatedLists
  <2>4. NewFile.data = <<>> /\ NewFile.synced = 0
    BY DEF NewFile
  <2>5. ~Full(g.files, g.segs)
    <3>1. Len(g.files[Last(g.segs)].data) = 0
      BY <2>2, <2>4
    <3>2. SegSize \in Nat \ {0}
      BY ConstantsAssumption
    <3> QED BY <3>1, <3>2 DEF Full, Last
  <2>6. \A p \in At(h) : p \in At(g.files) => EntryAt(g.files, p) = EntryAt(h, p)
    BY <1>8, <2>2, ExtendsKeeps
  <2>7. Extends(f, g.files, ToSet(es))
    <3>1. ASSUME NEW p \in At(g.files) PROVE p \in At(h) /\ EntryAt(g.files, p) = EntryAt(h, p)
      BY <2>2 DEF Extends
    <3>2. \A p \in At(g.files) : \/ p \in At(f) /\ EntryAt(g.files, p) = EntryAt(f, p)
                                 \/ EntryAt(g.files, p) \in ToSet(es) /\ \A q \in At(f) : Before(q, p)
      BY <1>12, <3>1 DEF Extends
    <3>3. \A p, q \in At(f) : q \in At(g.files) /\ Before(q, p) => p \in At(g.files)
      BY <1>10, <2>2 DEF Extends
    <3>4. \A p \in At(f) : p \notin At(g.files) => p[1] \in DOMAIN f \ DOMAIN g.files
      BY <1>7, <1>10, <2>2 DEF Extends
    <3>5. ASSUME NEW q \in At(f), q \in At(g.files), NEW e \in ToSet(es)
          PROVE  \E p \in At(g.files) : EntryAt(g.files, p) = e /\ \A x \in At(f) : Before(x, p)
      <4>1. PICK i \in DOMAIN data : data[i] = e /\ i > Len(f[n].data)
        BY <1>9
      <4>2. PICK p : p = <<n, i>>
        OBVIOUS
      <4>3. p \in At(h) /\ EntryAt(h, p) = e /\ \A x \in At(f) : Before(x, p)
        BY <1>11, <4>1, <4>2
      <4>4. p \in At(g.files)
        BY <1>10, <2>2, <3>5, <4>3 DEF Extends
      <4> QED BY <2>6, <4>3, <4>4
    <3> QED BY <3>2, <3>3, <3>4, <3>5 DEF Extends
  <2>8. policy = "always" /\ AllSynced(f) => AllSynced(g.files)
    BY <1>13, <2>2, <2>4
  <2>9. Logged(f, s, es) = g
    BY <1>4, <1>15, <2>1
  <2> QED BY <2>2, <2>3, <2>5, <2>7, <2>8, <2>9
<1> QED BY <1>14, <1>15

-----------------------------------------------------------------------------
(* What Badger holds.                                                      *)

LEMMA ValLast ==
  ASSUME NEW b, NEW t \in Seq(Commit), NEW d, CommitsOf(t, d) # {}
  PROVE  \E i \in CommitsOf(t, d) :
           (\A j \in CommitsOf(t, d) : j <= i) /\ ValIn(b, t, d) = t[i].val
<1>1. CommitsOf(t, d) \in SUBSET (1 .. Len(t)) /\ Len(t) \in Nat
  BY DEF CommitsOf
<1>2. IsFiniteSet(CommitsOf(t, d))
  <2>1. IsFiniteSet(1 .. Len(t))
    BY <1>1, FS_Interval
  <2> QED BY <1>1, <2>1, FS_Subset
<1>3. CommitsOf(t, d) \in SUBSET Nat
  BY <1>1
<1>4. PICK x \in CommitsOf(t, d) : \A y \in CommitsOf(t, d) : x >= y
  BY <1>2, <1>3, LargestPosition
<1>5. \A y \in CommitsOf(t, d) : y <= x
  BY <1>3, <1>4
<1>6. PICK c : c = CHOOSE i \in CommitsOf(t, d) : \A j \in CommitsOf(t, d) : j <= i
  OBVIOUS
<1>7. c \in CommitsOf(t, d) /\ \A j \in CommitsOf(t, d) : j <= c
  BY <1>5, <1>6
<1>8. ValIn(b, t, d) = t[c].val
  BY <1>6 DEF ValIn
<1> QED BY <1>7, <1>8

LEMMA ValStarts ==
  ASSUME NEW d, tail \in Seq(Commit)
  PROVE  Val(d) \in Starts(d) /\ base[d] \in Starts(d)
<1>1. ValIn(base, tail, d) \in {base[d]} \cup {tail[i].val : i \in CommitsOf(tail, d)}
  BY ValLast DEF ValIn
<1> QED BY <1>1 DEF Val, Starts

(* A document no commit in the tail is about. *)
LEMMA StableVal ==
  ASSUME NEW d, tail \in Seq(Commit), d \notin Unsynced
  PROVE  Val(d) = base[d] /\ Starts(d) = {base[d]}
<1>1. CommitsOf(tail, d) = {}
  BY DEF CommitsOf, Unsynced, ToSet
<1> QED BY <1>1 DEF Val, Starts, ValIn

LEMMA StoreFacts ==
  ASSUME NEW D \in SUBSET Docs, NEW val \in Value, Store(D, val), tail \in Seq(Commit)
  PROVE  /\ tail' \in Seq(Commit) /\ base' = base
         /\ Unsynced' = Unsynced \cup D
         /\ \A d \in Docs : /\ Val(d)' = IF d \in D THEN val ELSE Val(d)
                            /\ Starts(d)' = Starts(d) \cup IF d \in D THEN {val} ELSE {}
<1> DEFINE S == {[doc |-> d, val |-> val] : d \in D}
<1>1. IsFiniteSet(S)
  <2>1. IsFiniteSet(D)
    BY ConstantsAssumption, FS_Subset
  <2>2. [d \in D |-> [doc |-> d, val |-> val]] \in Surjection(D, S)
    BY DEF Surjection
  <2> QED BY <2>1, <2>2, FS_Surjection
<1>2. PICK es : es = SetToSeq(S)
  OBVIOUS
<1>3. es \in Seq(S) /\ ToSet(es) = S
  BY <1>1, <1>2, SetToSeqFacts
<1>4. tail' = tail \o es /\ base' = base
  BY <1>2 DEF Store
<1>5. S \subseteq Commit
  BY DEF Commit
<1>6. es \in Seq(Commit)
  <2>1. \A i \in 1 .. Len(es) : es[i] \in Commit
    BY <1>3, <1>5
  <2>2. es = [i \in 1 .. Len(es) |-> es[i]] /\ Len(es) \in Nat
    BY <1>3
  <2> QED BY <2>1, <2>2
<1>7. PICK a : a = Len(tail)
  OBVIOUS
<1>8. PICK b : b = Len(es)
  OBVIOUS
<1>9. /\ tail' \in Seq(Commit) /\ a \in Nat /\ b \in Nat
      /\ DOMAIN tail' = 1 .. (a + b) /\ DOMAIN tail = 1 .. a /\ DOMAIN es = 1 .. b
      /\ \A i \in 1 .. (a + b) : tail'[i] = IF i <= a THEN tail[i] ELSE es[i - a]
  BY <1>4, <1>6, <1>7, <1>8
<1>10. /\ \A i \in 1 .. a : i \in 1 .. (a + b) /\ tail'[i] = tail[i]
       /\ \A i \in 1 .. b : a + i \in 1 .. (a + b) /\ tail'[a + i] = es[i]
       /\ \A i \in 1 .. (a + b) : i \in 1 .. a \/ (i - a \in 1 .. b /\ i = a + (i - a))
  <2>1. \A i \in 1 .. a : i \in 1 .. (a + b) /\ i <= a
    BY <1>9
  <2>2. \A i \in 1 .. b : a + i \in 1 .. (a + b) /\ ~(a + i <= a) /\ (a + i) - a = i
    BY <1>9
  <2>3. \A i \in 1 .. (a + b) : i \in 1 .. a \/ (i - a \in 1 .. b /\ i = a + (i - a))
    BY <1>9
  <2>4. \A i \in 1 .. b : tail'[a + i] = es[(a + i) - a]
    BY <1>9, <2>2
  <2> QED BY <1>9, <2>1, <2>2, <2>3, <2>4
<1>11. \A c \in S : c.doc \in D /\ c.val = val /\ c = [doc |-> c.doc, val |-> val]
  OBVIOUS
<1>12. \A i \in 1 .. b : es[i] \in S
  BY <1>3, <1>9 DEF ToSet
<1>13. \A d \in D : \E i \in 1 .. b : es[i].doc = d /\ es[i].val = val
  <2> SUFFICES ASSUME NEW d \in D PROVE \E i \in 1 .. b : es[i].doc = d /\ es[i].val = val
    OBVIOUS
  <2>1. [doc |-> d, val |-> val] \in ToSet(es)
    BY <1>3
  <2>2. PICK i \in 1 .. b : es[i] = [doc |-> d, val |-> val]
    BY <1>9, <2>1 DEF ToSet
  <2> QED BY <2>2
<1> HIDE DEF S
<1>14. Unsynced' = Unsynced \cup D
  <2>1. Unsynced = {tail[i].doc : i \in 1 .. a}
    BY <1>9 DEF Unsynced, ToSet
  <2>2. Unsynced' = {tail'[i].doc : i \in 1 .. (a + b)}
    BY <1>9 DEF Unsynced, ToSet
  <2>3. ASSUME NEW d \in Unsynced' PROVE d \in Unsynced \cup D
    <3>1. PICK i \in 1 .. (a + b) : d = tail'[i].doc
      BY <2>2
    <3>2. CASE i \in 1 .. a
      BY <1>10, <2>1, <3>1, <3>2
    <3>3. CASE i - a \in 1 .. b /\ i = a + (i - a)
      BY <1>10, <1>11, <1>12, <3>1, <3>3
    <3> QED BY <1>10, <3>2, <3>3
  <2>4. ASSUME NEW d \in Unsynced PROVE d \in Unsynced'
    BY <1>10, <2>1, <2>2, <2>4
  <2>5. ASSUME NEW d \in D PROVE d \in Unsynced'
    BY <1>10, <1>13, <2>2, <2>5
  <2> QED BY <2>3, <2>4, <2>5
<1>15. ASSUME NEW d \in Docs
       PROVE  /\ d \notin D => CommitsOf(tail', d) = CommitsOf(tail, d)
              /\ \A i \in CommitsOf(tail', d) : i \in CommitsOf(tail, d) \/ (d \in D /\ tail'[i].val = val)
              /\ CommitsOf(tail, d) \subseteq CommitsOf(tail', d)
              /\ d \in D => \E i \in CommitsOf(tail', d) : i > a
              /\ \A i \in CommitsOf(tail', d) : i \in Nat /\ (i > a => tail'[i].val = val)
              /\ \A i \in CommitsOf(tail, d) : tail'[i].val = tail[i].val
  <2>1. \A i \in CommitsOf(tail', d) : i \in 1 .. (a + b) /\ tail'[i].doc = d
    BY <1>9 DEF CommitsOf
  <2>2. ASSUME NEW i \in CommitsOf(tail', d)
        PROVE  \/ i \in CommitsOf(tail, d) /\ i \in 1 .. a
               \/ d \in D /\ tail'[i].val = val /\ i \in Nat /\ i > a
    <3>1. i \in 1 .. (a + b) /\ tail'[i].doc = d
      BY <2>1
    <3>2. CASE i \in 1 .. a
      BY <1>9, <1>10, <3>1, <3>2 DEF CommitsOf
    <3>3. CASE i - a \in 1 .. b /\ i = a + (i - a)
      <4>1. tail'[i] \in S
        BY <1>10, <1>12, <3>3
      <4>2. i \in Nat /\ i > a
        BY <1>9, <3>1, <3>3
      <4> QED BY <1>11, <3>1, <4>1, <4>2
    <3> QED BY <1>10, <3>1, <3>2, <3>3
  <2>3. ASSUME NEW i \in CommitsOf(tail, d) PROVE i \in CommitsOf(tail', d) /\ tail'[i] = tail[i]
    BY <1>9, <1>10 DEF CommitsOf
  <2>4. ASSUME d \in D PROVE \E i \in CommitsOf(tail', d) : i > a
    <3>1. PICK i \in 1 .. b : es[i].doc = d
      BY <1>13, <2>4
    <3>2. a + i \in CommitsOf(tail', d)
      BY <1>9, <1>10, <3>1 DEF CommitsOf
    <3>3. a + i > a
      BY <1>9
    <3> QED BY <3>2, <3>3
  <2>5. \A i \in 1 .. a : i \in Nat /\ ~(i > a)
    BY <1>9
  <2> QED BY <2>2, <2>3, <2>4, <2>5
<1>18. PICK t : t = tail'
  OBVIOUS
<1>16. ASSUME NEW d \in Docs PROVE Val(d)' = IF d \in D THEN val ELSE Val(d)
  <2>1. Val(d) = ValIn(base, tail, d) /\ Val(d)' = ValIn(base, tail', d)
    BY <1>4 DEF Val
  <2>2. CASE d \in D
    <3>1. PICK i \in CommitsOf(tail', d) : (\A j \in CommitsOf(tail', d) : j <= i)
                                           /\ ValIn(base, tail', d) = tail'[i].val
      <4>1. CommitsOf(t, d) # {}
        BY <1>15, <1>18, <2>2
      <4>2. t \in Seq(Commit)
        BY <1>9, <1>18
      <4>3. PICK i \in CommitsOf(t, d) : (\A j \in CommitsOf(t, d) : j <= i)
                                         /\ ValIn(base, t, d) = t[i].val
        BY <4>1, <4>2, ValLast
      <4> QED BY <1>18, <4>3
    <3>2. PICK k \in CommitsOf(tail', d) : k > a
      BY <1>15, <2>2
    <3>3. i \in Nat /\ k \in Nat /\ k <= i
      BY <1>15, <3>1
    <3>4. i > a
      BY <1>9, <3>2, <3>3
    <3> QED BY <1>15, <2>1, <2>2, <3>1, <3>4
  <2>3. CASE d \notin D
    <3>1. CommitsOf(tail', d) = CommitsOf(tail, d)
      BY <1>15, <2>3
    <3>2. CASE CommitsOf(tail, d) = {}
      <4>1. ValIn(base, tail, d) = base[d] /\ ValIn(base, tail', d) = base[d]
        BY <3>1, <3>2 DEF ValIn
      <4> QED BY <2>1, <2>3, <4>1
    <3>3. CASE CommitsOf(tail, d) # {}
      <4>1. PICK c : c = CHOOSE i \in CommitsOf(tail, d) : \A j \in CommitsOf(tail, d) : j <= i
        OBVIOUS
      <4>2. ValIn(base, tail, d) = tail[c].val /\ ValIn(base, tail', d) = tail'[c].val
        BY <3>1, <3>3, <4>1 DEF ValIn
      <4>3. c \in CommitsOf(tail, d)
        <5>1. PICK i \in CommitsOf(tail, d) : \A j \in CommitsOf(tail, d) : j <= i
          BY <3>3, ValLast
        <5> QED BY <4>1, <5>1
      <4> QED BY <1>15, <2>1, <2>3, <4>2, <4>3
    <3> QED BY <3>2, <3>3
  <2> QED BY <2>2, <2>3
<1>17. ASSUME NEW d \in Docs
       PROVE  Starts(d)' = Starts(d) \cup IF d \in D THEN {val} ELSE {}
  <2>1. Starts(d)' = {base[d]} \cup {tail'[i].val : i \in CommitsOf(tail', d)}
    BY <1>4 DEF Starts
  <2>2. d \in D => \E i \in CommitsOf(tail', d) : tail'[i].val = val
    BY <1>15
  <2>3. {tail'[i].val : i \in CommitsOf(tail', d)} =
          {tail[i].val : i \in CommitsOf(tail, d)} \cup IF d \in D THEN {val} ELSE {}
    <3>1. ASSUME NEW v \in {tail'[i].val : i \in CommitsOf(tail', d)}
          PROVE  v \in {tail[i].val : i \in CommitsOf(tail, d)} \/ (d \in D /\ v = val)
      <4>1. PICK i \in CommitsOf(tail', d) : v = tail'[i].val
        OBVIOUS
      <4> QED BY <1>15, <4>1
    <3>2. ASSUME NEW v \in {tail[i].val : i \in CommitsOf(tail, d)}
          PROVE  v \in {tail'[i].val : i \in CommitsOf(tail', d)}
      <4>1. PICK i \in CommitsOf(tail, d) : v = tail[i].val
        OBVIOUS
      <4>2. i \in CommitsOf(tail', d) /\ tail'[i].val = v
        BY <1>15, <4>1
      <4> QED BY <4>2
    <3>3. d \in D => val \in {tail'[i].val : i \in CommitsOf(tail', d)}
      BY <2>2
    <3> QED BY <3>1, <3>2, <3>3
  <2> QED BY <2>1, <2>3 DEF Starts
<1> QED BY <1>4, <1>9, <1>14, <1>16, <1>17

-----------------------------------------------------------------------------
(* What ReadAll returns is the log, in its order.                          *)

(* What ReadAll returns is in the order of the log. *)
InOrder(R, f, D, place) ==
  /\ \A i \in DOMAIN R : /\ place[i] \in At(f) /\ R[i] = EntryAt(f, place[i])
                         /\ place[i][1] \in D
  /\ \A i, j \in DOMAIN R : i < j => Before(place[i], place[j])
  /\ \A p \in At(f) : p[1] \in D => \E i \in DOMAIN R : place[i] = p

LEMMA ReadStep ==
  ASSUME NEW f, FilesOK(f), NEW D \in SUBSET DOMAIN f, NEW n \in DOMAIN f,
         \A m \in D : m < n, NEW R \in Seq(LogEntry), NEW place, InOrder(R, f, D, place)
  PROVE  \E more : InOrder(R \o f[n].data, f, D \cup {n}, more)
<1> DEFINE a == Len(R)
           b == Len(f[n].data)
           R2 == R \o f[n].data
           more == [i \in 1 .. (a + b) |-> IF i <= a THEN place[i] ELSE <<n, i - a>>]
<1>1. f[n].data \in Seq(LogEntry) /\ n \in Nat
  BY DEF FilesOK, SegmentFile
<1>2. /\ a \in Nat /\ b \in Nat /\ DOMAIN R = 1 .. a /\ DOMAIN f[n].data = 1 .. b
      /\ DOMAIN R2 = 1 .. (a + b)
      /\ \A i \in 1 .. (a + b) : R2[i] = IF i <= a THEN R[i] ELSE f[n].data[i - a]
  BY <1>1
<1>3. \A i \in 1 .. (a + b) : more[i] = IF i <= a THEN place[i] ELSE <<n, i - a>>
  OBVIOUS
<1> HIDE DEF a, b, R2, more
<1>4. /\ \A i \in 1 .. a : i \in 1 .. (a + b) /\ i <= a
      /\ \A i \in 1 .. (a + b) : i <= a => i \in 1 .. a
      /\ \A i \in 1 .. (a + b) : ~(i <= a) => i - a \in 1 .. b
      /\ \A i \in 1 .. b : a + i \in 1 .. (a + b) /\ ~(a + i <= a) /\ (a + i) - a = i
  BY <1>2
<1>5. ASSUME NEW i \in DOMAIN R2
      PROVE  more[i] \in At(f) /\ R2[i] = EntryAt(f, more[i]) /\ more[i][1] \in D \cup {n}
  <2>1. CASE i <= a
    <3>1. i \in DOMAIN R /\ more[i] = place[i] /\ R2[i] = R[i]
      BY <1>2, <1>3, <1>4, <2>1
    <3> QED BY <3>1 DEF InOrder
  <2>2. CASE ~(i <= a)
    <3>1. i - a \in DOMAIN f[n].data /\ more[i] = <<n, i - a>> /\ R2[i] = f[n].data[i - a]
      BY <1>2, <1>3, <1>4, <2>2
    <3>2. PICK k : k = i - a
      OBVIOUS
    <3>3. k \in DOMAIN f[n].data /\ more[i] = <<n, k>> /\ R2[i] = f[n].data[k]
      BY <3>1, <3>2
    <3>4. <<n, k>> \in At(f) /\ EntryAt(f, <<n, k>>) = f[n].data[k]
      BY <3>3, AtFacts DEF EntryAt
    <3> QED BY <3>3, <3>4
  <2> QED BY <2>1, <2>2
<1>6. ASSUME NEW i \in DOMAIN R2, NEW j \in DOMAIN R2, i < j PROVE Before(more[i], more[j])
  <2>1. CASE j <= a
    <3>1. i <= a /\ i \in DOMAIN R /\ j \in DOMAIN R /\ more[i] = place[i] /\ more[j] = place[j]
      <4>1. i \in 1 .. (a + b) /\ j \in 1 .. (a + b) /\ i <= a
        BY <1>2, <1>6, <2>1
      <4> QED BY <1>2, <1>3, <1>4, <2>1, <4>1
    <3> QED BY <1>6, <3>1 DEF InOrder
  <2>2. CASE i <= a /\ ~(j <= a)
    <3>1. i \in DOMAIN R /\ more[i] = place[i] /\ more[j] = <<n, j - a>>
      BY <1>2, <1>3, <1>4, <2>2
    <3>2. more[i][1] < n
      BY <3>1 DEF InOrder
    <3> QED BY <3>1, <3>2 DEF Before
  <2>3. CASE ~(i <= a) /\ ~(j <= a)
    <3>1. more[i] = <<n, i - a>> /\ more[j] = <<n, j - a>>
      BY <1>2, <1>3, <2>3
    <3>2. i - a < j - a
      <4>1. i \in Nat /\ j \in Nat /\ a \in Nat
        BY <1>2
      <4> QED BY <1>6, <4>1
    <3> QED BY <3>1, <3>2 DEF Before
  <2> QED BY <1>2, <1>6, <2>1, <2>2, <2>3
<1>7. ASSUME NEW p \in At(f), p[1] \in D \cup {n} PROVE \E i \in DOMAIN R2 : more[i] = p
  <2>1. p = <<p[1], p[2]>> /\ p[2] \in DOMAIN f[p[1]].data
    BY AtFacts
  <2>2. CASE p[1] \in D
    <3>1. PICK i \in DOMAIN R : place[i] = p
      BY <2>2 DEF InOrder
    <3> QED BY <1>2, <1>3, <1>4, <3>1
  <2>3. CASE p[1] = n
    <3>1. PICK k \in 1 .. b : k = p[2]
      BY <1>2, <2>1, <2>3
    <3>2. a + k \in DOMAIN R2 /\ more[a + k] = <<n, (a + k) - a>> /\ (a + k) - a = k
      BY <1>2, <1>3, <1>4
    <3> QED BY <2>1, <2>3, <3>1, <3>2
  <2> QED BY <1>7, <2>2, <2>3
<1>8. InOrder(R2, f, D \cup {n}, more)
  BY <1>5, <1>6, <1>7 DEF InOrder
<1> QED BY <1>8 DEF R2

LEMMA ReadInOrder ==
  ASSUME NEW s, NEW f, Lists(s, f), FilesOK(f)
  PROVE  ReadAll(f, s) \in Seq(LogEntry) /\ \E place : InOrder(ReadAll(f, s), f, DOMAIN f, place)
<1> DEFINE n == Len(s)
           U(m) == {s[i] : i \in 1 .. m}
<1>1. /\ n \in Nat \ {0} /\ DOMAIN s = 1 .. n
      /\ \A i \in 1 .. n : s[i] \in DOMAIN f /\ s[i] \in Nat
      /\ \A i, j \in 1 .. n : i < j => s[i] < s[j]
      /\ DOMAIN f = {s[i] : i \in 1 .. n}
  <2>1. \A m \in DOMAIN f : \E i \in 1 .. n : s[i] = m
    BY ListsFacts
  <2>2. n \in Nat \ {0} /\ DOMAIN s = 1 .. n /\ \A i \in 1 .. n : s[i] \in DOMAIN f /\ s[i] \in Nat
    BY ListsFacts DEF Lists
  <2>3. \A i, j \in 1 .. n : i < j => s[i] < s[j]
    BY DEF Lists
  <2>4. DOMAIN f = {s[i] : i \in 1 .. n}
    BY <2>1, <2>2
  <2> QED BY <2>2, <2>3, <2>4
<1>2. PICK seqs : seqs = [i \in 1 .. n |-> f[s[i]].data]
  OBVIOUS
<1>3. ReadAll(f, s) = FlattenSeq(seqs)
  <2>1. [i \in DOMAIN s |-> IF s[i] \in DOMAIN f THEN f[s[i]].data ELSE <<>>] = seqs
    BY <1>1, <1>2
  <2> QED BY <2>1 DEF ReadAll
<1>4. \A i \in 1 .. n : f[s[i]].data \in Seq(LogEntry)
  BY <1>1 DEF FilesOK, SegmentFile
<1>5. seqs \in Seq(Seq(LogEntry)) /\ Len(seqs) = n
  BY <1>1, <1>2, <1>4
<1>6. PICK h : /\ FlattenSeq(seqs) = h[n]
               /\ h[1] = seqs[1]
               /\ \A i \in 1 .. n : h[i] \in Seq(LogEntry)
               /\ \A i \in 1 .. n - 1 : h[i + 1] = h[i] \o seqs[i + 1]
  <2>1. \E g : /\ FlattenSeq(seqs) = g[Len(seqs)]
               /\ g[1] = seqs[1]
               /\ \A i \in 1 .. Len(seqs) : g[i] \in Seq(LogEntry)
               /\ \A i \in 1 .. Len(seqs) - 1 : g[i + 1] = g[i] \o seqs[i + 1]
    BY <1>1, <1>5, Unrolled
  <2> QED BY <1>5, <2>1
<1> DEFINE G == {m \in 0 .. (n - 1) : \E place : InOrder(h[m + 1], f, U(m + 1), place)}
<1>7. 0 \in G
  <2>1. <<>> \in Seq(LogEntry) /\ DOMAIN <<>> = {}
    OBVIOUS
  <2>2. InOrder(<<>>, f, {}, <<>>)
    BY <2>1 DEF InOrder
  <2>3. s[1] \in DOMAIN f /\ {} \in SUBSET DOMAIN f
    BY <1>1
  <2>4. \E place : InOrder(<<>> \o f[s[1]].data, f, {} \cup {s[1]}, place)
    BY <2>1, <2>2, <2>3, ReadStep
  <2>5. <<>> \o f[s[1]].data = h[1]
    BY <1>1, <1>2, <1>4, <1>6
  <2>6. {} \cup {s[1]} = U(1) /\ 0 + 1 = 1 /\ 0 \in 0 .. (n - 1)
    BY <1>1
  <2> HIDE DEF U
  <2> QED BY <2>4, <2>5, <2>6
<1>8. ASSUME NEW m \in G, m < n - 1 PROVE m + 1 \in G
  <2>1. m \in Nat /\ m + 1 \in 1 .. n /\ m + 2 \in 1 .. n /\ m + 1 \in 1 .. n - 1 /\ m + 1 + 1 = m + 2
        /\ m + 1 \in 0 .. (n - 1)
    BY <1>1, <1>8
  <2>2. PICK place : InOrder(h[m + 1], f, U(m + 1), place)
    OBVIOUS
  <2>3. U(m + 1) \in SUBSET DOMAIN f /\ s[m + 2] \in DOMAIN f
    <3>1. \A i \in 1 .. (m + 1) : i \in 1 .. n
      BY <1>1, <2>1
    <3> QED BY <1>1, <2>1, <3>1
  <2>4. \A k \in U(m + 1) : k < s[m + 2]
    <3>1. \A i \in 1 .. (m + 1) : i \in 1 .. n /\ i < m + 2
      BY <1>1, <2>1
    <3>2. ASSUME NEW i \in 1 .. (m + 1) PROVE s[i] < s[m + 2]
      <4>1. i \in 1 .. n /\ m + 2 \in 1 .. n /\ i < m + 2
        BY <2>1, <3>1
      <4> QED BY <1>1, <4>1
    <3> QED BY <3>2
  <2>5. U(m + 2) = U(m + 1) \cup {s[m + 2]}
    <3>1. \A i \in 1 .. (m + 2) : i \in 1 .. (m + 1) \/ i = m + 2
      BY <2>1
    <3>2. \A i \in 1 .. (m + 1) : i \in 1 .. (m + 2)
      BY <2>1
    <3>3. m + 2 \in 1 .. (m + 2)
      BY <2>1
    <3> QED BY <3>1, <3>2, <3>3
  <2>6. h[m + 2] = h[m + 1] \o f[s[m + 2]].data /\ h[m + 1] \in Seq(LogEntry)
    <3>1. h[m + 1 + 1] = h[m + 1] \o seqs[m + 1 + 1]
      BY <1>6, <2>1
    <3>2. seqs[m + 2] = f[s[m + 2]].data
      BY <1>2, <2>1
    <3> QED BY <1>6, <2>1, <3>1, <3>2
  <2> HIDE DEF U
  <2>7. PICK R, D : R = h[m + 1] /\ D = U(m + 1)
    OBVIOUS
  <2>8. \E more : InOrder(R \o f[s[m + 2]].data, f, D \cup {s[m + 2]}, more)
    BY <2>2, <2>3, <2>4, <2>6, <2>7, ReadStep
  <2>9. \E more : InOrder(h[m + 2], f, U(m + 2), more)
    BY <2>5, <2>6, <2>7, <2>8
  <2> QED BY <2>1, <2>9
<1>9. n - 1 \in G
  <2> HIDE DEF G
  <2>1. G \in SUBSET (0 .. (n - 1)) /\ n - 1 \in Nat
    BY <1>1 DEF G
  <2> QED BY <1>7, <1>8, <2>1, UpToTheEnd
<1>10. \E place : InOrder(h[n], f, U(n), place)
  <2>1. n - 1 + 1 = n
    BY <1>1
  <2> QED BY <1>9, <2>1
<1>11. U(n) = DOMAIN f /\ h[n] \in Seq(LogEntry)
  BY <1>1, <1>6
<1> HIDE DEF U
<1> QED BY <1>3, <1>6, <1>10, <1>11

(* The last entry recovery redoes for d, if there is one. *)
LEMMA ReadLast ==
  ASSUME NEW s, NEW f, Lists(s, f), FilesOK(f), NEW R, R = ReadAll(f, s)
  PROVE  /\ R \in Seq(LogEntry) /\ ToSet(R) = EntriesIn(f)
         /\ \A d \in Docs : (\E i \in DOMAIN R : Redone(R[i], d)) =>
              \E j \in DOMAIN R, p \in At(f) :
                /\ Redone(R[j], d) /\ \A i \in DOMAIN R : Redone(R[i], d) => i <= j
                /\ R[j] = EntryAt(f, p)
                /\ \A q \in At(f) : Redone(EntryAt(f, q), d) => ~Before(p, q)
<1>1. R \in Seq(LogEntry)
  BY ReadInOrder
<1>2. PICK place : InOrder(R, f, DOMAIN f, place)
  BY ReadInOrder
<1>3. ToSet(R) = EntriesIn(f)
  <2>1. \A p \in At(f) : p[1] \in DOMAIN f
    BY AtFacts
  <2>2. ToSet(R) = {R[i] : i \in DOMAIN R}
    BY DEF ToSet
  <2> QED BY <1>2, <2>1, <2>2, EntriesAt DEF InOrder
<1>4. ASSUME NEW d \in Docs, \E i \in DOMAIN R : Redone(R[i], d)
      PROVE  \E j \in DOMAIN R, p \in At(f) :
                /\ Redone(R[j], d) /\ \A i \in DOMAIN R : Redone(R[i], d) => i <= j
                /\ R[j] = EntryAt(f, p)
                /\ \A q \in At(f) : Redone(EntryAt(f, q), d) => ~Before(p, q)
  <2> DEFINE S == {i \in DOMAIN R : Redone(R[i], d)}
  <2>1. S \in SUBSET (1 .. Len(R)) /\ Len(R) \in Nat
    BY <1>1
  <2>2. IsFiniteSet(S) /\ S \in SUBSET Nat /\ S # {}
    <3>1. IsFiniteSet(1 .. Len(R))
      BY <2>1, FS_Interval
    <3>2. IsFiniteSet(S)
      BY <2>1, <3>1, FS_Subset
    <3> QED BY <1>4, <2>1, <3>2
  <2>3. PICK j \in S : \A y \in S : j >= y
    <3> HIDE DEF S
    <3> QED BY <2>2, LargestPosition
  <2>4. \A i \in DOMAIN R : Redone(R[i], d) => i <= j
    BY <2>1, <2>3
  <2>5. PICK p : p = place[j]
    OBVIOUS
  <2>6. j \in DOMAIN R /\ p \in At(f) /\ R[j] = EntryAt(f, p) /\ Redone(R[j], d)
    BY <1>2, <2>3, <2>5 DEF InOrder
  <2>7. ASSUME NEW q \in At(f), Redone(EntryAt(f, q), d) PROVE ~Before(p, q)
    <3>1. q[1] \in DOMAIN f
      BY AtFacts
    <3>2. PICK i \in DOMAIN R : place[i] = q /\ R[i] = EntryAt(f, q)
      BY <1>2, <3>1 DEF InOrder
    <3>3. i <= j /\ i \in Nat /\ j \in Nat
      BY <2>1, <2>3, <2>4, <2>7, <3>2
    <3>4. i = j \/ i < j
      BY <3>3
    <3>5. ~Before(q, p) => i = j
      BY <1>2, <2>5, <2>6, <3>2, <3>4 DEF InOrder
    <3>6. i = j => ~Before(p, q)
      BY <2>5, <2>6, <3>2, BeforeOrder
    <3>7. ~(Before(p, q) /\ Before(q, p))
      BY <2>6, BeforeOrder
    <3> QED BY <3>5, <3>6, <3>7
  <2> QED BY <2>4, <2>6, <2>7
<1> QED BY <1>1, <1>3, <1>4

-----------------------------------------------------------------------------
(* What a power failure, a sync and a checkpoint leave of the log.         *)

(* A power failure leaves a part of each file, and all of it with "always". *)
LEMMA PowerLossLog ==
  ASSUME FilesOK(files), NEW f \in AfterPowerLoss, Lists(segs, files)
  PROVE  /\ FilesOK(f) /\ At(f) \subseteq At(files) /\ Lists(segs, f)
         /\ \A p \in At(f) : EntryAt(f, p) = EntryAt(files, p)
         /\ EntriesIn(f) \subseteq EntriesIn(files) /\ DocsIn(f) \subseteq DocsIn(files)
         /\ NotFull => ~Full(f, segs)
         /\ Synced => \A n \in DOMAIN f : policy = "always" => f[n].synced = Len(f[n].data)
         /\ Synced /\ policy = "always" => EntriesIn(f) = EntriesIn(files)
<1>1. DOMAIN f = DOMAIN files /\ f = [n \in DOMAIN f |-> f[n]]
      /\ \A n \in DOMAIN files : f[n] \in Remains(files[n])
  BY DEF AfterPowerLoss
<1>2. ASSUME NEW n \in DOMAIN files
      PROVE  /\ files[n].data \in Seq(LogEntry) /\ f[n].data \in Seq(LogEntry) /\ f[n] \in SegmentFile
             /\ f[n].synced = Len(f[n].data) /\ files[n].synced \in Nat
             /\ Len(f[n].data) \in Nat /\ Len(files[n].data) \in Nat
             /\ Len(f[n].data) <= Len(files[n].data)
             /\ \A i \in DOMAIN f[n].data : i \in DOMAIN files[n].data /\ f[n].data[i] = files[n].data[i]
             /\ f[n].synced >= files[n].synced
  <2>1. PICK k \in files[n].synced .. Len(files[n].data), t \in BOOLEAN :
          f[n] = [data |-> SubSeq(files[n].data, 1, k), synced |-> k,
                  torn |-> files[n].torn \/ (t /\ k < Len(files[n].data))]
    BY <1>1 DEF Remains
  <2>2. /\ files[n].data \in Seq(LogEntry) /\ files[n].synced \in Nat /\ files[n].torn \in BOOLEAN
    BY DEF FilesOK, SegmentFile
  <2>3. k \in Nat /\ k <= Len(files[n].data) /\ k >= files[n].synced
    BY <2>2
  <2>4. PICK d : d = SubSeq(files[n].data, 1, k)
    OBVIOUS
  <2>5. /\ d \in Seq(LogEntry) /\ Len(d) = k /\ DOMAIN d = 1 .. k
        /\ \A i \in 1 .. k : i \in DOMAIN files[n].data /\ d[i] = files[n].data[i]
    BY <2>2, <2>3, <2>4
  <2>6. f[n].data = d /\ f[n].synced = k /\ f[n].torn \in BOOLEAN /\ f[n] \in SegmentFile
    BY <2>1, <2>2, <2>3, <2>4, <2>5 DEF SegmentFile
  <2> QED BY <2>2, <2>3, <2>5, <2>6
<1>4. FilesOK(f)
  <2>1. f \in [DOMAIN f -> SegmentFile]
    BY <1>1, <1>2
  <2> QED BY <1>1, <2>1 DEF FilesOK
<1>5. ASSUME NEW p \in At(f) PROVE p \in At(files) /\ EntryAt(f, p) = EntryAt(files, p)
  <2>1. p = <<p[1], p[2]>> /\ p[1] \in DOMAIN files /\ p[2] \in DOMAIN f[p[1]].data
    BY <1>1, AtFacts
  <2>2. p[2] \in DOMAIN files[p[1]].data /\ f[p[1]].data[p[2]] = files[p[1]].data[p[2]]
    BY <1>2, <2>1
  <2>3. <<p[1], p[2]>> \in At(files)
    BY <2>1, <2>2, AtFacts
  <2> QED BY <2>1, <2>2, <2>3 DEF EntryAt
<1>6. EntriesIn(f) \subseteq EntriesIn(files)
  BY <1>5, EntriesAt
<1>7. DocsIn(f) \subseteq DocsIn(files)
  BY <1>6 DEF DocsIn
<1>8. Lists(segs, f)
  BY <1>1 DEF Lists
<1>9. NotFull => ~Full(f, segs)
  <2>1. SUFFICES ASSUME Full(f, segs) PROVE Full(files, segs)
    BY DEF NotFull
  <2>2. segs[Len(segs)] \in DOMAIN files /\ Len(f[segs[Len(segs)]].data) >= SegSize
    BY <1>1, <2>1 DEF Full
  <2>3. SegSize \in Nat
    BY ConstantsAssumption
  <2> QED BY <1>2, <2>2, <2>3 DEF Full
<1>10. ASSUME Synced, policy = "always" PROVE EntriesIn(files) \subseteq EntriesIn(f)
  <2>1. ASSUME NEW n \in DOMAIN files PROVE Len(f[n].data) = Len(files[n].data)
    <3>1. files[n].synced = Len(files[n].data)
      BY <1>10 DEF Synced
    <3>2. f[n].synced >= Len(files[n].data) /\ f[n].synced = Len(f[n].data)
      BY <1>2, <3>1
    <3> QED BY <1>2, <3>2
  <2>2. ASSUME NEW n \in DOMAIN files PROVE DOMAIN f[n].data = DOMAIN files[n].data
    BY <1>2, <2>1
  <2>3. ASSUME NEW p \in At(files) PROVE p \in At(f) /\ EntryAt(f, p) = EntryAt(files, p)
    <3>1. p = <<p[1], p[2]>> /\ p[1] \in DOMAIN f /\ p[2] \in DOMAIN f[p[1]].data
      BY <1>1, <2>2, AtFacts
    <3>2. <<p[1], p[2]>> \in At(f)
      BY <3>1, AtFacts
    <3> QED BY <1>5, <3>1, <3>2
  <2> QED BY <2>3, EntriesAt
<1> QED BY <1>1, <1>2, <1>4, <1>5, <1>6, <1>7, <1>8, <1>9, <1>10

(* Syncing the current file changes no entry. *)
LEMMA SyncedLog ==
  ASSUME FilesOK(files), files' = SyncedCurrent, UNCHANGED <<policy, segs>>
  PROVE  /\ FilesOK(files') /\ At(files') = At(files) /\ EntriesIn(files') = EntriesIn(files)
         /\ DocsIn(files') = DocsIn(files)
         /\ \A p \in At(files) : EntryAt(files', p) = EntryAt(files, p)
         /\ (NotFull => NotFull') /\ (Synced => Synced')
         /\ \A n \in DOMAIN files : files'[n].data = files[n].data
<1>1. CASE Last(segs) \notin DOMAIN files
  <2>1. files' = files
    BY <1>1 DEF SyncedCurrent
  <2> QED BY <2>1 DEF NotFull, Synced, Full
<1>2. CASE Last(segs) \in DOMAIN files
  <2> DEFINE n == Last(segs)
             file == [files[n] EXCEPT !.synced = Len(files[n].data)]
  <2>1. files' = [files EXCEPT ![n] = file]
    BY <1>2 DEF SyncedCurrent
  <2>2. files[n] \in SegmentFile /\ Len(files[n].data) \in Nat
    BY <1>2 DEF FilesOK, SegmentFile
  <2>3. file \in SegmentFile /\ file.data = files[n].data /\ file.synced = Len(files[n].data)
    BY <2>2 DEF SegmentFile
  <2> HIDE DEF file
  <2>4. DOMAIN files' = DOMAIN files /\ files'[n] = file /\ \A m \in DOMAIN files : m # n => files'[m] = files[m]
    BY <1>2, <2>1
  <2>5. FilesOK(files')
    BY <2>1, <2>3, <2>4 DEF FilesOK
  <2>6. \A m \in DOMAIN files : files'[m].data = files[m].data
    BY <2>3, <2>4
  <2>7. At(files') = At(files)
    BY <2>4, <2>6 DEF At
  <2>8. EntriesIn(files') = EntriesIn(files)
    BY <2>4, <2>6 DEF EntriesIn
  <2>9. \A p \in At(files) : EntryAt(files', p) = EntryAt(files, p)
    BY <2>6, AtFacts DEF EntryAt
  <2>10. NotFull => NotFull'
    BY <2>4, <2>6 DEF NotFull, Full
  <2>11. Synced => Synced'
    BY <2>3, <2>4 DEF Synced
  <2> QED BY <2>5, <2>6, <2>7, <2>8, <2>9, <2>10, <2>11 DEF DocsIn
<1> QED BY <1>1, <1>2

LEMMA OnlyCurrentLog ==
  ASSUME FilesOK(files), Lists(segs, files), files[Last(segs)].data = <<>>
  PROVE  /\ FilesOK(OnlyCurrent.files) /\ At(OnlyCurrent.files) = {}
         /\ EntriesIn(OnlyCurrent.files) = {} /\ Lists(OnlyCurrent.segs, OnlyCurrent.files)
         /\ ~Full(OnlyCurrent.files, OnlyCurrent.segs)
         /\ \A n \in DOMAIN OnlyCurrent.files : n \in DOMAIN files /\ OnlyCurrent.files[n] = files[n]
         /\ \A e \in EntriesIn(files) : \E n \in DOMAIN files \ DOMAIN OnlyCurrent.files : e \in ToSet(files[n].data)
<1>1. PICK g, s : g = OnlyCurrent.files /\ s = OnlyCurrent.segs
  OBVIOUS
<1>2. s = <<Last(segs)>> /\ g = [n \in DOMAIN files \ ToSet(Front(segs)) |-> files[n]]
  BY <1>1 DEF OnlyCurrent
<1>3. Lists(s, g)
  BY <1>1, OnlyCurrentLists
<1>4. DOMAIN g = {Last(segs)}
  BY <1>2, <1>3 DEF Lists, ToSet
<1>5. \A n \in DOMAIN g : n \in DOMAIN files /\ g[n] = files[n]
  BY <1>2
<1>6. FilesOK(g)
  BY <1>2, <1>5 DEF FilesOK
<1>7. g[Last(segs)].data = <<>>
  BY <1>4, <1>5
<1>8. At(g) = {}
  BY <1>4, <1>7, AtFacts
<1>9. EntriesIn(g) = {}
  BY <1>8, EntriesAt
<1>10. ~Full(g, s)
  BY <1>2, <1>7, ConstantsAssumption DEF Full
<1>11. ASSUME NEW e \in EntriesIn(files)
       PROVE  \E n \in DOMAIN files \ DOMAIN g : e \in ToSet(files[n].data)
  <2>1. PICK n \in DOMAIN files : e \in ToSet(files[n].data)
    BY DEF EntriesIn
  <2>2. n # Last(segs)
    BY <2>1 DEF ToSet
  <2> QED BY <1>4, <2>1, <2>2
<1> QED BY <1>1, <1>3, <1>5, <1>6, <1>8, <1>9, <1>10, <1>11

-----------------------------------------------------------------------------
(* The requests: what a step may do to one.                                *)

(* What a step may do to the requests. *)
Same(q) ==
  /\ req'[q].pc = req[q].pc /\ req'[q].kind = req[q].kind /\ req'[q].docs = req[q].docs
  /\ req'[q].todo = req[q].todo /\ req'[q].match = req[q].match /\ req'[q].seen = req[q].seen
  /\ req[q].overlap \subseteq req'[q].overlap

Goes(q) ==
  /\ req'[q].pc # "idle" /\ req'[q].kind = req[q].kind
  /\ req[q].pc = "commit" => req'[q].pc # "log"
  /\ req'[q].pc \in {"log", "commit", "lost"} => req'[q].docs = req[q].docs
  /\ req'[q].pc \in {"log", "commit"} =>
       /\ req'[q].todo \subseteq req[q].todo /\ req'[q].match \subseteq req[q].match
       /\ req[q].match \ req[q].todo \subseteq req'[q].match \ req'[q].todo
       /\ req[q].overlap \subseteq req'[q].overlap

ReqStep == \A q \in Requests :
  /\ Active(q) => Goes(q)
  /\ req[q].pc \in {"done", "lost"} => Same(q)

ReqTypes == req \in [Requests -> Request] /\ ReqInv /\ OverlapInv

LEMMA SamePending == ASSUME NEW q \in Requests, Same(q) PROVE Pending(q)' = Pending(q)
BY DEF Same, Pending, Active

LEMMA SameGoes ==
  ASSUME NEW q \in Requests, Same(q)
  PROVE  Active(q) => Goes(q) /\ Active(q)'
BY DEF Same, Goes, Active

LEMMA WithOverlapFacts ==
  ASSUME req \in [Requests -> Request], NEW r \in Requests, NEW rec \in Request,
         NEW D \in SUBSET Docs, req' = WithOverlap(r, rec, D)
  PROVE  /\ req' \in [Requests -> Request]
         /\ \A q \in Requests \ {r} : Same(q) /\ req'[q].overlap = req[q].overlap \cup (D \cap Pending(q))
         /\ req'[r].pc = rec.pc /\ req'[r].kind = rec.kind /\ req'[r].docs = rec.docs
         /\ req'[r].todo = rec.todo /\ req'[r].match = rec.match /\ req'[r].seen = rec.seen
         /\ req'[r].overlap = rec.overlap \cup {d \in D : \E p \in Requests \ {r} : d \in Pending(p)}
<1>1. PICK ov : ov = rec.overlap \cup {d \in D : \E p \in Requests \ {r} : d \in Pending(p)}
  OBVIOUS
<1>2. req'[r] = [rec EXCEPT !.overlap = ov]
  BY <1>1 DEF WithOverlap
<1>3. ov \in SUBSET Docs
  BY <1>1 DEF Request
<1>4. /\ req'[r] \in Request
      /\ req'[r].pc = rec.pc /\ req'[r].kind = rec.kind /\ req'[r].docs = rec.docs
      /\ req'[r].todo = rec.todo /\ req'[r].match = rec.match /\ req'[r].seen = rec.seen
      /\ req'[r].overlap = ov
  BY <1>2, <1>3 DEF Request
<1>5. ASSUME NEW q \in Requests \ {r}
      PROVE  /\ req'[q] \in Request /\ Same(q)
             /\ req'[q].overlap = req[q].overlap \cup (D \cap Pending(q))
  <2>1. PICK o : o = req[q].overlap \cup (D \cap Pending(q))
    OBVIOUS
  <2>2. req'[q] = [req[q] EXCEPT !.overlap = o] /\ req[q] \in Request
    BY <2>1 DEF WithOverlap
  <2>3. o \in SUBSET Docs
    BY <2>1, <2>2 DEF Request
  <2>4. req'[q] \in Request /\ Same(q) /\ req'[q].overlap = o
    BY <2>1, <2>2, <2>3 DEF Request, Same
  <2> QED BY <2>1, <2>4
<1>6. req' \in [Requests -> Request]
  <2>1. \A q \in Requests : req'[q] \in Request
    BY <1>4, <1>5
  <2>2. req' = [q \in Requests |-> req'[q]]
    BY DEF WithOverlap
  <2> QED BY <2>1, <2>2
<1> QED BY <1>1, <1>4, <1>5, <1>6

(* A request gets entries about D: it overlaps with all that have some. *)
LEMMA OverlapKept ==
  ASSUME ReqTypes, NEW r \in Requests, NEW D \in SUBSET Docs,
         \A q \in Requests \ {r} : Same(q) /\ req'[q].overlap = req[q].overlap \cup (D \cap Pending(q)),
         Pending(r)' \subseteq Pending(r) \cup D,
         Pending(r)' # {} => /\ Pending(r) # {} => req[r].overlap \subseteq req'[r].overlap
                             /\ \A d \in D : (\E p \in Requests \ {r} : d \in Pending(p)) => d \in req'[r].overlap
  PROVE  OverlapInv'
<1> SUFFICES ASSUME NEW a \in Requests, NEW b \in Requests, a # b,
                    NEW d, d \in Pending(a)', d \in Pending(b)'
             PROVE  d \in req'[a].overlap
  BY DEF OverlapInv
<1>1. \A q \in Requests \ {r} : Pending(q)' = Pending(q)
  BY SamePending
<1>2. CASE a # r /\ b # r
  <2>1. d \in req[a].overlap
    BY <1>1, <1>2 DEF ReqTypes, OverlapInv
  <2> QED BY <1>2, <2>1
<1>3. CASE b = r
  <2>1. d \in Pending(a) /\ a \in Requests \ {r}
    BY <1>1, <1>3
  <2>2. CASE d \in D
    BY <2>1, <2>2
  <2>3. CASE d \in Pending(r)
    <3>1. d \in req[a].overlap
      BY <1>3, <2>1, <2>3 DEF ReqTypes, OverlapInv
    <3> QED BY <2>1, <3>1
  <2> QED BY <1>3, <2>2, <2>3
<1>4. CASE a = r
  <2>1. d \in Pending(b) /\ b \in Requests \ {r}
    BY <1>1, <1>4
  <2>2. CASE d \in D
    BY <1>4, <2>1, <2>2
  <2>3. CASE d \in Pending(r)
    <3>1. d \in req[r].overlap
      BY <1>4, <2>1, <2>3 DEF ReqTypes, OverlapInv
    <3> QED BY <1>4, <2>3, <3>1
  <2> QED BY <1>4, <2>2, <2>3
<1> QED BY <1>2, <1>3, <1>4

LEMMA InsertLogReq ==
  ASSUME ReqTypes, NEW r \in Requests, NEW kind \in {"insert", "large", "batch"}, NEW D \in SUBSET Docs,
         kind \in {"insert", "large"} => \E d \in Docs : D = {d},
         InsertLog(r, kind, D)
  PROVE  /\ ReqTypes' /\ ReqStep /\ \A q \in Requests \ {r} : Same(q)
         /\ req[r].pc = "idle" /\ req'[r].pc = "commit" /\ req'[r].kind = kind /\ req'[r].docs = D
         /\ req'[r].todo = D /\ req'[r].match = {}
         /\ \A q \in Requests \ {r} : D \cap Pending(q) \subseteq req'[q].overlap
<1> DEFINE rec == [Idle EXCEPT !.pc = "commit", !.kind = kind, !.docs = D, !.todo = D]
<1>1. req[r].pc = "idle" /\ req' = WithOverlap(r, rec, D)
  BY DEF InsertLog
<1>2. /\ rec \in Request /\ rec.pc = "commit" /\ rec.kind = kind /\ rec.docs = D /\ rec.todo = D
      /\ rec.match = {}
  BY DEF Idle, Request, Seen
<1> HIDE DEF rec
<1>3. /\ req' \in [Requests -> Request]
      /\ \A q \in Requests \ {r} : Same(q) /\ req'[q].overlap = req[q].overlap \cup (D \cap Pending(q))
      /\ req'[r].pc = "commit" /\ req'[r].kind = kind /\ req'[r].docs = D /\ req'[r].todo = D
      /\ req'[r].match = {}
      /\ \A d \in D : (\E p \in Requests \ {r} : d \in Pending(p)) => d \in req'[r].overlap
  BY <1>1, <1>2, WithOverlapFacts DEF ReqTypes
<1>4. ReqStep
  BY <1>1, <1>3, SameGoes DEF ReqStep, Active
<1>5. ReqInv'
  <2>1. ASSUME NEW q \in Requests \ {r} PROVE ReqInv!(q)'
    BY <1>3 DEF ReqTypes, ReqInv, Same, Active
  <2>2. ReqInv!(r)'
    BY <1>3 DEF Active
  <2> QED BY <2>1, <2>2 DEF ReqInv
<1>6. Pending(r)' = D /\ Pending(r) = {}
  BY <1>1, <1>3 DEF Pending, Active
<1>7. OverlapInv'
  <2> HIDE DEF ReqTypes
  <2> QED BY <1>3, <1>6, OverlapKept
<1> QED BY <1>1, <1>3, <1>4, <1>5, <1>7 DEF ReqTypes

-----------------------------------------------------------------------------
(* The requests, step by step.                                             *)

(* Only r changes, and it gets no new entries. *)
LEMMA OneRequest ==
  ASSUME ReqTypes, NEW r \in Requests, NEW rec \in Request, req' = [req EXCEPT ![r] = rec],
         Active(r) => Goes(r), req[r].pc \notin {"done", "lost"},
         ReqInv!(r)', Pending(r)' \subseteq Pending(r),
         Pending(r)' # {} => req[r].overlap \subseteq rec.overlap
  PROVE  /\ ReqTypes' /\ ReqStep /\ \A q \in Requests \ {r} : Same(q)
         /\ req'[r] = rec
<1>1. req \in [Requests -> Request]
  BY DEF ReqTypes
<1>2. req'[r] = rec /\ req' \in [Requests -> Request] /\ \A q \in Requests \ {r} : req'[q] = req[q]
  BY <1>1
<1>3. \A q \in Requests \ {r} : Same(q)
  BY <1>2 DEF Same
<1>4. ReqStep
  BY <1>3, SameGoes DEF ReqStep
<1>5. ReqInv'
  <2>1. ASSUME NEW q \in Requests \ {r} PROVE ReqInv!(q)'
    BY <1>2 DEF ReqTypes, ReqInv, Active
  <2> QED BY <2>1 DEF ReqInv
<1>6. OverlapInv'
  <2> SUFFICES ASSUME NEW a \in Requests, NEW b \in Requests, a # b,
                      NEW d, d \in Pending(a)', d \in Pending(b)'
               PROVE  d \in req'[a].overlap
    BY DEF OverlapInv
  <2>1. d \in Pending(a) /\ d \in Pending(b)
    BY <1>3, SamePending
  <2>2. d \in req[a].overlap
    BY <2>1 DEF ReqTypes, OverlapInv
  <2>3. a = r => req[r].overlap \subseteq req'[r].overlap
    BY <1>2
  <2> QED BY <1>2, <2>2, <2>3
<1> QED BY <1>2, <1>3, <1>4, <1>5, <1>6 DEF ReqTypes

LEMMA EndedReq ==
  ASSUME ReqTypes, NEW r \in Requests, req[r].pc \notin {"done", "lost"},
         NEW rec \in {Done(r), Lost(r)}, req' = [req EXCEPT ![r] = rec]
  PROVE  /\ ReqTypes' /\ ReqStep /\ \A q \in Requests \ {r} : Same(q)
         /\ (rec = Done(r) => req'[r].pc = "done" /\ req'[r].docs = {})
         /\ (rec = Lost(r) => req'[r].pc = "lost" /\ req'[r].docs = req[r].docs)
         /\ req'[r].kind = req[r].kind
<1>1. req[r] \in Request
  BY DEF ReqTypes
<1>2. PICK k, D : k = req[r].kind /\ D = req[r].docs
  OBVIOUS
<1>3. /\ Done(r) = [Idle EXCEPT !.pc = "done", !.kind = k]
      /\ Lost(r) = [Idle EXCEPT !.pc = "lost", !.kind = k, !.docs = D]
  BY <1>2 DEF Done, Lost
<1>4. k \in {"none", "insert", "large", "batch", "update", "delete"} /\ D \in SUBSET Docs
  BY <1>1, <1>2 DEF Request
<1>5. /\ Done(r) \in Request /\ Lost(r) \in Request
      /\ Done(r).pc = "done" /\ Done(r).kind = k /\ Done(r).docs = {} /\ Done(r).todo = {} /\ Done(r).match = {}
      /\ Lost(r).pc = "lost" /\ Lost(r).kind = k /\ Lost(r).docs = D /\ Lost(r).todo = {} /\ Lost(r).match = {}
  BY <1>3, <1>4 DEF Idle, Request, Seen
<1>6. /\ rec \in Request /\ rec.pc \in {"done", "lost"} /\ rec.kind = req[r].kind
      /\ rec.todo = {} /\ rec.match = {} /\ (rec.pc = "lost" => rec.docs = req[r].docs)
  BY <1>2, <1>5
<1>7. req'[r] = rec
  BY DEF ReqTypes
<1>8. Goes(r)
  BY <1>6, <1>7 DEF Goes
<1>9. ReqInv!(r)' /\ Pending(r)' = {}
  BY <1>6, <1>7 DEF Active, Pending
<1>10. ReqTypes' /\ ReqStep /\ \A q \in Requests \ {r} : Same(q)
  <2> HIDE DEF ReqTypes
  <2> QED BY <1>6, <1>8, <1>9, OneRequest
<1> QED BY <1>2, <1>5, <1>6, <1>7, <1>10

LEMMA InsertCommitReq ==
  ASSUME ReqTypes, NEW r \in Requests, NEW D \in SUBSET Docs, InsertCommit(r, D)
  PROVE  /\ ReqTypes' /\ ReqStep /\ \A q \in Requests \ {r} : Same(q)
         /\ Active(r) /\ req[r].kind \in {"insert", "large", "batch"} /\ req'[r].kind = req[r].kind
         /\ D # {} /\ D \subseteq req[r].todo
         /\ \/ req'[r].pc = "done" /\ req'[r].docs = {} /\ D = req[r].todo
            \/ /\ Active(r)' /\ req'[r].docs = req[r].docs /\ req'[r].todo = req[r].todo \ D
               /\ req'[r].match = req[r].match /\ req'[r].overlap = req[r].overlap
               /\ req[r].kind = "batch"
<1>1. /\ req[r].pc = "commit" /\ req[r].kind \in {"insert", "large", "batch"}
      /\ D # {} /\ D \subseteq req[r].todo
      /\ req' = [req EXCEPT ![r] = IF req[r].todo \ D = {} THEN Done(r)
                                   ELSE [req[r] EXCEPT !.todo = req[r].todo \ D]]
  BY DEF InsertCommit
<1>2. CASE req[r].todo \ D = {}
  <2>1. req' = [req EXCEPT ![r] = Done(r)]
    BY <1>1, <1>2
  <2>2. /\ ReqTypes' /\ ReqStep /\ \A q \in Requests \ {r} : Same(q)
        /\ req'[r].pc = "done" /\ req'[r].docs = {} /\ req'[r].kind = req[r].kind
    BY <1>1, <2>1, EndedReq
  <2> QED BY <1>1, <1>2, <2>2 DEF Active
<1>3. CASE req[r].todo \ D # {}
  <2>1. PICK rec : rec = [req[r] EXCEPT !.todo = req[r].todo \ D]
    OBVIOUS
  <2>2. req' = [req EXCEPT ![r] = rec] /\ req[r] \in Request
    BY <1>1, <1>3, <2>1 DEF ReqTypes
  <2>3. /\ rec \in Request /\ rec.pc = "commit" /\ rec.kind = req[r].kind /\ rec.docs = req[r].docs
        /\ rec.todo = req[r].todo \ D /\ rec.match = req[r].match /\ rec.overlap = req[r].overlap
    BY <1>1, <2>1, <2>2 DEF Request
  <2>4. req'[r] = rec
    BY <2>2 DEF ReqTypes
  <2>5. req[r].kind = "batch"
    <3>1. req[r].kind \in {"insert", "large"} => \E d \in Docs : req[r].todo = {d}
      BY <1>1 DEF ReqTypes, ReqInv, Active
    <3> QED BY <1>1, <1>3, <3>1
  <2>6. Goes(r)
    BY <1>1, <2>3, <2>4 DEF Goes
  <2>7. ReqInv!(r)
    BY DEF ReqTypes, ReqInv
  <2>8. ReqInv!(r)'
    BY <1>1, <2>3, <2>4, <2>5, <2>7 DEF Active
  <2>9. Pending(r)' \subseteq Pending(r)
    BY <1>1, <2>3, <2>4, <2>5 DEF Pending, Active
  <2>10. ReqTypes' /\ ReqStep /\ \A q \in Requests \ {r} : Same(q)
    <3> HIDE DEF ReqTypes
    <3> QED BY <1>1, <2>2, <2>3, <2>6, <2>8, <2>9, OneRequest
  <2> QED BY <1>1, <2>3, <2>4, <2>5, <2>10 DEF Active
<1> QED BY <1>2, <1>3

LEMMA FilterBeginReq ==
  ASSUME ReqTypes, NEW r \in Requests, NEW kind \in {"update", "delete"}, NEW F \in SUBSET Docs,
         \A d \in Docs : Val(d) \in Value, FilterBegin(r, kind, F)
  PROVE  /\ ReqTypes' /\ ReqStep /\ \A q \in Requests \ {r} : Same(q)
         /\ req[r].pc = "idle"
         /\ \/ req'[r].pc = "done" /\ req'[r].docs = {}
            \/ /\ req'[r].pc = "log" /\ req'[r].kind = kind /\ req'[r].docs = F
               /\ req'[r].todo = F \cap Readable /\ req'[r].match = F \cap Readable
<1> DEFINE match == F \cap Readable
           seen == [d \in Present |-> Val(d)]
           rec == [Idle EXCEPT !.pc = "log", !.kind = kind, !.docs = F,
                               !.todo = match, !.match = match, !.seen = seen]
           D == IF kind = "delete" THEN F ELSE {}
<1>1. req[r].pc = "idle" /\ req' = IF match = {} THEN [req EXCEPT ![r] = Done(r)] ELSE WithOverlap(r, rec, D)
  BY DEF FilterBegin
<1>2. CASE match = {}
  <2>1. /\ ReqTypes' /\ ReqStep /\ \A q \in Requests \ {r} : Same(q)
        /\ req'[r].pc = "done" /\ req'[r].docs = {}
    BY <1>1, <1>2, EndedReq
  <2> QED BY <1>1, <2>1
<1>3. CASE match # {}
  <2>1. seen \in Seen /\ match \in SUBSET Docs
    <3>1. Present \in SUBSET Docs
      BY DEF Present
    <3>2. \A d \in Present : Val(d) \in Value
      BY <3>1
    <3>3. seen \in [Present -> Value]
      BY <3>2
    <3>4. match \in SUBSET Docs
      OBVIOUS
    <3> QED BY <3>1, <3>3, <3>4 DEF Seen
  <2> HIDE DEF seen, match
  <2>2. /\ rec \in Request /\ rec.pc = "log" /\ rec.kind = kind /\ rec.docs = F /\ rec.todo = match
        /\ rec.match = match
    BY <2>1 DEF Idle, Request
  <2> HIDE DEF rec
  <2>3. D \in SUBSET Docs /\ (kind = "delete" => D = F)
    OBVIOUS
  <2> HIDE DEF D
  <2>4. /\ req' \in [Requests -> Request]
        /\ \A q \in Requests \ {r} : Same(q) /\ req'[q].overlap = req[q].overlap \cup (D \cap Pending(q))
        /\ req'[r].pc = "log" /\ req'[r].kind = kind /\ req'[r].docs = F /\ req'[r].todo = match
        /\ req'[r].match = match
        /\ \A d \in D : (\E p \in Requests \ {r} : d \in Pending(p)) => d \in req'[r].overlap
    BY <1>1, <1>3, <2>2, <2>3, WithOverlapFacts DEF ReqTypes
  <2>5. ReqStep
    BY <1>1, <2>4, SameGoes DEF ReqStep, Active
  <2>6. ReqInv'
    <3>1. ASSUME NEW q \in Requests \ {r} PROVE ReqInv!(q)'
      BY <2>4 DEF ReqTypes, ReqInv, Same, Active
    <3>2. match \subseteq F
      BY DEF match
    <3>3. ReqInv!(r)'
      BY <2>4, <3>2 DEF Active
    <3> QED BY <3>1, <3>3 DEF ReqInv
  <2>7. Pending(r)' \subseteq D /\ Pending(r) = {}
    BY <1>1, <2>3, <2>4 DEF Pending, Active
  <2>8. OverlapInv'
    <3> HIDE DEF ReqTypes
    <3> QED BY <2>3, <2>4, <2>7, OverlapKept
  <2> QED BY <1>1, <2>4, <2>5, <2>6, <2>8 DEF ReqTypes, match
<1> QED BY <1>2, <1>3

LEMMA LogDocReq ==
  ASSUME ReqTypes, NEW r \in Requests, NEW d \in Docs, LogDoc(r, d)
  PROVE  LET D == IF req[r].kind = "delete" THEN req[r].docs ELSE {d}
         IN  /\ ReqTypes' /\ ReqStep /\ \A q \in Requests \ {r} : Same(q)
             /\ req[r].pc = "log" /\ req[r].kind \in {"update", "delete"} /\ d \in req[r].todo
             /\ Active(r)' /\ req'[r].kind = req[r].kind /\ req'[r].docs = req[r].docs
             /\ req'[r].todo = req[r].todo \ {d} /\ req'[r].match = req[r].match
             /\ req[r].overlap \subseteq req'[r].overlap
             /\ \A q \in Requests \ {r} : D \cap Pending(q) \subseteq req'[q].overlap
<1> DEFINE D == IF req[r].kind = "delete" THEN req[r].docs ELSE {d}
           left == req[r].todo \ {d}
           pc == IF left = {} THEN "commit" ELSE "log"
           rec == [req[r] EXCEPT !.todo = left, !.pc = pc]
<1>1. req[r].pc = "log" /\ d \in req[r].todo /\ req' = WithOverlap(r, rec, D)
  BY DEF LogDoc
<1>2. req[r] \in Request /\ pc \in {"log", "commit"} /\ left \in SUBSET Docs
  BY DEF ReqTypes, Request
<1>3. ReqInv!(r)
  BY DEF ReqTypes, ReqInv
<1>4. req[r].kind \in {"update", "delete"} /\ req[r].todo \subseteq req[r].match /\ req[r].match \subseteq req[r].docs
  BY <1>1, <1>3 DEF Active
<1>5. D \in SUBSET Docs /\ D \subseteq req[r].docs
  BY <1>1, <1>2, <1>4 DEF Request
<1>6. /\ left = req[r].todo \ {d} /\ (pc = "commit" => left = {})
      /\ (req[r].kind = "delete" => D = req[r].docs) /\ d \in D
  BY <1>1, <1>4, <1>5
<1> HIDE DEF D, left, pc
<1>7. /\ rec \in Request /\ rec.pc = pc /\ rec.kind = req[r].kind /\ rec.docs = req[r].docs /\ rec.todo = left
      /\ rec.match = req[r].match /\ rec.overlap = req[r].overlap
  BY <1>2 DEF Request
<1> HIDE DEF rec
<1>8. /\ req' \in [Requests -> Request]
      /\ \A q \in Requests \ {r} : Same(q) /\ req'[q].overlap = req[q].overlap \cup (D \cap Pending(q))
      /\ req'[r].pc = pc /\ req'[r].kind = req[r].kind /\ req'[r].docs = req[r].docs /\ req'[r].todo = left
      /\ req'[r].match = req[r].match
      /\ req'[r].overlap = req[r].overlap \cup {x \in D : \E p \in Requests \ {r} : x \in Pending(p)}
  BY <1>1, <1>5, <1>7, WithOverlapFacts DEF ReqTypes
<1>9. Goes(r) /\ Active(r)'
  BY <1>1, <1>2, <1>6, <1>8 DEF Goes, Active
<1>10. ReqStep
  BY <1>1, <1>8, <1>9, SameGoes DEF ReqStep
<1>11. ReqInv'
  <2>1. ASSUME NEW q \in Requests \ {r} PROVE ReqInv!(q)'
    BY <1>8 DEF ReqTypes, ReqInv, Same, Active
  <2>2. ReqInv!(r)'
    BY <1>2, <1>4, <1>6, <1>8 DEF Active
  <2> QED BY <2>1, <2>2 DEF ReqInv
<1>12. Pending(r)' \subseteq Pending(r) \cup D
  <2>1. CASE req[r].kind = "delete"
    BY <1>6, <1>8, <2>1 DEF Pending
  <2>2. CASE req[r].kind = "update"
    BY <1>1, <1>6, <1>8, <2>2 DEF Pending, Active
  <2> QED BY <1>4, <2>1, <2>2
<1>13. OverlapInv'
  <2> HIDE DEF ReqTypes
  <2>1. /\ req[r].overlap \subseteq req'[r].overlap
        /\ \A x \in D : (\E p \in Requests \ {r} : x \in Pending(p)) => x \in req'[r].overlap
    BY <1>8
  <2>2. \A q \in Requests \ {r} : Same(q) /\ req'[q].overlap = req[q].overlap \cup (D \cap Pending(q))
    BY <1>8
  <2> QED BY <1>5, <1>12, <2>1, <2>2, OverlapKept
<1> QED BY <1>1, <1>4, <1>6, <1>8, <1>9, <1>10, <1>11, <1>13 DEF ReqTypes, D

LEMMA SkipDocReq ==
  ASSUME ReqTypes, NEW r \in Requests, NEW d \in Docs, SkipDoc(r, d)
  PROVE  /\ ReqTypes' /\ ReqStep /\ \A q \in Requests \ {r} : Same(q)
         /\ req[r].pc = "log" /\ req[r].kind \in {"update", "delete"} /\ d \in req[r].todo
         /\ Active(r)' /\ req'[r].kind = req[r].kind /\ req'[r].docs = req[r].docs
         /\ req'[r].todo = req[r].todo \ {d} /\ req'[r].match = req[r].match \ {d}
         /\ req'[r].overlap = req[r].overlap
<1> DEFINE left == req[r].todo \ {d}
           m == req[r].match \ {d}
           pc == IF left = {} THEN "commit" ELSE "log"
           rec == [req[r] EXCEPT !.todo = left, !.match = m, !.pc = pc]
<1>1. req[r].pc = "log" /\ d \in req[r].todo /\ req' = [req EXCEPT ![r] = rec]
  BY DEF SkipDoc
<1>2. /\ req[r] \in Request /\ pc \in {"log", "commit"} /\ left \in SUBSET Docs /\ m \in SUBSET Docs
      /\ (pc = "commit" => left = {}) /\ left = req[r].todo \ {d} /\ m = req[r].match \ {d}
  BY DEF ReqTypes, Request
<1>3. ReqInv!(r)
  BY DEF ReqTypes, ReqInv
<1>4. req[r].kind \in {"update", "delete"} /\ req[r].todo \subseteq req[r].match /\ req[r].match \subseteq req[r].docs
  BY <1>1, <1>3 DEF Active
<1> HIDE DEF left, m, pc
<1>5. /\ rec \in Request /\ rec.pc = pc /\ rec.kind = req[r].kind /\ rec.docs = req[r].docs /\ rec.todo = left
      /\ rec.match = m /\ rec.overlap = req[r].overlap
  BY <1>2 DEF Request
<1> HIDE DEF rec
<1>6. req'[r] = rec
  BY <1>1 DEF ReqTypes
<1>7. Goes(r) /\ Active(r)'
  BY <1>1, <1>2, <1>5, <1>6 DEF Goes, Active
<1>8. ReqInv!(r)'
  BY <1>2, <1>4, <1>5, <1>6 DEF Active
<1>9. Pending(r)' \subseteq Pending(r)
  BY <1>1, <1>2, <1>4, <1>5, <1>6 DEF Pending, Active
<1>10. ReqTypes' /\ ReqStep /\ \A q \in Requests \ {r} : Same(q)
  <2> HIDE DEF ReqTypes
  <2> QED BY <1>1, <1>5, <1>7, <1>8, <1>9, OneRequest
<1> QED BY <1>1, <1>2, <1>4, <1>5, <1>6, <1>7, <1>10

LEMMA AbandonReq ==
  ASSUME ReqTypes, Abandon
  PROVE  /\ ReqTypes' /\ ReqStep /\ \A q \in Requests : ~Active(q)'
         /\ \A q \in Requests : ~Active(q) => Same(q)
         /\ \A q \in Requests : Active(q) => /\ req'[q].pc = "lost" /\ req'[q].docs = req[q].docs
                                             /\ req'[q].kind = req[q].kind
<1>1. req' = [q \in Requests |-> IF Active(q) THEN Lost(q) ELSE req[q]]
  BY DEF Abandon
<1>2. ASSUME NEW q \in Requests
      PROVE  /\ Lost(q) \in Request /\ Lost(q).pc = "lost" /\ Lost(q).kind = req[q].kind
             /\ Lost(q).docs = req[q].docs /\ Lost(q).todo = {} /\ Lost(q).match = {}
  <2>1. PICK k, D : k = req[q].kind /\ D = req[q].docs
    OBVIOUS
  <2>2. k \in {"none", "insert", "large", "batch", "update", "delete"} /\ D \in SUBSET Docs
    BY <2>1 DEF ReqTypes, Request
  <2>3. Lost(q) = [Idle EXCEPT !.pc = "lost", !.kind = k, !.docs = D]
    BY <2>1 DEF Lost
  <2> QED BY <2>1, <2>2, <2>3 DEF Idle, Request, Seen
<1>3. ASSUME NEW q \in Requests, ~Active(q) PROVE req'[q] = req[q] /\ Same(q) /\ ~Active(q)'
  BY <1>1, <1>3 DEF Same, Active
<1>4. ASSUME NEW q \in Requests, Active(q)
      PROVE  /\ req'[q] \in Request /\ Goes(q) /\ ~Active(q)' /\ ReqInv!(q)' /\ Pending(q)' = {}
             /\ req'[q].pc = "lost" /\ req'[q].docs = req[q].docs /\ req'[q].kind = req[q].kind
  <2>1. req'[q] = Lost(q)
    BY <1>1, <1>4
  <2> QED BY <1>2, <2>1 DEF Goes, Active, Pending
<1>5. req' \in [Requests -> Request]
  <2>1. \A q \in Requests : req'[q] \in Request
    BY <1>3, <1>4 DEF ReqTypes
  <2>2. req' = [q \in Requests |-> req'[q]]
    BY <1>1
  <2> QED BY <2>1, <2>2
<1>6. ReqInv'
  <2>1. ASSUME NEW q \in Requests, ~Active(q) PROVE ReqInv!(q)'
    BY <1>3, <2>1 DEF ReqTypes, ReqInv, Active
  <2> QED BY <1>4, <2>1 DEF ReqInv
<1>7. OverlapInv'
  <2>1. \A q \in Requests : ~Active(q) => Pending(q)' = {}
    BY <1>3 DEF Pending
  <2>2. \A q \in Requests : Pending(q)' = {}
    BY <1>4, <2>1
  <2> QED BY <2>2 DEF OverlapInv
<1>8. ReqStep
  BY <1>3, <1>4 DEF ReqStep, Active
<1> QED BY <1>3, <1>4, <1>5, <1>6, <1>7, <1>8 DEF ReqTypes

-----------------------------------------------------------------------------
(* What the requests' states say of values and entries stays true.         *)

Types == TypeInv /\ ReqTypes

(* No request ends with success. *)
EndsNone == \A q \in Requests : Active(q) => req'[q].pc # "done"

LEMMA KindsKept ==
  ASSUME Types, ReqStep, NEW v \in Requests, req[v].pc # "idle"
  PROVE  req'[v].pc # "idle" /\ req'[v].kind = req[v].kind /\ (Active(v)' => Active(v))
<1>1. req[v] \in Request
  BY DEF Types, TypeInv
<1>2. Active(v) \/ req[v].pc \in {"done", "lost"}
  BY <1>1 DEF Active, Request
<1> QED BY <1>2 DEF ReqStep, Goes, Same, Active

LEMMA KindOfKept ==
  ASSUME Types, ReqStep, NEW v \in Value, v # Gone => req[v].pc # "idle"
  PROVE  KindOf(v)' = KindOf(v)
BY KindsKept DEF KindOf, Value

LEMMA LastKind ==
  ASSUME Types, ReqStep, LastInv, NEW d \in Docs, last'[d] = last[d]
  PROVE  KindOf(last[d].val)' = KindOf(last[d].val)
<1>1. PICK v : v = last[d].val
  OBVIOUS
<1>2. v \in Value
  BY <1>1 DEF Types, TypeInv
<1>3. v # Gone => req[v].pc # "idle"
  BY <1>1, <1>2 DEF LastInv, Value
<1>4. KindOf(v)' = KindOf(v)
  BY <1>2, <1>3, KindOfKept
<1> QED BY <1>1, <1>4 DEF KindOf

LEMMA StartsType ==
  ASSUME Types, NEW d \in Docs PROVE Starts(d) \subseteq Value /\ Val(d) \in Value
<1>1. Starts(d) \subseteq Value
  <2>1. base[d] \in Value
    BY DEF Types, TypeInv
  <2>2. ASSUME NEW i \in CommitsOf(tail, d) PROVE tail[i].val \in Value
    <3>1. tail[i] \in Commit
      BY DEF Types, TypeInv, CommitsOf
    <3> QED BY <3>1 DEF Commit
  <2> QED BY <2>1, <2>2 DEF Starts
<1>2. Val(d) \in Starts(d)
  BY ValStarts DEF Types, TypeInv
<1> QED BY <1>1, <1>2

LEMMA UnsyncedDocs == ASSUME Types PROVE Unsynced \subseteq Docs
<1> SUFFICES ASSUME NEW d \in Unsynced PROVE d \in Docs
  OBVIOUS
<1>1. PICK c \in ToSet(tail) : d = c.doc
  BY DEF Unsynced
<1>2. c \in Commit
  BY DEF Types, TypeInv, ToSet
<1> QED BY <1>1, <1>2 DEF Commit

LEMMA StartKind ==
  ASSUME Types, ReqStep, SourceInv, NEW d \in Docs, NEW v \in Starts(d)
  PROVE  KindOf(v)' = KindOf(v)
<1>1. v \in Value
  BY StartsType
<1>2. v # Gone => req[v].pc # "idle"
  BY DEF SourceInv, Active
<1> QED BY <1>1, <1>2, KindOfKept

LEMMA NotRedoneKept ==
  ASSUME Types, ReqStep, LastInv, UNCHANGED last PROVE NotRedone' = NotRedone
<1>1. ASSUME NEW d \in Docs PROVE KindOf(last[d].val)' = KindOf(last[d].val)
  BY LastKind
<1> QED BY <1>1 DEF NotRedone

LEMMA LostGrows ==
  ASSUME ReqStep, NEW d PROVE LostValues(d) \subseteq LostValues(d)'
<1>1. ASSUME NEW r \in Requests, req[r].pc = "lost", d \in req[r].docs
      PROVE  req'[r].pc = "lost" /\ d \in req'[r].docs /\ req'[r].kind = req[r].kind
  BY <1>1 DEF ReqStep, Same
<1> QED BY <1>1 DEF LostValues

LEMMA KnownGrows ==
  ASSUME ReqStep, NEW d \in Docs, last'[d] = last[d] PROVE Known(d) \subseteq Known(d)'
BY LostGrows DEF Known

LEMMA AllowedGrows ==
  ASSUME ReqTypes', ReqStep, NEW d \in Docs, last'[d] = last[d], NEW v \in Allowed(d), v \notin Allowed(d)'
  PROVE  \E r \in Requests : Active(r) /\ req'[r].pc = "done" /\ d \in req[r].docs /\ v = Meant(r)
<1>1. v # last[d].val
  BY DEF Allowed
<1>2. PICK r \in Requests : Unfinished(r, d) /\ v = Meant(r)
  BY <1>1 DEF Allowed
<1>3. ~ Unfinished(r, d)' \/ Meant(r)' # v
  BY DEF Allowed
<1>4. CASE req[r].pc = "lost"
  <2>1. Unfinished(r, d)' /\ Meant(r)' = Meant(r)
    BY <1>2, <1>4 DEF ReqStep, Same, Unfinished, Meant, Active
  <2> QED BY <1>2, <1>3, <2>1
<1>5. CASE Active(r) /\ req[r].pc # "lost"
  <2>1. Goes(r) /\ d \in req[r].docs
    BY <1>2, <1>5 DEF ReqStep, Unfinished
  <2>2. Meant(r)' = Meant(r)
    BY <2>1 DEF Goes, Meant
  <2>3. ~ Unfinished(r, d)'
    BY <1>2, <1>3, <2>2
  <2>4. req'[r].pc \notin {"log", "commit", "lost"}
    BY <2>1, <2>3 DEF Goes, Unfinished, Active
  <2>5. req'[r].pc = "done"
    <3>1. req'[r] \in Request
      BY DEF ReqTypes
    <3> QED BY <2>1, <2>4, <3>1 DEF Goes, Request
  <2> QED BY <1>2, <1>5, <2>1, <2>5
<1> QED BY <1>2, <1>4, <1>5 DEF Unfinished

LEMMA AllowedStays ==
  ASSUME ReqTypes', ReqStep, EndsNone, NEW d \in Docs, last'[d] = last[d] PROVE Allowed(d) \subseteq Allowed(d)'
BY AllowedGrows DEF EndsNone

LEMMA KnownAllowed == ASSUME NEW d PROVE Known(d) \subseteq Allowed(d)
BY DEF Known, Allowed, LostValues, Unfinished, Meant

LEMMA AllowedKnown ==
  ASSUME NEW d, \A r \in Requests : ~Active(r) PROVE Allowed(d) = Known(d)
BY DEF Known, Allowed, LostValues, Unfinished, Meant

-----------------------------------------------------------------------------
LEMMA EntriesAreTyped ==
  ASSUME Types PROVE Entries \subseteq LogEntry /\ EntriesIn(files) \subseteq Entries /\ ToSet(replay) \subseteq Entries
<1>1. EntriesIn(files) \subseteq LogEntry
  BY EntriesType DEF Types, TypeInv
<1>2. ToSet(replay) \subseteq LogEntry
  BY DEF Types, TypeInv, ToSet
<1> QED BY <1>1, <1>2 DEF Entries

LEMMA EntryKept ==
  ASSUME Types, ReqStep, EntryInv, NEW S, Entries' \subseteq Entries \cup S,
         \A e \in S : /\ req'[e.by].pc # "idle" /\ e.op = OpOf(req'[e.by].kind)
                      /\ Active(e.by)' => HasLogged(e.by)'
  PROVE  EntryInv'
<1>1. ASSUME NEW e \in Entries
      PROVE  /\ req'[e.by].pc # "idle" /\ e.op = OpOf(req'[e.by].kind)
             /\ Active(e.by)' => HasLogged(e.by)'
  <2>1. PICK r : r = e.by
    OBVIOUS
  <2>2. r \in Requests
    BY <2>1, EntriesAreTyped DEF LogEntry
  <2>3. req[r].pc # "idle" /\ e.op = OpOf(req[r].kind) /\ (Active(r) => HasLogged(r))
    BY <2>1 DEF EntryInv
  <2>4. req'[r].pc # "idle" /\ req'[r].kind = req[r].kind /\ (Active(r)' => Active(r))
    BY <2>2, <2>3, KindsKept
  <2>5. ASSUME Active(r)' PROVE HasLogged(r)'
    <3>1. Goes(r) /\ HasLogged(r)
      BY <2>2, <2>3, <2>4, <2>5 DEF ReqStep
    <3> QED BY <2>5, <3>1 DEF Goes, HasLogged, Active
  <2>6. e.op = OpOf(req'[r].kind)
    BY <2>3, <2>4
  <2> QED BY <2>1, <2>4, <2>5, <2>6
<1>2. \A e \in Entries' : e \in Entries \/ e \in S
  OBVIOUS
<1> QED BY <1>1, <1>2 DEF EntryInv

LEMMA LastKept ==
  ASSUME Types, ReqTypes', ReqStep, LastInv, UNCHANGED last, NEW S, Entries' \subseteq Entries \cup S,
         \A e \in S : \A d \in Docs : e.by = last[d].by => ValueOf(e) = last[d].val
  PROVE  LastInv'
<1> SUFFICES ASSUME NEW d \in Docs
             PROVE  /\ last[d].by \in Requests => req'[last[d].by].pc \in {"commit", "done", "lost"}
                    /\ last[d].val \in Requests => req'[last[d].val].pc # "idle"
                    /\ \A e \in Entries' : e.by = last[d].by => ValueOf(e) = last[d].val
  BY DEF LastInv, ValueOf
<1>1. ASSUME last[d].by \in Requests PROVE req'[last[d].by].pc \in {"commit", "done", "lost"}
  <2>1. PICK r \in Requests : r = last[d].by
    BY <1>1
  <2>2. req[r].pc \in {"commit", "done", "lost"}
    BY <2>1 DEF LastInv
  <2>3. req'[r] \in Request
    BY DEF ReqTypes
  <2>4. CASE req[r].pc = "commit"
    <3>1. Goes(r)
      BY <2>4 DEF ReqStep, Active
    <3>2. req'[r].pc # "idle" /\ req'[r].pc # "log"
      BY <2>4, <3>1 DEF Goes
    <3> QED BY <2>1, <3>2, <2>3 DEF Request
  <2>5. CASE req[r].pc \in {"done", "lost"}
    BY <2>1, <2>5 DEF ReqStep, Same
  <2> QED BY <2>2, <2>4, <2>5
<1>2. ASSUME last[d].val \in Requests PROVE req'[last[d].val].pc # "idle"
  <2>1. PICK r \in Requests : r = last[d].val
    BY <1>2
  <2>2. req[r].pc # "idle"
    BY <2>1 DEF LastInv
  <2> QED BY <2>1, <2>2, KindsKept
<1>3. \A e \in Entries : e.by = last[d].by => ValueOf(e) = last[d].val
  BY DEF LastInv
<1> QED BY <1>1, <1>2, <1>3

LEMMA EntryStays ==
  ASSUME Types, ReqStep, EntryInv, Entries' \subseteq Entries PROVE EntryInv'
<1> DEFINE S == {}
<1>1. /\ Entries' \subseteq Entries \cup S
      /\ \A e \in S : /\ req'[e.by].pc # "idle" /\ e.op = OpOf(req'[e.by].kind)
                      /\ Active(e.by)' => HasLogged(e.by)'
  OBVIOUS
<1> HIDE DEF S
<1> QED BY <1>1, EntryKept

LEMMA LastStays ==
  ASSUME Types, ReqTypes', ReqStep, LastInv, UNCHANGED last, Entries' \subseteq Entries PROVE LastInv'
<1> DEFINE S == {}
<1>1. /\ Entries' \subseteq Entries \cup S
      /\ \A e \in S : \A d \in Docs : e.by = last[d].by => ValueOf(e) = last[d].val
  OBVIOUS
<1> HIDE DEF S
<1> QED BY <1>1, LastKept

(* What SourceInv asks of a value Badger may be back at. *)
Sourced(v, d) ==
  \/ req[v].pc = "done"
  \/ req[v].pc = "lost" /\ req[v].kind \in {"insert", "batch"}
  \/ Active(v) /\ req[v].kind = "batch" /\ d \in req[v].docs \ req[v].todo

LEMMA SourceKept ==
  ASSUME Types, ReqTypes', ReqStep, SourceInv,
         \A d \in Docs : \A v \in Starts(d)' : v \in Starts(d) \/ v = Gone \/ Sourced(v, d)'
  PROVE  SourceInv'
<1>1. ASSUME NEW d \in Docs, NEW v \in Starts(d), v # Gone PROVE Sourced(v, d)'
  <2>1. v \in Requests
    BY <1>1, StartsType DEF Value
  <2>2. Sourced(v, d)
    BY <1>1 DEF SourceInv, Sourced
  <2>3. CASE req[v].pc \in {"done", "lost"}
    <3>1. Same(v)
      BY <2>1, <2>3 DEF ReqStep
    <3> QED BY <2>2, <2>3, <3>1 DEF Same, Sourced, Active
  <2>4. CASE Active(v) /\ req[v].kind = "batch" /\ d \in req[v].docs \ req[v].todo
    <3>1. Goes(v)
      BY <2>1, <2>4 DEF ReqStep
    <3>2. req'[v] \in Request
      BY <2>1 DEF ReqTypes
    <3> QED BY <2>4, <3>1, <3>2 DEF Goes, Sourced, Active, Request
  <2> QED BY <2>2, <2>3, <2>4 DEF Sourced
<1> SUFFICES ASSUME NEW d \in Docs, NEW v, v \in Starts(d)', v # Gone PROVE Sourced(v, d)'
  BY DEF SourceInv, Sourced
<1> QED BY <1>1

-----------------------------------------------------------------------------
(* Steps that extend the log, and what they leave of its order.            *)

(* The entries of the log stay where they are. *)
SameLog == At(files') = At(files) /\ \A p \in At(files) : EntryAt(files', p) = EntryAt(files, p)

(* The log gets the entries S, and what retention takes is noted. *)
LogStep(S) ==
  Extends(files, files', S) /\ FilesOK(files) /\ FilesOK(files') /\ pruned' = pruned \cup PrunedBy(files')

Stable(d) == d \notin Unsynced /\ base[d] = last[d].val

LEMMA SameLogFacts ==
  ASSUME SameLog
  PROVE  /\ EntriesIn(files') = EntriesIn(files) /\ DocsIn(files') = DocsIn(files)
<1>1. EntriesIn(files') = EntriesIn(files)
  <2>1. EntriesIn(files') = {EntryAt(files', p) : p \in At(files')}
    BY EntriesAt
  <2>2. EntriesIn(files) = {EntryAt(files, p) : p \in At(files)}
    BY EntriesAt
  <2> QED BY <2>1, <2>2 DEF SameLog
<1> QED BY <1>1 DEF DocsIn

LEMMA MineSame ==
  ASSUME SameLog, NEW d, last'[d] = last[d] PROVE MineThere(d)' <=> MineThere(d)
BY DEF SameLog, MineThere, Mine, Redone

LEMMA MineEntry ==
  ASSUME NEW d PROVE MineThere(d) <=> \E e \in EntriesIn(files) : Mine(e, d)
BY EntriesAt DEF MineThere

LEMMA StableStarts ==
  ASSUME Types, NEW d \in Docs, Stable(d) PROVE Starts(d) = {last[d].val} /\ Val(d) = last[d].val
BY StableVal DEF Types, TypeInv, Stable

(* An entry the log loses was deleted with its file. *)
LEMMA LostIsDeleted ==
  ASSUME NEW S, LogStep(S), NEW e \in EntriesIn(files), e \notin EntriesIn(files')
  PROVE  e \in Deleted(files')
<1>1. PICK n \in DOMAIN files \ DOMAIN files' : e \in ToSet(files[n].data)
  BY ExtendsKeeps DEF LogStep
<1> QED BY <1>1 DEF Deleted

LEMMA StillThere ==
  ASSUME NEW S, LogStep(S), NEW d \in Docs, d \notin pruned',
         NEW e \in EntriesIn(files), d \in e.docs, e \notin EntriesIn(files')
  PROVE  Stable(d) \/ \E x \in EntriesIn(files') : d \in x.docs /\ x.by = last[d].by
<1>1. e \in Deleted(files')
  BY LostIsDeleted
<1>2. d \notin PrunedBy(files')
  BY DEF LogStep
<1> QED BY <1>1, <1>2 DEF PrunedBy, Unstable, Stable

(* An entry of the request that wrote a document last is one recovery      *)
(* redoes, if that request is.                                             *)
RedoneRight == \A d \in Docs \ NotRedone : \A e \in Entries :
  d \in e.docs /\ e.by = last[d].by => Mine(e, d) /\ ValueOf(e) = last[d].val

LEMMA IsRedone == Types /\ EntryInv /\ LastInv => RedoneRight
<1> SUFFICES ASSUME Types, EntryInv, LastInv, NEW d \in Docs, d \notin NotRedone,
                    NEW e \in Entries, d \in e.docs, e.by = last[d].by
             PROVE  Mine(e, d) /\ ValueOf(e) = last[d].val
  BY DEF RedoneRight
<1>1. e \in LogEntry
  BY EntriesAreTyped
<1>2. PICK r \in Requests : r = e.by
  BY <1>1 DEF LogEntry
<1>3. e.op = OpOf(req[r].kind) /\ ValueOf(e) = last[d].val
  BY <1>2 DEF EntryInv, LastInv
<1>4. ASSUME e.op \notin {"insert", "delete"} PROVE FALSE
  <2>1. e.op \in {"update", "large"}
    BY <1>1, <1>4 DEF LogEntry
  <2>2. req[r].kind = e.op
    BY <1>3, <2>1 DEF OpOf
  <2>3. last[d].val = r
    BY <1>2, <1>3, <2>1 DEF ValueOf
  <2>4. KindOf(last[d].val) = e.op
    BY <2>2, <2>3, ConstantsAssumption DEF KindOf
  <2> QED BY <2>1, <2>4 DEF NotRedone
<1> QED BY <1>3, <1>4 DEF Mine, Redone

LEMMA StillMine ==
  ASSUME Types, Types', EntryInv', LastInv, LastInv', ReqStep, UNCHANGED last, NEW S, LogStep(S),
         NEW d \in Docs, d \notin NotRedone, d \notin pruned',
         NEW e \in EntriesIn(files), d \in e.docs, e \notin EntriesIn(files')
  PROVE  Stable(d) \/ MineThere(d)'
<1> SUFFICES ASSUME ~Stable(d) PROVE MineThere(d)'
  OBVIOUS
<1>1. PICK x \in EntriesIn(files') : d \in x.docs /\ x.by = last[d].by
  BY StillThere
<1>2. x \in Entries' /\ d \notin NotRedone'
  BY NotRedoneKept DEF Entries
<1>3. Mine(x, d)'
  <2>1. RedoneRight'
    BY IsRedone, PTL
  <2> QED BY <1>1, <1>2, <2>1 DEF RedoneRight
<1>4. EntriesIn(files') = {EntryAt(files', p) : p \in At(files')}
  BY EntriesAt
<1> QED BY <1>1, <1>3, <1>4 DEF MineThere

LEMMA MineStays ==
  ASSUME Types, Types', EntryInv', LastInv, LastInv', ReqStep, UNCHANGED last, NEW S, LogStep(S),
         NEW d \in Docs, d \notin NotRedone, d \notin pruned', MineThere(d)
  PROVE  Stable(d) \/ MineThere(d)'
<1>1. PICK e \in EntriesIn(files) : Mine(e, d)
  BY MineEntry
<1>2. CASE e \in EntriesIn(files')
  <2>1. EntriesIn(files') = {EntryAt(files', p) : p \in At(files')}
    BY EntriesAt
  <2> QED BY <1>1, <1>2, <2>1 DEF MineThere, Mine, Redone
<1>3. CASE e \notin EntriesIn(files')
  BY <1>1, <1>3, StillMine DEF Mine, Redone
<1> QED BY <1>2, <1>3

-----------------------------------------------------------------------------
LEMMA OrderApplied == applied => OrderInv
<1> SUFFICES ASSUME applied, NEW d \in Docs, Clean(d), NEW q \in At(files), Bad(EntryAt(files, q), d) PROVE FALSE
  BY DEF OrderInv
<1>1. EntryAt(files, q) \in EntriesIn(files)
  BY EntriesAt
<1> QED BY <1>1 DEF Clean, Rewound, Bad, Mine, Redone

LEMMA OrderLog ==
  ASSUME Types, ReqTypes', ReqStep, LastInv, EndsNone, UNCHANGED <<last, excused, raced>>,
         NEW S, LogStep(S), ~applied, OrderInv,
         \A e \in S : \A d \in Docs : ~Bad(e, d)'
  PROVE  OrderInv'
<1> SUFFICES ASSUME NEW d \in Docs, Clean(d)', NEW q \in At(files'), Bad(EntryAt(files, q), d)'
             PROVE  /\ \A p \in At(files') : Mine(EntryAt(files, p), d)' => ~Before(p, q)
                    /\ MineThere(d)'
  BY DEF OrderInv
<1>1. Clean(d)
  BY NotRedoneKept DEF Clean
<1>2. q \in At(files) /\ EntryAt(files', q) = EntryAt(files, q)
  BY DEF LogStep, Extends
<1>3. Allowed(d) \subseteq Allowed(d)'
  BY AllowedStays
<1>4. Bad(EntryAt(files, q), d)
  BY <1>2, <1>3 DEF Bad, Mine, Redone, ValueOf
<1>5. /\ \A p \in At(files) : Mine(EntryAt(files, p), d) => ~Before(p, q)
      /\ MineThere(d)
  BY <1>1, <1>2, <1>4 DEF OrderInv
<1>6. ASSUME NEW p \in At(files'), Mine(EntryAt(files, p), d)' PROVE ~Before(p, q)
  <2>1. CASE p \in At(files) /\ EntryAt(files', p) = EntryAt(files, p)
    BY <1>5, <1>6, <2>1 DEF Mine, Redone
  <2>2. CASE \A x \in At(files) : Before(x, p)
    <3>1. Before(q, p)
      BY <1>2, <2>2
    <3> QED BY <1>2, <3>1, BeforeOrder DEF LogStep
  <2> QED BY <2>1, <2>2 DEF LogStep, Extends
<1>7. MineThere(d)'
  <2>1. PICK p \in At(files) : Mine(EntryAt(files, p), d)
    BY <1>5 DEF MineThere
  <2>2. p # q /\ ~Before(p, q)
    BY <1>4, <1>5, <2>1 DEF Bad
  <2>3. Before(q, p)
    BY <1>2, <2>2, BeforeOrder DEF LogStep
  <2>4. p \in At(files')
    BY <1>2, <2>3 DEF LogStep, Extends
  <2>5. EntryAt(files', p) = EntryAt(files, p)
    BY <2>4, ExtendsKeeps DEF LogStep
  <2> QED BY <2>1, <2>4, <2>5 DEF MineThere, Mine, Redone
<1> QED BY <1>6, <1>7

LEMMA CovLog ==
  ASSUME Types, Types', ReqStep, EntryInv', LastInv, LastInv', EndsNone,
         UNCHANGED <<base, tail, last, excused, raced>>, NEW S, LogStep(S), applied => applied', CovInv
  PROVE  CovInv'
<1> SUFFICES ASSUME NEW d \in Docs, Clean(d)', d \notin pruned', NEW v \in Starts(d), v \notin Allowed(d)'
             PROVE  MineThere(d)'
  BY DEF CovInv, Starts, CommitsOf
<1>1. ~Stable(d)
  <2>1. last[d].val \in Allowed(d)'
    BY DEF Allowed
  <2> QED BY <2>1, StableStarts
<1>2. d \notin excused \cup raced \cup NotRedone
  BY NotRedoneKept DEF Clean
<1>3. CASE Clean(d)
  <2>1. v \in Allowed(d) \/ MineThere(d)
    BY <1>3 DEF CovInv, LogStep
  <2>2. v \notin Allowed(d)
    BY AllowedStays DEF Types
  <2> QED BY <1>1, <1>2, <2>1, <2>2, MineStays
<1>4. CASE ~Clean(d)
  <2>1. applied /\ applied' /\ d \in Rewound /\ d \notin Rewound'
    BY <1>2, <1>4 DEF Clean
  <2>2. d \notin pruned
    BY DEF LogStep
  <2>3. PICK e \in EntriesIn(files) : e.op \in {"insert", "delete"} /\ d \in e.docs /\ e.by # last[d].by
    BY <2>1, <2>2 DEF Rewound
  <2>4. e \notin EntriesIn(files')
    BY <2>1, <2>3 DEF Rewound
  <2> QED BY <1>1, <1>2, <2>3, <2>4, StillMine
<1> QED BY <1>3, <1>4

LEMMA TailLog ==
  ASSUME TailInv, NEW S, LogStep(S), UNCHANGED tail, Types PROVE TailInv'
<1> SUFFICES ASSUME NEW d \in Unsynced, d \notin pruned' PROVE d \in DocsIn(files')
  BY DEF TailInv, Unsynced
<1>1. d \in Docs
  BY UnsyncedDocs
<1>2. PICK e \in EntriesIn(files) : d \in e.docs
  BY DEF TailInv, LogStep, DocsIn
<1>3. CASE e \in EntriesIn(files')
  BY <1>2, <1>3 DEF DocsIn
<1>4. CASE e \notin EntriesIn(files')
  <2>1. \E x \in EntriesIn(files') : d \in x.docs
    BY <1>1, <1>2, <1>4, StillThere DEF Stable
  <2> QED BY <2>1 DEF DocsIn
<1> QED BY <1>3, <1>4

-----------------------------------------------------------------------------
(* The inductive invariant.                                                *)

Logs == SegInv /\ NotFull /\ Synced
Basics == Types /\ PhaseInv /\ EntryInv /\ LastInv /\ SourceInv
Runs == BatchInv /\ DelInv /\ OwnInv /\ OrderInv /\ CovInv /\ TailInv
Vals == ValInv /\ NowInv /\ DownInv /\ ReplayInv
Inv == Logs /\ Basics /\ Runs /\ Vals

(* A step that changes the requests, and what may be in another order. *)
LEMMA ReqOnlyStep ==
  ASSUME Inv, ReqTypes', ReqStep, EndsNone, raced \subseteq raced', raced' \in SUBSET Docs,
         UNCHANGED <<policy, files, segs, marker, base, tail, phase, replay, applied, admin, last, pruned, excused>>,
         phase \in {"up", "closing"},
         \A q \in Requests : Active(q)' /\ req'[q].kind = "batch" => Same(q),
         DelInv', OwnInv'
  PROVE  Inv'
<1>1. Logs'
  BY DEF Inv, Logs, SegInv, NotFull, Synced
<1>2. Types'
  BY DEF Inv, Basics, Types, TypeInv, ReqTypes
<1>3. \A d \in Docs : Val(d)' = Val(d) /\ Starts(d)' = Starts(d)
  BY DEF Val, Starts
<1>4. PhaseInv'
  BY DEF Inv, Basics, PhaseInv, Unsynced
<1>5. Entries' = Entries /\ DocsIn(files') = DocsIn(files) /\ SameLog
  BY DEF Entries, SameLog
<1>6. EntryInv'
  BY <1>5, EntryStays DEF Inv, Basics
<1>7. LastInv'
  BY <1>5, LastStays DEF Inv, Basics
<1>8. SourceInv'
  BY <1>3, SourceKept DEF Inv, Basics
<1>9. BatchInv'
  <2> SUFFICES ASSUME NEW r \in Requests, Active(r)', req'[r].kind = "batch",
                      NEW d \in req'[r].docs \ req'[r].todo, d \notin raced'
               PROVE  last[d] = [by |-> r, val |-> r] /\ d \notin excused
    BY DEF BatchInv, BatchOf
  <2>1. Same(r)
    OBVIOUS
  <2> QED BY <2>1 DEF Inv, Runs, BatchInv, BatchOf, Same, Active
<1>10. ASSUME NEW d \in Docs PROVE Clean(d)' => Clean(d)
  <2>1. NotRedone' = NotRedone
    BY NotRedoneKept DEF Inv, Basics
  <2>2. Rewound' = Rewound
    BY DEF Rewound
  <2> QED BY <2>1, <2>2 DEF Clean
<1>11. ASSUME NEW d \in Docs PROVE Allowed(d) \subseteq Allowed(d)'
  BY AllowedStays
<1>12. OrderInv'
  <2> SUFFICES ASSUME NEW d \in Docs, Clean(d)', NEW q \in At(files), Bad(EntryAt(files, q), d)'
               PROVE  /\ \A p \in At(files) : Mine(EntryAt(files, p), d) => ~Before(p, q)
                      /\ MineThere(d)
    BY DEF OrderInv, MineThere, Mine, Redone
  <2>1. Bad(EntryAt(files, q), d)
    BY <1>11 DEF Bad, Mine, Redone, ValueOf
  <2> QED BY <1>10, <2>1 DEF OrderInv, Inv, Runs
<1>13. CovInv'
  <2> SUFFICES ASSUME NEW d \in Docs, Clean(d)', d \notin pruned, NEW v \in Starts(d), v \notin Allowed(d)'
               PROVE  MineThere(d)
    BY <1>3 DEF CovInv, MineThere, Mine, Redone
  <2> QED BY <1>10, <1>11 DEF CovInv, Inv, Runs
<1>14. TailInv'
  BY DEF Inv, Runs, TailInv, Unsynced, DocsIn, EntriesIn
<1>15. Vals'
  <2>1. \A d \in Docs : Known(d) \subseteq Known(d)'
    BY KnownGrows
  <2>2. ValInv'
    BY <1>3, <2>1 DEF ValInv, Inv, Vals
  <2> QED BY <2>2 DEF Vals, NowInv, DownInv, ReplayInv
<1> QED BY <1>1, <1>2, <1>4, <1>6, <1>7, <1>8, <1>9, <1>12, <1>13, <1>14, <1>15 DEF Inv, Basics, Runs

-----------------------------------------------------------------------------
(* Requests that end without a commit, or have just begun.                 *)

LEMMA ReadableKept ==
  ASSUME Types, ReqStep, SourceInv, \A d \in Docs : Val(d)' = Val(d) PROVE Readable' = Readable
<1>1. ASSUME NEW d \in Docs PROVE KindOf(Val(d))' = KindOf(Val(d))
  <2>1. PICK v : v = Val(d)
    OBVIOUS
  <2>2. v \in Starts(d)
    BY <2>1, StartsType, ValStarts DEF Types, TypeInv
  <2>3. KindOf(v)' = KindOf(v)
    BY <2>2, StartKind
  <2>4. Val(d)' = v
    BY <2>1
  <2> QED BY <2>1, <2>3, <2>4 DEF KindOf
<1> QED BY <1>1 DEF Readable, Present

LEMMA DelKept ==
  ASSUME Types, ReqStep, SourceInv, DelInv, \A d \in Docs : Val(d)' = Val(d), raced \subseteq raced',
         NEW r \in Requests, \A q \in Requests \ {r} : Same(q), DelOf(r)'
  PROVE  DelInv'
<1>1. Readable' = Readable
  BY ReadableKept
<1>2. ASSUME NEW q \in Requests \ {r} PROVE DelOf(q)'
  BY <1>1 DEF Same, Active, DelInv, DelOf
<1> QED BY <1>2 DEF DelInv

LEMMA OwnKept ==
  ASSUME OwnInv, UNCHANGED files, NEW r \in Requests, \A q \in Requests \ {r} : Same(q), OwnOf(r)'
  PROVE  OwnInv'
<1>1. \A q \in Requests : \A d : (OwnLast(q, d)' <=> OwnLast(q, d)) /\ (OwnThere(q, d)' <=> OwnThere(q, d))
  BY DEF OwnLast, OwnThere, Redone
<1>2. ASSUME NEW q \in Requests \ {r} PROVE OwnOf(q)'
  BY <1>1 DEF Same, Active, OwnInv, OwnOf, HasLogged
<1> QED BY <1>2 DEF OwnInv

(* No entry of an idle request is there. *)
LEMMA NoneOfIdle ==
  ASSUME Types, EntryInv, NEW r \in Requests, req[r].pc = "idle", NEW e \in Entries PROVE e.by # r
BY DEF EntryInv

LEMMA EndedStep ==
  ASSUME Inv, NEW r \in Requests, req' = [req EXCEPT ![r] = Lost(r)], Active(r),
         UNCHANGED <<policy, files, segs, marker, base, tail, phase, replay, applied, admin, last, raced, pruned, excused>>,
         phase \in {"up", "closing"}
  PROVE  Inv'
<1>1. ReqTypes
  BY DEF Inv, Basics, Types
<1>2. PICK rec \in {Done(r), Lost(r)} : rec = Lost(r)
  OBVIOUS
<1>3. req[r].pc \notin {"done", "lost"} /\ req' = [req EXCEPT ![r] = rec]
  BY <1>2 DEF Active
<1>4. ReqTypes' /\ ReqStep /\ (\A q \in Requests \ {r} : Same(q)) /\ req'[r].pc = "lost"
  BY <1>1, <1>2, <1>3, EndedReq
<1>5. EndsNone
  BY <1>4 DEF EndsNone, Same, Active
<1>6. ~Active(r)'
  BY <1>4 DEF Active
<1>7. DelOf(r)' /\ OwnOf(r)'
  BY <1>6 DEF DelOf, OwnOf
<1>8. \A d \in Docs : Val(d)' = Val(d)
  BY DEF Val
<1>9. DelInv'
  BY <1>4, <1>7, <1>8, DelKept DEF Inv, Basics, Runs
<1>10. OwnInv'
  BY <1>4, <1>7, OwnKept DEF Inv, Runs
<1>11. raced' \in SUBSET Docs
  BY DEF Inv, Basics, Types, TypeInv
<1>12. \A q \in Requests : Active(q)' /\ req'[q].kind = "batch" => Same(q)
  BY <1>4, <1>6
<1> QED BY <1>4, <1>5, <1>9, <1>10, <1>11, <1>12, ReqOnlyStep

LEMMA InsertFailsStep == ASSUME Inv, NEW r \in Requests, InsertFails(r) PROVE Inv'
<1>1. /\ req' = [req EXCEPT ![r] = Lost(r)] /\ Active(r) /\ phase \in {"up", "closing"}
      /\ UNCHANGED <<policy, files, segs, marker, base, tail, phase, replay, applied, admin, last, raced, pruned, excused>>
  BY DEF InsertFails, Active, logVars, dbVars, runVars, ghostVars
<1> QED BY <1>1, EndedStep

LEMMA FilterBeginStep ==
  ASSUME Inv, NEW r \in Requests, NEW kind \in {"update", "delete"}, NEW F \in SUBSET Docs,
         FilterBegin(r, kind, F)
  PROVE  Inv'
<1>1. /\ UNCHANGED <<policy, files, segs, marker, base, tail, phase, replay, applied, admin, last, raced, pruned, excused>>
      /\ phase \in {"up", "closing"}
  BY DEF FilterBegin, logVars, dbVars, runVars, ghostVars
<1>2. \A d \in Docs : Val(d)' = Val(d) /\ Val(d) \in Value
  BY <1>1, StartsType DEF Val, Inv, Basics
<1>3. /\ ReqTypes' /\ ReqStep /\ \A q \in Requests \ {r} : Same(q)
      /\ req[r].pc = "idle"
      /\ \/ req'[r].pc = "done" /\ req'[r].docs = {}
         \/ /\ req'[r].pc = "log" /\ req'[r].kind = kind /\ req'[r].docs = F
            /\ req'[r].todo = F \cap Readable /\ req'[r].match = F \cap Readable
  BY <1>2, FilterBeginReq DEF Inv, Basics, Types
<1>4. EndsNone
  BY <1>3 DEF EndsNone, Same, Active
<1>5. DelOf(r)'
  <2>1. Readable' = Readable
    BY <1>2, <1>3, ReadableKept DEF Inv, Basics
  <2> QED BY <1>3, <2>1 DEF DelOf, Active
<1>6. OwnOf(r)'
  <2> SUFFICES ASSUME Active(r)', HasLogged(r)', NEW d PROVE OwnLast(r, d)' /\ req'[r].kind = "update"
    BY DEF OwnOf
  <2>1. req'[r].kind = "update"
    BY <1>3 DEF Active, HasLogged
  <2>2. \A p \in At(files) : EntryAt(files, p).by # r
    <3>1. \A p \in At(files) : EntryAt(files, p) \in Entries
      BY EntriesAt DEF Entries
    <3> QED BY <1>3, <3>1, NoneOfIdle DEF Inv, Basics
  <2>3. OwnLast(r, d)'
    BY <1>1, <2>2 DEF OwnLast
  <2> QED BY <2>1, <2>3
<1>7. DelInv'
  BY <1>1, <1>2, <1>3, <1>5, DelKept DEF Inv, Basics, Runs
<1>8. OwnInv'
  BY <1>1, <1>3, <1>6, OwnKept DEF Inv, Runs
<1>9. raced' \in SUBSET Docs /\ raced \subseteq raced'
  BY <1>1 DEF Inv, Basics, Types, TypeInv
<1>10. \A q \in Requests : Active(q)' /\ req'[q].kind = "batch" => Same(q)
  BY <1>3 DEF Active
<1> QED BY <1>1, <1>3, <1>4, <1>7, <1>8, <1>9, <1>10, ReqOnlyStep

LEMMA SkipDocStep == ASSUME Inv, NEW r \in Requests, NEW d \in Docs, SkipDoc(r, d) PROVE Inv'
<1>1. /\ UNCHANGED <<policy, files, segs, marker, base, tail, phase, replay, applied, admin, last, pruned, excused>>
      /\ phase \in {"up", "closing"}
      /\ raced' = raced \cup IF req[r].kind = "delete" THEN {d} ELSE {}
  BY DEF SkipDoc, logVars, dbVars, runVars
<1>2. \A x \in Docs : Val(x)' = Val(x)
  BY <1>1 DEF Val
<1>3. /\ ReqTypes' /\ ReqStep /\ \A q \in Requests \ {r} : Same(q)
      /\ req[r].pc = "log" /\ req[r].kind \in {"update", "delete"} /\ d \in req[r].todo
      /\ Active(r)' /\ req'[r].kind = req[r].kind /\ req'[r].docs = req[r].docs
      /\ req'[r].todo = req[r].todo \ {d} /\ req'[r].match = req[r].match \ {d}
      /\ req'[r].overlap = req[r].overlap
  BY SkipDocReq DEF Inv, Basics, Types
<1>4. EndsNone
  BY <1>3 DEF EndsNone, Same, Active
<1>5. DelOf(r)'
  <2>1. Readable' = Readable
    BY <1>2, <1>3, ReadableKept DEF Inv, Basics
  <2>2. DelOf(r)
    BY DEF Inv, Runs, DelInv
  <2> QED BY <1>1, <1>3, <2>1, <2>2 DEF DelOf, Active
<1>6. OwnOf(r)'
  <2>1. OwnOf(r)
    BY DEF Inv, Runs, OwnInv
  <2>2. HasLogged(r)' => HasLogged(r)
    BY <1>3 DEF HasLogged
  <2>3. Active(r)
    BY <1>3 DEF Active
  <2>4. \A x : (OwnLast(r, x)' <=> OwnLast(r, x)) /\ (OwnThere(r, x)' <=> OwnThere(r, x))
    BY <1>1 DEF OwnLast, OwnThere, Redone
  <2> QED BY <1>3, <2>1, <2>2, <2>3, <2>4 DEF OwnOf
<1>7. DelInv'
  BY <1>1, <1>2, <1>3, <1>5, DelKept DEF Inv, Basics, Runs
<1>8. OwnInv'
  BY <1>1, <1>3, <1>6, OwnKept DEF Inv, Runs
<1>9. raced' \in SUBSET Docs /\ raced \subseteq raced'
  BY <1>1 DEF Inv, Basics, Types, TypeInv
<1>10. \A q \in Requests : Active(q)' /\ req'[q].kind = "batch" => Same(q)
  BY <1>3
<1> QED BY <1>1, <1>3, <1>4, <1>7, <1>8, <1>9, <1>10, ReqOnlyStep

-----------------------------------------------------------------------------
(* Commits: what they note.                                                *)

(* r commits D. *)
CommitStep(r, D) ==
  /\ Active(r) /\ req[r].pc = "commit" /\ D \subseteq Pending(r) /\ (D # {} => HasLogged(r))
  /\ Store(D, Meant(r)) /\ Note(r, D)
  /\ UNCHANGED <<policy, files, segs, marker, phase, replay, applied, admin>> /\ phase \in {"up", "closing"}
  /\ \A q \in Requests \ {r} : Same(q)
  /\ req'[r].kind = req[r].kind
  /\ \/ /\ req'[r].pc = "done"
        /\ \A d \in req[r].docs \ D : \/ req[r].kind = "batch" /\ d \notin req[r].todo
                                      \/ req[r].kind = "update"
                                      \/ req[r].kind = "delete" /\ d \notin req[r].match
     \/ /\ Active(r)' /\ req[r].kind = "batch" /\ req'[r].docs = req[r].docs
        /\ req'[r].todo = req[r].todo \ D /\ req'[r].overlap = req[r].overlap

LEMMA NoteFacts ==
  ASSUME Inv, NEW r \in Requests, NEW D \in SUBSET Docs, Note(r, D)
  PROVE  /\ \A d \in D : last'[d] = [by |-> r, val |-> Meant(r)]
         /\ \A d \in Docs \ D : last'[d] = last[d]
         /\ \A d \in D : d \in raced' <=> d \in req[r].overlap
         /\ \A d \in Docs \ D : d \in raced' <=> d \in raced
         /\ \A d \in D : d \notin pruned' => phase # "closing" /\ \E e \in EntriesIn(files) : e.by = r /\ d \in e.docs
         /\ \A d \in D : phase = "closing" => d \in pruned'
         /\ \A d \in D : d \in pruned' \/ d \in DocsIn(files)
         /\ \A d \in Docs \ D : d \in pruned' <=> d \in pruned
         /\ \A d \in Docs \ D : d \in excused' <=> d \in excused
         /\ req[r].kind # "update" => \A d \in D : d \notin excused'
         /\ excused' \subseteq excused
         /\ raced' \in SUBSET Docs /\ pruned' \in SUBSET Docs /\ excused' \in SUBSET Docs
         /\ last' \in [Docs -> [by : Value, val : Value]]
<1>1. last' = [d \in Docs |-> IF d \in D THEN [by |-> r, val |-> Meant(r)] ELSE last[d]]
  BY DEF Note, Meant
<1>2. /\ raced' = (raced \ D) \cup (D \cap req[r].overlap)
      /\ pruned' = (pruned \ D) \cup {d \in D : phase = "closing" \/ ~ \E e \in EntriesIn(files) : e.by = r /\ d \in e.docs}
      /\ excused' = IF req[r].kind = "update" THEN excused ELSE excused \ D
  BY DEF Note
<1>3. last \in [Docs -> [by : Value, val : Value]] /\ raced \in SUBSET Docs /\ pruned \in SUBSET Docs /\ excused \in SUBSET Docs
  BY DEF Inv, Basics, Types, TypeInv
<1>4. Meant(r) \in Value /\ r \in Value
  BY DEF Meant, Value
<1>5. last' \in [Docs -> [by : Value, val : Value]]
  BY <1>1, <1>3, <1>4
<1>6. /\ \A d \in D : last'[d] = [by |-> r, val |-> Meant(r)]
      /\ \A d \in Docs \ D : last'[d] = last[d]
  BY <1>1
<1>7. /\ \A d \in D : d \in raced' <=> d \in req[r].overlap
      /\ \A d \in Docs \ D : d \in raced' <=> d \in raced
      /\ \A d \in D : d \notin pruned' => phase # "closing" /\ \E e \in EntriesIn(files) : e.by = r /\ d \in e.docs
      /\ \A d \in D : phase = "closing" => d \in pruned'
      /\ \A d \in Docs \ D : d \in pruned' <=> d \in pruned
  BY <1>2
<1>8. \A d \in D : d \in pruned' \/ d \in DocsIn(files)
  BY <1>7 DEF DocsIn
<1>9. /\ \A d \in Docs \ D : d \in excused' <=> d \in excused
      /\ req[r].kind # "update" => \A d \in D : d \notin excused'
      /\ excused' \subseteq excused
  BY <1>2
<1>10. raced' \in SUBSET Docs /\ pruned' \in SUBSET Docs /\ excused' \in SUBSET Docs
  BY <1>2, <1>3
<1> QED BY <1>5, <1>6, <1>7, <1>8, <1>9, <1>10

LEMMA CommitBasics ==
  ASSUME Inv, ReqTypes', ReqStep, NEW r \in Requests, NEW D \in SUBSET Docs, CommitStep(r, D)
  PROVE  Logs' /\ Basics' /\ TailInv'
<1>1. /\ \A d \in D : last'[d] = [by |-> r, val |-> Meant(r)]
      /\ \A d \in Docs \ D : last'[d] = last[d]
      /\ \A d \in D : phase = "closing" => d \in pruned'
      /\ \A d \in D : d \in pruned' \/ d \in DocsIn(files)
      /\ \A d \in Docs \ D : d \in pruned' <=> d \in pruned
      /\ raced' \in SUBSET Docs /\ pruned' \in SUBSET Docs /\ excused' \in SUBSET Docs
      /\ last' \in [Docs -> [by : Value, val : Value]]
  BY NoteFacts DEF CommitStep
<1>2. Meant(r) \in Value
  BY DEF Meant, Value
<1>3. /\ tail' \in Seq(Commit) /\ base' = base
      /\ Unsynced' = Unsynced \cup D
      /\ \A d \in Docs : Starts(d)' = Starts(d) \cup IF d \in D THEN {Meant(r)} ELSE {}
  BY <1>2, StoreFacts DEF CommitStep, Inv, Basics, Types, TypeInv
<1>4. Types'
  BY <1>1, <1>3 DEF CommitStep, Inv, Basics, Types, TypeInv, ReqTypes
<1>5. Logs'
  BY DEF CommitStep, Inv, Logs, SegInv, NotFull, Synced
<1>6. PhaseInv'
  <2>1. phase = "closing" => Unsynced \subseteq pruned
    BY DEF Inv, Basics, PhaseInv
  <2>2. Unsynced \subseteq Docs
    BY UnsyncedDocs DEF Inv, Basics
  <2>3. phase = "closing" => Unsynced' \subseteq pruned'
    BY <1>1, <1>3, <2>1, <2>2
  <2> QED BY <2>3 DEF CommitStep, Inv, Basics, PhaseInv
<1>7. TailInv'
  <2>1. Unsynced \subseteq pruned \cup DocsIn(files) /\ DocsIn(files') = DocsIn(files)
    BY DEF Inv, Runs, TailInv, CommitStep
  <2>2. Unsynced \subseteq Docs
    BY UnsyncedDocs DEF Inv, Basics
  <2> QED BY <1>1, <1>3, <2>1, <2>2 DEF TailInv
<1>8. Entries' = Entries
  BY DEF Entries, CommitStep
<1>9. EntryInv'
  BY <1>8, EntryStays DEF Inv, Basics
<1>10. LastInv'
  <2> SUFFICES ASSUME NEW d \in Docs
               PROVE  /\ last'[d].by \in Requests => req'[last'[d].by].pc \in {"commit", "done", "lost"}
                      /\ last'[d].val \in Requests => req'[last'[d].val].pc # "idle"
                      /\ \A e \in Entries : e.by = last'[d].by => ValueOf(e) = last'[d].val
    BY <1>8 DEF LastInv, ValueOf
  <2>0. req'[r].pc # "idle" /\ req'[r].pc \in {"commit", "done", "lost"}
    <3>1. Goes(r) /\ req[r].pc = "commit"
      BY DEF ReqStep, CommitStep
    <3>2. req'[r] \in Request
      BY DEF ReqTypes
    <3> QED BY <3>1, <3>2 DEF Goes, Request
  <2>1. CASE d \in D
    <3>1. last'[d].by = r /\ last'[d].val = Meant(r)
      BY <1>1, <2>1
    <3>2. \A e \in Entries : e.by = r => ValueOf(e) = Meant(r)
      <4>1. ASSUME NEW e \in Entries, e.by = r PROVE ValueOf(e) = Meant(r)
        <5>1. e.op = OpOf(req[r].kind)
          BY <4>1 DEF Inv, Basics, EntryInv
        <5> QED BY <4>1, <5>1 DEF ValueOf, Meant, OpOf
      <4> QED BY <4>1
    <3>3. Meant(r) \in Requests => Meant(r) = r
      BY ConstantsAssumption DEF Meant
    <3> QED BY <2>0, <3>1, <3>2, <3>3
  <2>2. CASE d \notin D
    <3>1. last'[d] = last[d]
      BY <1>1, <2>2
    <3>2. /\ last[d].by \in Requests => req[last[d].by].pc \in {"commit", "done", "lost"}
          /\ last[d].val \in Requests => req[last[d].val].pc # "idle"
          /\ \A e \in Entries : e.by = last[d].by => ValueOf(e) = last[d].val
      BY DEF Inv, Basics, LastInv
    <3>3. \A q \in Requests \ {r} : req'[q].pc = req[q].pc
      BY DEF CommitStep, Same
    <3>4. last[d].by \in Requests => req'[last[d].by].pc \in {"commit", "done", "lost"}
      BY <2>0, <3>2, <3>3
    <3>5. last[d].val \in Requests => req'[last[d].val].pc # "idle"
      BY <2>0, <3>2, <3>3
    <3> QED BY <3>1, <3>2, <3>4, <3>5
  <2> QED BY <2>1, <2>2
<1>11. SourceInv'
  <2>1. ASSUME NEW d \in D, Meant(r) # Gone PROVE Sourced(r, d)' /\ Meant(r) = r
    <3>1. Meant(r) = r /\ req[r].kind # "delete"
      BY <2>1 DEF Meant
    <3>2. CASE req'[r].pc = "done"
      BY <3>1, <3>2 DEF Sourced
    <3>3. CASE Active(r)' /\ req[r].kind = "batch" /\ req'[r].docs = req[r].docs /\ req'[r].todo = req[r].todo \ D
      <4>1. d \in req[r].docs /\ req'[r].kind = "batch"
        BY <3>3 DEF CommitStep, Pending
      <4> QED BY <3>1, <3>3, <4>1 DEF Sourced
    <3> QED BY <3>2, <3>3, <3>1 DEF CommitStep
  <2>2. \A d \in Docs : \A v \in Starts(d)' : v \in Starts(d) \/ v = Gone \/ Sourced(v, d)'
    BY <1>3, <2>1
  <2> QED BY <2>2, SourceKept DEF Inv, Basics
<1> QED BY <1>4, <1>5, <1>6, <1>7, <1>9, <1>10, <1>11 DEF Basics

-----------------------------------------------------------------------------
(* Commits: the order of the log, and what covers a crash.                 *)

(* While requests run, nothing is applied. *)
LEMMA NotApplied == ASSUME Inv, phase \in {"up", "closing"} PROVE ~applied
BY DEF Inv, Basics, PhaseInv

(* A document that cannot be read, of which nothing is known against, is   *)
(* not there.                                                              *)
LEMMA UnreadableIsGone ==
  ASSUME Inv, phase \in {"up", "closing"}, NEW d \in Docs, Clean(d), d \notin Readable
  PROVE  Gone \in Known(d)
<1>1. PICK v : v = Val(d)
  OBVIOUS
<1>2. v \in Starts(d)
  BY <1>1, ValStarts DEF Inv, Basics, Types, TypeInv
<1>3. v \in Known(d)
  BY <1>1 DEF Inv, Vals, ValInv, Clean
<1>4. v = Gone \/ KindOf(v) = "large"
  BY <1>1 DEF Readable, Present
<1>5. ASSUME v # Gone PROVE FALSE
  <2>1. req[v].kind = "large"
    BY <1>4, <1>5 DEF KindOf
  <2>2. req[v].pc = "done"
    BY <1>2, <1>5, <2>1 DEF Inv, Basics, SourceInv
  <2>3. v \notin LostValues(d)
    BY <1>5, <2>2 DEF LostValues
  <2>4. v = last[d].val
    BY <1>3, <2>3 DEF Known
  <2> QED BY <1>4, <1>5, <2>4 DEF Clean, NotRedone
<1> QED BY <1>3, <1>5

LEMMA CommitAllowed ==
  ASSUME Inv, ReqTypes', ReqStep, NEW r \in Requests, NEW D \in SUBSET Docs, CommitStep(r, D),
         NEW d \in Docs \ D, Clean(d), NEW v \in Allowed(d), v \notin Allowed(d)'
  PROVE  v = r /\ req[r].kind = "update"
<1>1. last'[d] = last[d]
  BY NoteFacts DEF CommitStep
<1>2. PICK q \in Requests : Active(q) /\ req'[q].pc = "done" /\ d \in req[q].docs /\ v = Meant(q)
  BY <1>1, AllowedGrows
<1>3. q = r
  BY <1>2 DEF CommitStep, Same, Active
<1>4. /\ req'[r].pc = "done" /\ d \in req[r].docs
      /\ \/ req[r].kind = "batch" /\ d \notin req[r].todo
         \/ req[r].kind = "update"
         \/ req[r].kind = "delete" /\ d \notin req[r].match
  BY <1>2, <1>3 DEF CommitStep, Active
<1>5. last[d].val \in Allowed(d)'
  BY <1>1 DEF Allowed
<1>6. ASSUME req[r].kind = "batch", d \notin req[r].todo PROVE FALSE
  <2>1. d \notin raced
    BY DEF Clean
  <2>2. last[d] = [by |-> r, val |-> r]
    BY <1>2, <1>3, <1>4, <1>6, <2>1 DEF Inv, Runs, BatchInv, BatchOf
  <2> QED BY <1>2, <1>3, <1>5, <1>6, <2>2 DEF Meant
<1>7. ASSUME req[r].kind = "delete", d \notin req[r].match PROVE FALSE
  <2>1. d \notin Readable
    BY <1>2, <1>3, <1>4, <1>7 DEF Clean, Inv, Runs, DelInv, DelOf
  <2>2. Gone \in Known(d)
    BY <2>1, UnreadableIsGone DEF CommitStep
  <2>3. Gone \in Known(d)'
    BY <1>1, <2>2, KnownGrows
  <2>4. Gone \in Allowed(d)'
    BY <2>3 DEF Known, Allowed, LostValues, Unfinished, Meant
  <2> QED BY <1>2, <1>3, <1>7, <2>4 DEF Meant
<1> QED BY <1>2, <1>3, <1>4, <1>6, <1>7 DEF Meant

LEMMA CommitClean ==
  ASSUME Inv, ReqTypes', ReqStep, NEW r \in Requests, NEW D \in SUBSET Docs, CommitStep(r, D),
         NEW d \in Docs, Clean(d)'
  PROVE  /\ d \notin D => Clean(d)
         /\ d \in D => req[r].kind \in {"insert", "batch", "delete"} /\ d \notin req[r].overlap
<1>1. ~applied /\ ~applied'
  BY NotApplied DEF CommitStep
<1>2. d \notin excused' /\ d \notin raced' /\ d \notin NotRedone'
  BY DEF Clean
<1>3. ASSUME d \notin D PROVE Clean(d)
  <2>1. d \notin excused /\ d \notin raced /\ last'[d] = last[d]
    BY <1>2, <1>3, NoteFacts DEF CommitStep
  <2>2. KindOf(last[d].val)' = KindOf(last[d].val)
    BY <2>1, LastKind DEF Inv, Basics
  <2>3. d \notin NotRedone
    BY <1>2, <2>2 DEF NotRedone
  <2> QED BY <1>1, <2>1, <2>3 DEF Clean
<1>4. ASSUME d \in D PROVE req[r].kind \in {"insert", "batch", "delete"} /\ d \notin req[r].overlap
  <2>1. d \notin req[r].overlap /\ last'[d] = [by |-> r, val |-> Meant(r)]
    BY <1>2, <1>4, NoteFacts DEF CommitStep
  <2>2. last'[d].val = Meant(r)
    BY <2>1
  <2>3. req[r] \in Request /\ req[r].kind # "none"
    BY DEF CommitStep, Inv, Basics, Types, ReqTypes, ReqInv
  <2>4. ASSUME req[r].kind \in {"update", "large"} PROVE FALSE
    <3>1. last'[d].val = r /\ r # Gone
      BY <2>2, <2>4, ConstantsAssumption DEF Meant
    <3>2. KindOf(last[d].val)' = req'[r].kind
      BY <3>1 DEF KindOf
    <3> QED BY <1>2, <2>4, <3>2 DEF NotRedone, CommitStep
  <2> QED BY <2>1, <2>3, <2>4 DEF Request
<1> QED BY <1>3, <1>4

LEMMA CommitOrder ==
  ASSUME Inv, ReqTypes', ReqStep, NEW r \in Requests, NEW D \in SUBSET Docs, CommitStep(r, D)
  PROVE  OrderInv'
<1> SUFFICES ASSUME NEW d \in Docs, Clean(d)', NEW q \in At(files), Bad(EntryAt(files, q), d)'
             PROVE  /\ \A p \in At(files) : Mine(EntryAt(files, p), d)' => ~Before(p, q)
                    /\ MineThere(d)'
  BY DEF OrderInv, CommitStep
<1>0. files' = files
  BY DEF CommitStep
<1>1. CASE d \in D
  <2>1. req[r].kind \in {"insert", "batch", "delete"} /\ d \notin req[r].overlap
    BY <1>1, CommitClean
  <2>2. last'[d] = [by |-> r, val |-> Meant(r)]
    BY <1>1, NoteFacts DEF CommitStep
  <2>3. d \in req[r].docs \ req[r].overlap /\ Active(r) /\ HasLogged(r)
    BY <1>1, <2>1 DEF CommitStep, Pending
  <2>4. OwnLast(r, d) /\ OwnThere(r, d)
    BY <2>1, <2>3 DEF Inv, Runs, OwnInv, OwnOf
  <2>5. Redone(EntryAt(files, q), d) /\ EntryAt(files, q).by # r
    BY <1>0, <2>2 DEF Bad, Mine, Redone
  <2>6. \A p \in At(files) : Mine(EntryAt(files, p), d)' => ~Before(p, q)
    BY <1>0, <2>2, <2>4, <2>5 DEF Mine, Redone, OwnLast
  <2>7. MineThere(d)'
    BY <1>0, <2>2, <2>4, <2>5 DEF MineThere, Mine, Redone, OwnThere
  <2> QED BY <2>6, <2>7
<1>2. CASE d \notin D
  <2>1. Clean(d)
    BY <1>2, CommitClean
  <2>2. last'[d] = last[d]
    BY <1>2, NoteFacts DEF CommitStep
  <2>3. PICK e : e = EntryAt(files, q)
    OBVIOUS
  <2>4. Redone(e, d) /\ ~Mine(e, d) /\ ValueOf(e) \notin Allowed(d)'
    BY <1>0, <2>2, <2>3 DEF Bad, Mine, Redone, ValueOf
  <2>5. e \in Entries /\ e \in LogEntry
    BY <2>3, EntriesAt, EntriesAreTyped DEF Inv, Basics, Entries
  <2>6. ValueOf(e) \notin Allowed(d)
    <3>1. SUFFICES ASSUME ValueOf(e) \in Allowed(d) PROVE FALSE
      OBVIOUS
    <3>2. ValueOf(e) = r /\ req[r].kind = "update"
      BY <1>2, <2>1, <2>4, <3>1, CommitAllowed
    <3>3. e.op = "insert" /\ e.by = r
      BY <2>4, <3>2, ConstantsAssumption DEF ValueOf, Redone
    <3>4. e.op = "update"
      BY <2>5, <3>2, <3>3 DEF Inv, Basics, EntryInv, OpOf
    <3> QED BY <3>3, <3>4
  <2>7. Bad(EntryAt(files, q), d)
    BY <2>3, <2>4, <2>6 DEF Bad
  <2>8. /\ \A p \in At(files) : Mine(EntryAt(files, p), d) => ~Before(p, q)
        /\ MineThere(d)
    BY <2>1, <2>7 DEF Inv, Runs, OrderInv
  <2>9. \A x : Mine(x, d)' <=> Mine(x, d)
    BY <2>2 DEF Mine, Redone
  <2> QED BY <1>0, <2>8, <2>2 DEF MineThere, Mine, Redone
<1> QED BY <1>1, <1>2

LEMMA CommitCov ==
  ASSUME Inv, ReqTypes', ReqStep, NEW r \in Requests, NEW D \in SUBSET Docs, CommitStep(r, D)
  PROVE  CovInv'
<1> SUFFICES ASSUME NEW d \in Docs, Clean(d)', d \notin pruned', NEW v, v \in Starts(d)', v \notin Allowed(d)'
             PROVE  MineThere(d)'
  BY DEF CovInv
<1>0. files' = files
  BY DEF CommitStep
<1>1. CASE d \in D
  <2>1. req[r].kind \in {"insert", "batch", "delete"} /\ last'[d] = [by |-> r, val |-> Meant(r)]
    BY <1>1, CommitClean, NoteFacts DEF CommitStep
  <2>2. PICK e \in EntriesIn(files) : e.by = r /\ d \in e.docs
    <3>1. \A x \in D : x \notin pruned' => phase # "closing" /\ \E e \in EntriesIn(files) : e.by = r /\ x \in e.docs
      BY NoteFacts DEF CommitStep
    <3>2. \E e \in EntriesIn(files) : e.by = r /\ d \in e.docs
      BY <1>1, <3>1
    <3> QED BY <3>2
  <2>3. e.op = OpOf(req[r].kind)
    BY <2>2 DEF Inv, Basics, EntryInv, Entries
  <2>4. Redone(e, d)
    BY <2>1, <2>2, <2>3 DEF Redone, OpOf
  <2>5. PICK p \in At(files) : e = EntryAt(files, p)
    BY EntriesAt
  <2> QED BY <1>0, <2>1, <2>2, <2>4, <2>5 DEF MineThere, Mine, Redone
<1>2. CASE d \notin D
  <2>1. Clean(d)
    BY <1>2, CommitClean
  <2>2. last'[d] = last[d] /\ d \notin pruned
    BY <1>2, NoteFacts DEF CommitStep
  <2>3. Meant(r) \in Value
    BY DEF Meant, Value
  <2>4. Starts(d)' = Starts(d)
    <3>1. Starts(d)' = Starts(d) \cup IF d \in D THEN {Meant(r)} ELSE {}
      BY <2>3, StoreFacts DEF CommitStep, Inv, Basics, Types, TypeInv
    <3> QED BY <1>2, <3>1
  <2>5. v \in Allowed(d) \/ MineThere(d)
    BY <2>1, <2>2, <2>4 DEF Inv, Runs, CovInv
  <2>6. ASSUME v \in Allowed(d) PROVE FALSE
    <3>1. v = r /\ req[r].kind = "update"
      BY <1>2, <2>1, <2>6, CommitAllowed
    <3>2. v # Gone
      BY <3>1, ConstantsAssumption
    <3> QED BY <2>4, <3>1, <3>2 DEF Inv, Basics, SourceInv, CommitStep, Active
  <2> QED BY <1>0, <2>2, <2>5, <2>6 DEF MineThere, Mine, Redone
<1> QED BY <1>1, <1>2

LEMMA CommitOwn ==
  ASSUME Inv, ReqTypes', ReqStep, NEW r \in Requests, NEW D \in SUBSET Docs, CommitStep(r, D)
  PROVE  BatchInv' /\ DelInv' /\ OwnInv'
<1>1. \A q \in Requests \ {r} : \A d \in D : d \in Pending(q) => d \in raced'
  <2>1. ASSUME NEW q \in Requests \ {r}, NEW d \in D, d \in Pending(q) PROVE d \in raced'
    <3>1. d \in req[r].overlap
      BY <2>1 DEF CommitStep, Inv, Basics, Types, ReqTypes, OverlapInv
    <3> QED BY <3>1, NoteFacts DEF CommitStep
  <2> QED BY <2>1
<1>2. /\ \A d \in D : last'[d] = [by |-> r, val |-> Meant(r)]
      /\ \A d \in Docs \ D : last'[d] = last[d]
      /\ \A d \in Docs \ D : d \in raced' <=> d \in raced
      /\ req[r].kind # "update" => \A d \in D : d \notin excused'
      /\ excused' \subseteq excused
  BY NoteFacts DEF CommitStep
<1>3. \A q \in Requests : req'[q] \in Request
  BY DEF ReqTypes
<1>4. BatchInv'
  <2> SUFFICES ASSUME NEW q \in Requests, Active(q)', req'[q].kind = "batch",
                      NEW d \in req'[q].docs \ req'[q].todo, d \notin raced'
               PROVE  last'[d] = [by |-> q, val |-> q] /\ d \notin excused'
    BY DEF BatchInv, BatchOf
  <2>0. d \in Docs
    BY <1>3 DEF Request
  <2>1. CASE q = r
    <3>1. /\ req[r].kind = "batch" /\ req'[r].docs = req[r].docs /\ req'[r].todo = req[r].todo \ D /\ Active(r)
      BY <2>1 DEF CommitStep, Active
    <3>2. CASE d \in D
      BY <1>2, <2>1, <3>1, <3>2 DEF Meant
    <3>3. CASE d \notin D
      <4>1. d \in req[r].docs \ req[r].todo /\ d \notin raced
        BY <1>2, <2>0, <2>1, <3>1, <3>3
      <4> QED BY <1>2, <2>0, <2>1, <3>1, <3>3, <4>1 DEF Inv, Runs, BatchInv, BatchOf
    <3> QED BY <3>2, <3>3
  <2>2. CASE q # r
    <3>1. Same(q) /\ Active(q) /\ req[q].kind = "batch" /\ d \in req[q].docs \ req[q].todo
      BY <2>2 DEF CommitStep, Same, Active
    <3>2. d \in Pending(q)
      BY <3>1 DEF Pending
    <3>3. d \notin D
      BY <1>1, <2>2, <3>2
    <3>4. d \notin raced
      BY <1>2, <2>0, <3>3
    <3> QED BY <1>2, <2>0, <3>1, <3>3, <3>4 DEF Inv, Runs, BatchInv, BatchOf
  <2> QED BY <2>1, <2>2
<1>5. DelInv'
  <2> SUFFICES ASSUME NEW q \in Requests, Active(q)', req'[q].kind = "delete",
                      NEW d \in req'[q].docs \ req'[q].match, d \in Readable'
               PROVE  d \in raced'
    BY DEF DelInv, DelOf
  <2>0. d \in Docs
    BY <1>3 DEF Request
  <2>1. q # r
    BY DEF CommitStep, Active
  <2>2. Active(q) /\ req[q].kind = "delete" /\ d \in req[q].docs \ req[q].match
    BY <2>1 DEF CommitStep, Same, Active
  <2>3. CASE d \in D
    BY <1>1, <2>1, <2>2, <2>3 DEF Pending
  <2>4. CASE d \notin D
    <3>1. Meant(r) \in Value
      BY DEF Meant, Value
    <3>2. Val(d)' = Val(d)
      <4>1. Val(d)' = IF d \in D THEN Meant(r) ELSE Val(d)
        BY <2>0, <3>1, StoreFacts DEF CommitStep, Inv, Basics, Types, TypeInv
      <4> QED BY <2>4, <4>1
    <3>3. PICK v : v = Val(d)
      OBVIOUS
    <3>4. v \in Starts(d)
      BY <2>0, <3>3, StartsType, ValStarts DEF Inv, Basics, Types, TypeInv
    <3>5. KindOf(v)' = KindOf(v)
      BY <2>0, <3>4, StartKind DEF Inv, Basics
    <3>6. d \in Readable
      BY <2>0, <3>2, <3>3, <3>5 DEF Readable, Present, KindOf
    <3> QED BY <1>2, <2>0, <2>2, <2>4, <3>6 DEF Inv, Runs, DelInv, DelOf
  <2> QED BY <2>3, <2>4
<1>6. OwnInv'
  <2>1. OwnOf(r)'
    <3>1. \A d : (OwnLast(r, d)' <=> OwnLast(r, d)) /\ (OwnThere(r, d)' <=> OwnThere(r, d))
      BY DEF OwnLast, OwnThere, Redone, CommitStep
    <3>2. OwnOf(r)
      BY DEF Inv, Runs, OwnInv
    <3>3. Active(r)' => /\ Active(r) /\ req[r].kind = "batch" /\ req'[r].kind = "batch"
                        /\ req'[r].docs = req[r].docs /\ req'[r].overlap = req[r].overlap
      BY DEF CommitStep, Active
    <3> QED BY <3>1, <3>2, <3>3 DEF OwnOf, HasLogged
  <2> QED BY <2>1, OwnKept DEF CommitStep, Inv, Runs
<1> QED BY <1>4, <1>5, <1>6

LEMMA CommitInv ==
  ASSUME Inv, ReqTypes', ReqStep, NEW r \in Requests, NEW D \in SUBSET Docs, CommitStep(r, D)
  PROVE  Inv'
<1>1. Logs' /\ Basics' /\ TailInv'
  BY CommitBasics
<1>2. Runs'
  BY <1>1, CommitOwn, CommitOrder, CommitCov DEF Runs
<1>3. Vals'
  <2>1. ASSUME NEW d \in Docs, d \notin excused' PROVE Val(d)' \in Known(d)'
    <3>1. Meant(r) \in Value
      BY DEF Meant, Value
    <3>2. Val(d)' = IF d \in D THEN Meant(r) ELSE Val(d)
      BY <3>1, StoreFacts DEF CommitStep, Inv, Basics, Types, TypeInv
    <3>3. CASE d \in D
      <4>1. last'[d] = [by |-> r, val |-> Meant(r)]
        BY <3>3, NoteFacts DEF CommitStep
      <4> QED BY <3>2, <3>3, <4>1 DEF Known
    <3>4. CASE d \notin D
      <4>1. last'[d] = last[d] /\ d \notin excused
        BY <2>1, <3>4, NoteFacts DEF CommitStep
      <4>2. Val(d) \in Known(d)
        BY <4>1 DEF Inv, Vals, ValInv, CommitStep
      <4>3. Known(d) \subseteq Known(d)'
        BY <4>1, KnownGrows
      <4> QED BY <3>2, <3>4, <4>2, <4>3
    <3> QED BY <3>3, <3>4
  <2>2. ValInv'
    BY <2>1 DEF ValInv
  <2> QED BY <2>2 DEF Vals, NowInv, DownInv, ReplayInv, CommitStep
<1> QED BY <1>1, <1>2, <1>3 DEF Inv

-----------------------------------------------------------------------------
(* Commits, and the shape of each change to the log.                       *)

LEMMA InsertCommitStep ==
  ASSUME Inv, NEW r \in Requests, NEW D \in SUBSET Docs, InsertCommit(r, D) PROVE Inv'
<1>1. /\ ReqTypes' /\ ReqStep /\ \A q \in Requests \ {r} : Same(q)
      /\ Active(r) /\ req[r].kind \in {"insert", "large", "batch"} /\ req'[r].kind = req[r].kind
      /\ D # {} /\ D \subseteq req[r].todo
      /\ \/ req'[r].pc = "done" /\ req'[r].docs = {} /\ D = req[r].todo
         \/ /\ Active(r)' /\ req'[r].docs = req[r].docs /\ req'[r].todo = req[r].todo \ D
            /\ req'[r].match = req[r].match /\ req'[r].overlap = req[r].overlap
            /\ req[r].kind = "batch"
  BY InsertCommitReq DEF Inv, Basics, Types
<1>2. /\ Store(D, r) /\ Note(r, D) /\ req[r].pc = "commit"
      /\ UNCHANGED <<policy, files, segs, marker, phase, replay, applied, admin>> /\ phase \in {"up", "closing"}
  BY DEF InsertCommit, logVars, runVars
<1>3. Meant(r) = r /\ HasLogged(r)
  BY <1>1 DEF Meant, HasLogged
<1>4. ReqInv!(r)
  BY DEF Inv, Basics, Types, ReqTypes, ReqInv
<1>5. D \subseteq Pending(r)
  BY <1>1, <1>4 DEF Pending
<1>6. D = req[r].todo => \A d \in req[r].docs \ D : req[r].kind = "batch" /\ d \notin req[r].todo
  BY <1>1, <1>4
<1>7. CommitStep(r, D)
  <2>1. CASE req'[r].pc = "done" /\ D = req[r].todo
    BY <1>1, <1>2, <1>3, <1>5, <1>6, <2>1 DEF CommitStep
  <2>2. CASE /\ Active(r)' /\ req'[r].docs = req[r].docs /\ req'[r].todo = req[r].todo \ D
             /\ req'[r].overlap = req[r].overlap /\ req[r].kind = "batch"
    BY <1>1, <1>2, <1>3, <1>5, <2>2 DEF CommitStep
  <2> QED BY <1>1, <2>1, <2>2
<1> QED BY <1>1, <1>7, CommitInv

LEMMA FilterCommitStep == ASSUME Inv, NEW r \in Requests, FilterCommit(r) PROVE Inv'
<1>1. /\ phase \in {"up", "closing"} /\ req[r].pc = "commit" /\ req[r].kind \in {"update", "delete"}
      /\ UNCHANGED <<policy, files, segs, marker, phase, replay, applied, admin>>
  BY DEF FilterCommit, logVars, runVars
<1>2. Active(r)
  BY <1>1 DEF Active
<1>3. CASE /\ req' = [req EXCEPT ![r] = Lost(r)]
           /\ UNCHANGED <<dbVars, ghostVars>>
  <2>1. UNCHANGED <<base, tail, last, raced, pruned, excused>>
    BY <1>3 DEF dbVars, ghostVars
  <2> QED BY <1>1, <1>2, <1>3, <2>1, EndedStep
<1>4. CASE /\ req' = [req EXCEPT ![r] = Done(r)]
           /\ Store(req[r].match, IF req[r].kind = "delete" THEN Gone ELSE r)
           /\ Note(r, req[r].match)
  <2>1. PICK D : D = req[r].match
    OBVIOUS
  <2>2. ReqInv!(r) /\ req[r] \in Request
    BY DEF Inv, Basics, Types, ReqTypes, ReqInv
  <2>3. D \in SUBSET Docs /\ D \subseteq req[r].docs /\ req[r].todo = {}
    BY <1>1, <2>1, <2>2 DEF Request
  <2>4. PICK rec \in {Done(r), Lost(r)} : rec = Done(r)
    OBVIOUS
  <2>5. req[r].pc \notin {"done", "lost"} /\ req' = [req EXCEPT ![r] = rec] /\ ReqTypes
    BY <1>1, <1>4, <2>4 DEF Inv, Basics, Types
  <2>6. /\ ReqTypes' /\ ReqStep /\ (\A q \in Requests \ {r} : Same(q)) /\ req'[r].kind = req[r].kind
        /\ req'[r].pc = "done"
    BY <2>4, <2>5, EndedReq
  <2>7. D \subseteq Pending(r) /\ (D # {} => HasLogged(r))
    BY <1>1, <1>2, <2>1, <2>3 DEF Pending, HasLogged
  <2>8. Store(D, Meant(r)) /\ Note(r, D)
    BY <1>4, <2>1 DEF Meant
  <2>9. CommitStep(r, D)
    BY <1>1, <1>2, <2>1, <2>6, <2>7, <2>8 DEF CommitStep
  <2> QED BY <2>3, <2>6, <2>9, CommitInv
<1> QED BY <1>3, <1>4 DEF FilterCommit

-----------------------------------------------------------------------------
LEMMA LoggedStep ==
  ASSUME Inv, NEW es \in Seq(LogEntry), SetLog(Logged(files, segs, es))
  PROVE  LogStep(ToSet(es)) /\ Logs' /\ FilesOK(files') /\ pruned' \in SUBSET Docs
<1>1. Lists(segs, files) /\ FilesOK(files) /\ ~Full(files, segs) /\ pruned \in SUBSET Docs
  BY DEF Inv, Logs, SegInv, NotFull, Basics, Types, TypeInv
<1>2. PICK new : new = Logged(files, segs, es)
  OBVIOUS
<1>3. policy' = policy /\ files' = new.files /\ segs' = new.segs /\ pruned' = pruned \cup PrunedBy(new.files)
  BY <1>2 DEF SetLog
<1>4. /\ Extends(files, new.files, ToSet(es)) /\ FilesOK(new.files)
      /\ Lists(new.segs, new.files) /\ ~Full(new.files, new.segs)
      /\ (policy = "always" /\ \A n \in DOMAIN files : files[n].synced = Len(files[n].data)) =>
           \A n \in DOMAIN new.files : new.files[n].synced = Len(new.files[n].data)
  BY <1>1, <1>2, LoggedExtends
<1>5. Synced'
  BY <1>3, <1>4 DEF Synced, Inv, Logs
<1>6. SegInv' /\ NotFull'
  BY <1>3, <1>4 DEF SegInv, NotFull
<1>7. PrunedBy(files') \subseteq Docs
  BY <1>1, UnsyncedDocs DEF PrunedBy, Unstable, Inv, Basics
<1> QED BY <1>1, <1>3, <1>4, <1>5, <1>6, <1>7 DEF LogStep, Logs

LEMMA RotatedStep ==
  ASSUME Inv, SetLog(Rotated(files, segs))
  PROVE  /\ LogStep({}) /\ Logs' /\ FilesOK(files') /\ pruned' \in SUBSET Docs
         /\ files'[Last(segs')].data = <<>>
<1>1. Lists(segs, files) /\ FilesOK(files) /\ ~Full(files, segs) /\ pruned \in SUBSET Docs
  BY DEF Inv, Logs, SegInv, NotFull, Basics, Types, TypeInv
<1>2. PICK new : new = Rotated(files, segs)
  OBVIOUS
<1>3. policy' = policy /\ files' = new.files /\ segs' = new.segs /\ pruned' = pruned \cup PrunedBy(new.files)
  BY <1>2 DEF SetLog
<1>4. /\ Extends(files, new.files, {}) /\ FilesOK(new.files) /\ new.files[Last(new.segs)] = NewFile
      /\ \A n \in DOMAIN new.files : new.files[n] = NewFile \/ (n \in DOMAIN files /\ new.files[n] = files[n])
  BY <1>1, <1>2, RotatedExtends
<1>5. Lists(new.segs, new.files)
  BY <1>1, <1>2, RotatedLists
<1>6. NewFile.data = <<>> /\ NewFile.synced = 0 /\ Len(<<>>) = 0
  BY DEF NewFile
<1>7. Synced'
  BY <1>3, <1>4, <1>6 DEF Synced, Inv, Logs
<1>8. ~Full(new.files, new.segs)
  <2>1. new.files[new.segs[Len(new.segs)]] = NewFile
    BY <1>4 DEF Last
  <2> QED BY <1>6, <2>1, ConstantsAssumption DEF Full
<1>9. SegInv' /\ NotFull'
  BY <1>3, <1>5, <1>8 DEF SegInv, NotFull
<1>10. PrunedBy(files') \subseteq Docs
  BY <1>1, UnsyncedDocs DEF PrunedBy, Unstable, Inv, Basics
<1> QED BY <1>1, <1>3, <1>4, <1>6, <1>7, <1>9, <1>10 DEF LogStep, Logs

LEMMA OnlyCurrentStep ==
  ASSUME Inv, SetLog(OnlyCurrent), files[Last(segs)].data = <<>>
  PROVE  /\ LogStep({}) /\ Logs' /\ FilesOK(files') /\ pruned' \in SUBSET Docs
         /\ At(files') = {} /\ EntriesIn(files') = {}
         /\ EntriesIn(files) \subseteq Deleted(files')
<1>1. Lists(segs, files) /\ FilesOK(files) /\ ~Full(files, segs) /\ pruned \in SUBSET Docs
  BY DEF Inv, Logs, SegInv, NotFull, Basics, Types, TypeInv
<1>2. PICK new : new = OnlyCurrent
  OBVIOUS
<1>3. policy' = policy /\ files' = new.files /\ segs' = new.segs /\ pruned' = pruned \cup PrunedBy(new.files)
  BY <1>2 DEF SetLog
<1>4. /\ FilesOK(new.files) /\ At(new.files) = {}
      /\ EntriesIn(new.files) = {} /\ Lists(new.segs, new.files)
      /\ ~Full(new.files, new.segs)
      /\ \A n \in DOMAIN new.files : n \in DOMAIN files /\ new.files[n] = files[n]
      /\ \A e \in EntriesIn(files) : \E n \in DOMAIN files \ DOMAIN new.files : e \in ToSet(files[n].data)
  BY <1>1, <1>2, OnlyCurrentLog
<1>5. Extends(files, new.files, {})
  <2>1. \A p \in At(files) : p[1] \in DOMAIN files /\ p[2] \in DOMAIN files[p[1]].data /\ p = <<p[1], p[2]>>
    BY AtFacts
  <2>2. \A n \in DOMAIN new.files : \A i \in DOMAIN new.files[n].data : <<n, i>> \in At(new.files)
    BY AtFacts
  <2>3. ASSUME NEW p \in At(files) PROVE p[1] \in DOMAIN files \ DOMAIN new.files
    BY <1>4, <2>1, <2>2
  <2> QED BY <1>4, <2>3 DEF Extends
<1>6. Synced'
  BY <1>3, <1>4 DEF Synced, Inv, Logs
<1>7. SegInv' /\ NotFull'
  BY <1>3, <1>4 DEF SegInv, NotFull
<1>8. PrunedBy(files') \subseteq Docs
  BY <1>1, UnsyncedDocs DEF PrunedBy, Unstable, Inv, Basics
<1>9. EntriesIn(files) \subseteq Deleted(files')
  BY <1>3, <1>4 DEF Deleted
<1> QED BY <1>1, <1>3, <1>4, <1>5, <1>6, <1>7, <1>8, <1>9 DEF LogStep, Logs

-----------------------------------------------------------------------------
(* A request logs.                                                         *)

(* r logs S, its entries about the documents it will have entries about. *)
LogsStep(r, S) ==
  /\ req[r].pc \in {"idle", "log"} /\ Active(r)' /\ HasLogged(r)'
  /\ \A q \in Requests \ {r} : Same(q)
  /\ \A e \in S : /\ e \in LogEntry /\ e.by = r /\ e.op = OpOf(req'[r].kind) /\ e.docs \subseteq req'[r].docs
                  /\ \A q \in Requests \ {r} : e.docs \cap Pending(q) \subseteq req'[q].overlap
  /\ req'[r].kind \in {"insert", "batch", "delete"} =>
       \A d \in req'[r].docs : \E e \in S : d \in e.docs
  /\ req[r].pc = "log" => /\ req'[r].docs = req[r].docs /\ req'[r].kind = req[r].kind
                          /\ req[r].overlap \subseteq req'[r].overlap
  /\ UNCHANGED <<policy, marker, base, tail, phase, replay, applied, admin, last, raced, excused>>
  /\ phase = "up" /\ admin # "rotated"

LEMMA EntriesAfter ==
  ASSUME NEW S, LogStep(S), UNCHANGED replay PROVE Entries' \subseteq Entries \cup S
<1>1. EntriesIn(files') \subseteq EntriesIn(files) \cup S
  BY ExtendsKeeps DEF LogStep
<1> QED BY <1>1 DEF Entries

(* The entries others log leave those of q where they are. *)
LEMMA OthersOwn ==
  ASSUME Inv, NEW q \in Requests, Same(q), NEW S, LogStep(S),
         \A e \in S : e.by # q /\ e.docs \cap Pending(q) \subseteq req'[q].overlap
  PROVE  OwnOf(q)'
<1>11. /\ \A p \in At(files') : \/ p \in At(files) /\ EntryAt(files', p) = EntryAt(files, p)
                                \/ EntryAt(files', p) \in S
       /\ \A p, x \in At(files) : x \in At(files') /\ Before(x, p) => p \in At(files')
       /\ \A p \in At(files) : p \in At(files') => EntryAt(files', p) = EntryAt(files, p)
  BY ExtendsKeeps DEF LogStep, Extends
<1>13. \A p, x \in At(files) : p # x => Before(p, x) \/ Before(x, p)
  BY BeforeOrder DEF LogStep
<1>15. \A p \in At(files) : EntryAt(files, p) \in Entries
  BY EntriesAt DEF Entries
<1> SUFFICES ASSUME Active(q), HasLogged(q), NEW d \in req[q].docs, d \notin req'[q].overlap
             PROVE  OwnLast(q, d)' /\ (req[q].kind \in {"insert", "batch", "delete"} => OwnThere(q, d)')
  BY DEF OwnOf, Same, Active, HasLogged
<1>1. d \in req[q].docs \ req[q].overlap
  BY DEF Same
<1>2. OwnLast(q, d) /\ (req[q].kind \in {"insert", "batch", "delete"} => OwnThere(q, d))
  BY <1>1 DEF Inv, Runs, OwnInv, OwnOf
<1>3. req[q].kind # "update" => \A e \in S : d \notin e.docs
  <2>1. req[q].kind # "update" => d \in Pending(q)
    BY DEF Pending
  <2> QED BY <2>1
<1>4. OwnLast(q, d)'
  <2> SUFFICES ASSUME NEW p \in At(files'), NEW x \in At(files'), Before(p, x),
                      Redone(EntryAt(files', p), d), EntryAt(files', p).by = q,
                      Redone(EntryAt(files', x), d)
               PROVE  EntryAt(files', x).by = q
    BY DEF OwnLast, Redone
  <2>1. p \in At(files) /\ EntryAt(files', p) = EntryAt(files, p)
    BY <1>11
  <2>2. req[q].kind # "update"
    <3>1. EntryAt(files, p).op = OpOf(req[q].kind)
      BY <1>15, <2>1 DEF Inv, Basics, EntryInv
    <3> QED BY <2>1, <3>1 DEF Redone, OpOf
  <2>3. x \in At(files) /\ EntryAt(files', x) = EntryAt(files, x)
    BY <1>11, <1>3, <2>2 DEF Redone
  <2> QED BY <1>2, <2>1, <2>3 DEF OwnLast
<1>5. ASSUME req[q].kind \in {"insert", "batch", "delete"} PROVE OwnThere(q, d)'
  <2> SUFFICES ASSUME NEW x \in At(files'), Redone(EntryAt(files', x), d)
               PROVE  \E p \in At(files') : Redone(EntryAt(files', p), d) /\ EntryAt(files', p).by = q
    BY DEF OwnThere, Redone
  <2>1. x \in At(files) /\ EntryAt(files', x) = EntryAt(files, x)
    BY <1>11, <1>3, <1>5 DEF Redone
  <2>2. PICK p \in At(files) : Redone(EntryAt(files, p), d) /\ EntryAt(files, p).by = q
    BY <1>2, <1>5, <2>1 DEF OwnThere
  <2>3. CASE p \in At(files')
    BY <1>11, <2>2, <2>3
  <2>4. CASE p \notin At(files')
    <3>1. Before(p, x)
      BY <1>11, <1>13, <2>1, <2>4
    <3>2. EntryAt(files, x).by = q
      BY <1>2, <2>1, <2>2, <3>1 DEF OwnLast
    <3> QED BY <2>1, <3>2
  <2> QED BY <2>3, <2>4
<1> QED BY <1>4, <1>5

LEMMA LogsOwn ==
  ASSUME Inv, ReqTypes', ReqStep, EntryInv', NEW r \in Requests, NEW S, LogsStep(r, S), LogStep(S)
  PROVE  OwnInv'
<1>1. /\ \A p \in At(files') : \/ p \in At(files) /\ EntryAt(files', p) = EntryAt(files, p)
                               \/ EntryAt(files', p) \in S /\ \A q \in At(files) : Before(q, p)
      /\ \A p, q \in At(files) : q \in At(files') /\ Before(q, p) => p \in At(files')
      /\ \A q \in At(files) : q \in At(files') =>
           \A e \in S : \E p \in At(files') : EntryAt(files', p) = e /\ \A x \in At(files) : Before(x, p)
      /\ \A p \in At(files) : p \in At(files') => EntryAt(files', p) = EntryAt(files, p)
  BY ExtendsKeeps DEF LogStep, Extends
<1>2. \A p, q \in At(files') : ~(Before(p, q) /\ Before(q, p))
  BY BeforeOrder DEF LogStep
<1>3. \A p, q \in At(files) : p # q => Before(p, q) \/ Before(q, p)
  BY BeforeOrder DEF LogStep
<1>4. \A e \in S : e.by = r
  BY DEF LogsStep
<1>5. \A p \in At(files) : EntryAt(files, p) \in Entries
  BY EntriesAt DEF Entries
<1>6. ASSUME NEW q \in Requests \ {r} PROVE OwnOf(q)'
  BY <1>4, OthersOwn DEF LogsStep
<1>7. OwnOf(r)'
  <2> SUFFICES ASSUME NEW d \in req'[r].docs, d \notin req'[r].overlap
               PROVE  OwnLast(r, d)' /\ (req'[r].kind \in {"insert", "batch", "delete"} => OwnThere(r, d)')
    BY DEF OwnOf
  <2>1. OwnLast(r, d)'
    <3> SUFFICES ASSUME NEW p \in At(files'), NEW x \in At(files'), Before(p, x),
                        Redone(EntryAt(files', p), d), EntryAt(files', p).by = r,
                        Redone(EntryAt(files', x), d)
                 PROVE  EntryAt(files', x).by = r
      BY DEF OwnLast, Redone
    <3>1. CASE EntryAt(files', x) \in S
      BY <1>4, <3>1
    <3>2. CASE x \in At(files) /\ EntryAt(files', x) = EntryAt(files, x)
      <4>1. p \in At(files) /\ EntryAt(files', p) = EntryAt(files, p)
        BY <1>1, <1>2, <3>2
      <4>2. EntryAt(files, p) \in Entries /\ EntryAt(files, p).by = r
        BY <1>5, <4>1
      <4>3. req[r].pc = "log" /\ Active(r)
        BY <4>2 DEF LogsStep, Inv, Basics, EntryInv, Active
      <4>4. HasLogged(r)
        BY <4>2, <4>3 DEF Inv, Basics, EntryInv
      <4>5. d \in req[r].docs \ req[r].overlap
        BY <4>3 DEF LogsStep
      <4>6. OwnLast(r, d)
        BY <4>3, <4>4, <4>5 DEF Inv, Runs, OwnInv, OwnOf
      <4> QED BY <3>2, <4>1, <4>6 DEF OwnLast
    <3> QED BY <1>1, <3>1, <3>2
  <2>2. ASSUME req'[r].kind \in {"insert", "batch", "delete"} PROVE OwnThere(r, d)'
    <3> SUFFICES ASSUME NEW x \in At(files'), Redone(EntryAt(files', x), d)
                 PROVE  \E p \in At(files') : Redone(EntryAt(files', p), d) /\ EntryAt(files', p).by = r
      BY DEF OwnThere, Redone
    <3>1. CASE EntryAt(files', x) \in S
      BY <1>4, <3>1
    <3>2. CASE x \in At(files)
      <4>1. PICK e \in S : d \in e.docs
        BY <2>2 DEF LogsStep
      <4>2. PICK p \in At(files') : EntryAt(files', p) = e
        BY <1>1, <3>2, <4>1
      <4>3. Redone(e, d) /\ e.by = r
        BY <2>2, <4>1 DEF LogsStep, Redone, OpOf
      <4> QED BY <4>2, <4>3
    <3> QED BY <1>1, <3>1, <3>2
  <2> QED BY <2>1, <2>2
<1> QED BY <1>6, <1>7 DEF OwnInv

LEMMA LogsInv ==
  ASSUME Inv, ReqTypes', ReqStep, NEW r \in Requests, NEW S, LogsStep(r, S), LogStep(S),
         Logs', pruned' \in SUBSET Docs, BatchOf(r)', DelOf(r)'
  PROVE  Inv'
<1>1. Types'
  BY DEF Inv, Basics, Types, TypeInv, ReqTypes, LogStep, LogsStep
<1>2. EndsNone
  BY DEF EndsNone, LogsStep, Same, Active
<1>3. \A d \in Docs : Val(d)' = Val(d) /\ Starts(d)' = Starts(d)
  BY DEF Val, Starts, LogsStep
<1>4. PhaseInv'
  BY DEF Inv, Basics, PhaseInv, LogsStep
<1>5. Entries' \subseteq Entries \cup S
  BY EntriesAfter DEF LogsStep
<1>6. EntryInv'
  <2>1. \A e \in S : /\ req'[e.by].pc # "idle" /\ e.op = OpOf(req'[e.by].kind)
                     /\ Active(e.by)' => HasLogged(e.by)'
    BY DEF LogsStep, Active
  <2> QED BY <1>5, <2>1, EntryKept DEF Inv, Basics
<1>7. LastInv'
  <2>1. \A d \in Docs : last[d].by # r
    BY DEF LogsStep, Inv, Basics, LastInv
  <2>2. \A e \in S : \A d \in Docs : e.by = last[d].by => ValueOf(e) = last[d].val
    BY <2>1 DEF LogsStep
  <2> QED BY <1>5, <2>2, LastKept DEF Inv, Basics, LogsStep
<1>8. SourceInv'
  BY <1>3, SourceKept DEF Inv, Basics
<1>9. BatchInv'
  <2>1. ASSUME NEW q \in Requests \ {r} PROVE BatchOf(q)'
    BY DEF LogsStep, Same, Active, Inv, Runs, BatchInv, BatchOf
  <2> QED BY <2>1 DEF BatchInv
<1>10. DelInv'
  BY <1>3, DelKept DEF Inv, Basics, Runs, LogsStep
<1>11. OwnInv'
  BY <1>6, LogsOwn
<1>12. UNCHANGED <<base, tail, last, excused, raced>> /\ ~applied /\ applied' = applied
  BY NotApplied DEF LogsStep
<1>13. OrderInv'
  <2>1. ASSUME NEW e \in S, NEW d \in Docs, Bad(e, d)' PROVE FALSE
    <3>1. d \in req'[r].docs /\ e.by = r /\ e.op = OpOf(req'[r].kind)
      BY <2>1 DEF Bad, Redone, LogsStep
    <3>2. ValueOf(e) = Meant(r)'
      BY <3>1 DEF ValueOf, Meant, OpOf
    <3>3. Meant(r)' \in Allowed(d)'
      BY <3>1 DEF Allowed, Unfinished, LogsStep
    <3> QED BY <2>1, <3>2, <3>3 DEF Bad, ValueOf
  <2>2. \A e \in S : \A d \in Docs : ~Bad(e, d)'
    BY <2>1
  <2>3. LastInv /\ OrderInv /\ Types
    BY DEF Inv, Basics, Runs
  <2> QED BY <1>2, <1>12, <2>2, <2>3, OrderLog
<1>14. CovInv'
  <2>1. LastInv /\ CovInv /\ Types
    BY DEF Inv, Basics, Runs
  <2> QED BY <1>1, <1>2, <1>6, <1>7, <1>12, <2>1, CovLog
<1>15. TailInv'
  BY <1>12, TailLog DEF Inv, Basics, Runs
<1>16. Vals'
  <2>1. \A d \in Docs : Known(d) \subseteq Known(d)'
    BY <1>12, KnownGrows
  <2>2. ValInv'
    BY <1>3, <2>1 DEF ValInv, Inv, Vals, LogsStep
  <2> QED BY <2>2 DEF Vals, NowInv, DownInv, ReplayInv, LogsStep
<1> QED BY <1>1, <1>4, <1>6, <1>7, <1>8, <1>9, <1>10, <1>11, <1>13, <1>14, <1>15, <1>16 DEF Inv, Basics, Runs

-----------------------------------------------------------------------------
(* Every step of a request.                                                *)

(* The sequence of the entries of a request, one for each document. *)
EntriesOf(op, D, r) == {[op |-> op, docs |-> {d}, by |-> r] : d \in D}

LEMMA EntrySeq ==
  ASSUME NEW D \in SUBSET Docs, NEW op \in {"insert", "large", "update", "delete"}, NEW r \in Requests
  PROVE  /\ SetToSeq(EntriesOf(op, D, r)) \in Seq(LogEntry)
         /\ ToSet(SetToSeq(EntriesOf(op, D, r))) = EntriesOf(op, D, r) /\ EntriesOf(op, D, r) \subseteq LogEntry
<1>0. PICK S : S = EntriesOf(op, D, r)
  OBVIOUS
<1>1. IsFiniteSet(S)
  <2>1. IsFiniteSet(D)
    BY ConstantsAssumption, FS_Subset
  <2>2. [d \in D |-> [op |-> op, docs |-> {d}, by |-> r]] \in Surjection(D, S)
    BY <1>0 DEF Surjection, EntriesOf
  <2> QED BY <2>1, <2>2, FS_Surjection
<1>2. PICK es : es = SetToSeq(S)
  OBVIOUS
<1>3. es \in Seq(S) /\ ToSet(es) = S
  BY <1>1, <1>2, SetToSeqFacts
<1>4. S \subseteq LogEntry
  BY <1>0 DEF LogEntry, EntriesOf
<1>5. es \in Seq(LogEntry)
  <2>1. \A i \in 1 .. Len(es) : es[i] \in LogEntry
    BY <1>3, <1>4
  <2>2. es = [i \in 1 .. Len(es) |-> es[i]] /\ Len(es) \in Nat
    BY <1>3
  <2> QED BY <2>1, <2>2
<1> QED BY <1>0, <1>2, <1>3, <1>4, <1>5

LEMMA InsertLogStep ==
  ASSUME Inv, NEW r \in Requests, NEW kind \in {"insert", "large", "batch"}, NEW D \in SUBSET Docs,
         kind \in {"insert", "large"} => \E d \in Docs : D = {d}, InsertLog(r, kind, D)
  PROVE  Inv'
<1>1. /\ ReqTypes' /\ ReqStep /\ \A q \in Requests \ {r} : Same(q)
      /\ req[r].pc = "idle" /\ req'[r].pc = "commit" /\ req'[r].kind = kind /\ req'[r].docs = D
      /\ req'[r].todo = D /\ req'[r].match = {}
      /\ \A q \in Requests \ {r} : D \cap Pending(q) \subseteq req'[q].overlap
  BY InsertLogReq DEF Inv, Basics, Types
<1>2. PICK op : op = IF kind = "large" THEN kind ELSE "insert"
  OBVIOUS
<1>5. op \in {"insert", "large", "update", "delete"} /\ op = OpOf(kind)
  BY <1>2 DEF OpOf
<1>3. PICK S : S = EntriesOf(op, D, r)
  OBVIOUS
<1>4. PICK es : es = SetToSeq(S)
  OBVIOUS
<1>6. es \in Seq(LogEntry) /\ ToSet(es) = S /\ S \subseteq LogEntry
  BY <1>3, <1>4, <1>5, EntrySeq
<1>7. SetLog(Logged(files, segs, es))
  BY <1>2, <1>3, <1>4 DEF InsertLog, EntriesOf
<1>8. LogStep(S) /\ Logs' /\ FilesOK(files') /\ pruned' \in SUBSET Docs
  BY <1>6, <1>7, LoggedStep
<1>9. /\ UNCHANGED <<policy, marker, base, tail, phase, replay, applied, admin, last, raced, excused>>
      /\ phase = "up" /\ admin # "rotated"
  BY DEF InsertLog, CanLog, SetLog, dbVars, runVars
<1>10. \A e \in S : e.by = r /\ e.op = op /\ e.docs \subseteq D
  BY <1>3 DEF EntriesOf
<1>11. \A d \in D : \E e \in S : d \in e.docs
  <2>1. ASSUME NEW d \in D PROVE \E e \in S : d \in e.docs
    <3>1. [op |-> op, docs |-> {d}, by |-> r] \in S
      BY <1>3 DEF EntriesOf
    <3>2. d \in [op |-> op, docs |-> {d}, by |-> r].docs
      OBVIOUS
    <3> QED BY <3>1, <3>2
  <2> QED BY <2>1
<1>12. \A e \in S : \A q \in Requests \ {r} : e.docs \cap Pending(q) \subseteq req'[q].overlap
  BY <1>1, <1>10
<1>13. LogsStep(r, S)
  <2>1. Active(r)' /\ HasLogged(r)'
    BY <1>1 DEF Active, HasLogged
  <2> QED BY <1>1, <1>5, <1>6, <1>9, <1>10, <1>11, <1>12, <2>1 DEF LogsStep
<1>14. BatchOf(r)' /\ DelOf(r)'
  BY <1>1 DEF BatchOf, DelOf
<1> QED BY <1>1, <1>8, <1>13, <1>14, LogsInv

LEMMA LogDocStep == ASSUME Inv, NEW r \in Requests, NEW d \in Docs, LogDoc(r, d) PROVE Inv'
<1> DEFINE D == IF req[r].kind = "delete" THEN req[r].docs ELSE {d}
<1>1. /\ ReqTypes' /\ ReqStep /\ \A q \in Requests \ {r} : Same(q)
      /\ req[r].pc = "log" /\ req[r].kind \in {"update", "delete"} /\ d \in req[r].todo
      /\ Active(r)' /\ req'[r].kind = req[r].kind /\ req'[r].docs = req[r].docs
      /\ req'[r].todo = req[r].todo \ {d} /\ req'[r].match = req[r].match
      /\ req[r].overlap \subseteq req'[r].overlap
      /\ \A q \in Requests \ {r} : D \cap Pending(q) \subseteq req'[q].overlap
  BY LogDocReq DEF Inv, Basics, Types
<1>2. PICK op : op = req[r].kind
  OBVIOUS
<1>3. PICK e : e = [op |-> op, docs |-> D, by |-> r]
  OBVIOUS
<1>4. ReqInv!(r) /\ req[r] \in Request
  BY DEF Inv, Basics, Types, ReqTypes, ReqInv
<1>5. D \in SUBSET Docs /\ D \subseteq req[r].docs /\ d \in D /\ d \in req[r].match
  BY <1>1, <1>4 DEF Request, Active
<1>6. e \in LogEntry /\ e.by = r /\ e.op = op /\ e.docs = D /\ op = OpOf(op)
  BY <1>1, <1>2, <1>3, <1>5 DEF LogEntry, OpOf
<1>7. <<e>> \in Seq(LogEntry) /\ ToSet(<<e>>) = {e}
  BY <1>6 DEF ToSet
<1>8. SetLog(Logged(files, segs, <<e>>))
  BY <1>2, <1>3 DEF LogDoc
<1>9. /\ UNCHANGED <<policy, marker, base, tail, phase, replay, applied, admin, last, raced, excused>>
      /\ phase = "up" /\ admin # "rotated"
  BY DEF LogDoc, CanLog, SetLog, dbVars, runVars
<1>10. req[r].kind = "delete" => D = req[r].docs
  OBVIOUS
<1> HIDE DEF D
<1>11. LogStep({e}) /\ Logs' /\ FilesOK(files') /\ pruned' \in SUBSET Docs
  BY <1>7, <1>8, LoggedStep
<1>12. LogsStep(r, {e})
  <2>1. HasLogged(r)'
    BY <1>1, <1>5 DEF HasLogged
  <2>2. req'[r].kind \in {"insert", "batch", "delete"} => \A x \in req'[r].docs : \E y \in {e} : x \in y.docs
    BY <1>1, <1>6, <1>10
  <2> QED BY <1>1, <1>2, <1>5, <1>6, <1>9, <2>1, <2>2 DEF LogsStep
<1>13. BatchOf(r)'
  BY <1>1 DEF BatchOf
<1>14. DelOf(r)'
  <2>1. \A x \in Docs : Val(x)' = Val(x)
    BY <1>9 DEF Val
  <2>2. Readable' = Readable
    BY <1>1, <2>1, ReadableKept DEF Inv, Basics
  <2>3. DelOf(r)
    BY DEF Inv, Runs, DelInv
  <2> QED BY <1>1, <1>9, <2>2, <2>3 DEF DelOf, Active
<1> QED BY <1>1, <1>11, <1>12, <1>13, <1>14, LogsInv

LEMMA RequestInv == ASSUME Inv, NEW r \in Requests, RequestStep(r) PROVE Inv'
<1>1. ASSUME NEW kind \in {"insert", "large"}, NEW d \in Docs, InsertLog(r, kind, {d}) PROVE Inv'
  <2>1. PICK D \in SUBSET Docs : D = {d}
    OBVIOUS
  <2>2. kind \in {"insert", "large", "batch"} /\ InsertLog(r, kind, D)
    BY <1>1, <2>1
  <2> QED BY <2>1, <2>2, InsertLogStep
<1>2. ASSUME InsertLog(r, "batch", Docs) PROVE Inv'
  <2>1. PICK D \in SUBSET Docs : D = Docs
    OBVIOUS
  <2>2. PICK kind \in {"insert", "large", "batch"} : kind = "batch"
    OBVIOUS
  <2>3. InsertLog(r, kind, D) /\ kind \notin {"insert", "large"}
    BY <1>2, <2>1, <2>2
  <2> QED BY <2>3, InsertLogStep
<1>3. ASSUME NEW kind \in {"update", "delete"}, NEW F \in SUBSET Docs, FilterBegin(r, kind, F) PROVE Inv'
  BY <1>3, FilterBeginStep
<1>4. ASSUME NEW D \in SUBSET Docs, InsertCommit(r, D) PROVE Inv'
  BY <1>4, InsertCommitStep
<1>5. ASSUME NEW d \in Docs, LogDoc(r, d) \/ SkipDoc(r, d) PROVE Inv'
  BY <1>5, LogDocStep, SkipDocStep
<1>6. InsertFails(r) \/ FilterCommit(r) => Inv'
  BY InsertFailsStep, FilterCommitStep
<1> QED BY <1>1, <1>2, <1>3, <1>4, <1>5, <1>6 DEF RequestStep

-----------------------------------------------------------------------------
(* The checkpoint's syncs, and the start of a shutdown.                    *)

LEMMA SyncFacts ==
  ASSUME Types, SyncBadger
  PROVE  /\ base' \in [Docs -> Value] /\ tail' \in Seq(Commit) /\ Unsynced' = {} /\ pruned' = {}
         /\ \A d \in Docs : Val(d)' = Val(d) /\ Starts(d)' = {Val(d)} /\ Starts(d)' \subseteq Starts(d)
<1>1. base' = [d \in Docs |-> Val(d)] /\ tail' = <<>> /\ pruned' = {}
  BY DEF SyncBadger
<1>2. \A d \in Docs : Val(d) \in Value /\ Val(d) \in Starts(d)
  BY StartsType, ValStarts DEF Types, TypeInv
<1>3. tail' \in Seq(Commit) /\ Len(tail') = 0 /\ DOMAIN tail' = {}
  BY <1>1
<1>4. Unsynced' = {}
  BY <1>3 DEF Unsynced, ToSet
<1>5. \A d : CommitsOf(tail', d) = {}
  BY <1>3 DEF CommitsOf
<1>6. ASSUME NEW d \in Docs PROVE Val(d)' = Val(d) /\ Starts(d)' = {Val(d)}
  BY <1>1, <1>5 DEF Val, ValIn, Starts
<1> QED BY <1>1, <1>2, <1>3, <1>4, <1>6

LEMMA SameReq ==
  ASSUME Types, UNCHANGED req
  PROVE  /\ ReqTypes' /\ ReqStep /\ EndsNone /\ \A q \in Requests : Same(q)
         /\ \A q \in Requests : (Active(q)' <=> Active(q)) /\ Pending(q)' = Pending(q)
         /\ \A d : LostValues(d)' = LostValues(d)
         /\ \A v : KindOf(v)' = KindOf(v)
<1>1. ReqTypes'
  BY DEF Types, ReqTypes, ReqInv, OverlapInv, Active, Pending
<1>2. \A q \in Requests : Same(q) /\ (Active(q)' <=> Active(q)) /\ Pending(q)' = Pending(q)
  BY DEF Same, Active, Pending
<1>3. \A q \in Requests : Active(q) => Goes(q)
  BY DEF Goes, Active
<1>4. ReqStep /\ EndsNone
  BY <1>2, <1>3 DEF ReqStep, EndsNone, Active
<1>5. /\ \A d : LostValues(d)' = LostValues(d)
      /\ \A v : KindOf(v)' = KindOf(v)
  BY DEF LostValues, KindOf
<1> QED BY <1>1, <1>2, <1>4, <1>5

(* A step that leaves the entries and the requests alone. *)
LEMMA StillStep ==
  ASSUME Inv, UNCHANGED <<req, last, raced, excused, replay, applied>>, SameLog, Logs', FilesOK(files'),
         base' \in [Docs -> Value], tail' \in Seq(Commit), marker' \in BOOLEAN,
         \A d \in Docs : Val(d)' = Val(d) /\ Starts(d)' \subseteq Starts(d),
         pruned' \in SUBSET Docs, phase \in {"up", "closing"}, phase' \in {"up", "closing"},
         PhaseInv', CovInv', TailInv'
  PROVE  Inv'
<1>1. ReqTypes' /\ ReqStep /\ EndsNone /\ \A q \in Requests : Same(q)
  BY SameReq DEF Inv, Basics
<1>2. Types'
  BY <1>1 DEF Inv, Basics, Types, TypeInv, ReqTypes
<1>3. Entries' = Entries
  BY SameLogFacts DEF Entries
<1>4. EntryInv' /\ LastInv'
  BY <1>1, <1>3, EntryStays, LastStays DEF Inv, Basics
<1>5. SourceInv'
  BY <1>1, SourceKept DEF Inv, Basics
<1>6. BatchInv'
  BY DEF Inv, Runs, BatchInv, BatchOf, Active
<1>7. DelInv'
  <2>1. Readable' = Readable
    BY <1>1, ReadableKept DEF Inv, Basics
  <2> QED BY <2>1 DEF Inv, Runs, DelInv, DelOf, Active
<1>8. OwnInv'
  <2>1. \A q \in Requests : \A d : (OwnLast(q, d)' <=> OwnLast(q, d)) /\ (OwnThere(q, d)' <=> OwnThere(q, d))
    BY DEF OwnLast, OwnThere, Redone, SameLog
  <2> QED BY <2>1 DEF Inv, Runs, OwnInv, OwnOf, Active, HasLogged
<1>9. OrderInv'
  <2> SUFFICES ASSUME NEW d \in Docs, Clean(d)', NEW q \in At(files), Bad(EntryAt(files, q), d)'
               PROVE  /\ \A p \in At(files) : Mine(EntryAt(files, p), d) => ~Before(p, q)
                      /\ MineThere(d)
    BY DEF OrderInv, MineThere, Mine, Redone, SameLog
  <2>1. NotRedone' = NotRedone /\ ~applied
    BY <1>1, NotRedoneKept, NotApplied DEF Inv, Basics
  <2>2. Clean(d)
    BY <2>1 DEF Clean
  <2>3. Allowed(d)' = Allowed(d)
    BY DEF Allowed, Unfinished, Meant, Active
  <2>4. Bad(EntryAt(files, q), d)
    BY <2>3 DEF Bad, Mine, Redone, ValueOf, SameLog
  <2> QED BY <2>2, <2>4 DEF OrderInv, Inv, Runs
<1>10. Vals'
  <2>1. \A d \in Docs : Known(d)' = Known(d)
    BY DEF Known, LostValues
  <2>2. ValInv'
    BY <2>1 DEF ValInv, Inv, Vals
  <2> QED BY <2>2 DEF Vals, NowInv, DownInv, ReplayInv
<1> QED BY <1>2, <1>4, <1>5, <1>6, <1>7, <1>8, <1>9, <1>10 DEF Inv, Basics, Runs

LEMMA CovStays ==
  ASSUME Inv, UNCHANGED <<req, last, raced, excused, applied>>, SameLog, phase \in {"up", "closing"},
         \A d \in Docs : Starts(d)' \subseteq Starts(d), pruned \subseteq pruned'
  PROVE  CovInv'
<1> SUFFICES ASSUME NEW d \in Docs, Clean(d)', d \notin pruned', NEW v, v \in Starts(d)', v \notin Allowed(d)'
             PROVE  MineThere(d)'
  BY DEF CovInv
<1>1. ReqStep /\ ~applied /\ NotRedone' = NotRedone
  BY SameReq, NotRedoneKept, NotApplied DEF Inv, Basics
<1>2. Clean(d) /\ d \notin pruned
  BY <1>1 DEF Clean
<1>3. Allowed(d)' = Allowed(d)
  BY DEF Allowed, Unfinished, Meant, Active
<1>4. MineThere(d)
  BY <1>2, <1>3 DEF Inv, Runs, CovInv
<1> QED BY <1>4, MineSame

LEMMA SameFilesFacts ==
  ASSUME Inv, UNCHANGED <<policy, files, segs>> PROVE SameLog /\ Logs' /\ FilesOK(files')
BY DEF SameLog, Inv, Logs, SegInv, NotFull, Synced, Basics, Types, TypeInv

LEMMA SyncAllStep == ASSUME Inv, SyncAll PROVE Inv'
<1>1. /\ UNCHANGED <<policy, files, segs, marker, phase, replay, applied, req, last, raced, excused>>
      /\ phase = "up" /\ admin' = "synced"
      /\ SyncBadger \/ UNCHANGED <<base, tail, pruned>>
  BY DEF SyncAll, logVars, runVars, dbVars
<1>2. SameLog /\ Logs' /\ FilesOK(files')
  BY <1>1, SameFilesFacts
<1>3. Types /\ ~applied
  BY <1>1, NotApplied DEF Inv, Basics
<1>4. marker' \in BOOLEAN
  BY <1>1, <1>3 DEF Types, TypeInv
<1>5. PhaseInv'
  BY <1>1 DEF Inv, Basics, PhaseInv, Active
<1>6. CASE SyncBadger
  <2>1. /\ base' \in [Docs -> Value] /\ tail' \in Seq(Commit) /\ Unsynced' = {} /\ pruned' = {}
        /\ \A d \in Docs : Val(d)' = Val(d) /\ Starts(d)' = {Val(d)} /\ Starts(d)' \subseteq Starts(d)
    BY <1>3, <1>6, SyncFacts
  <2>2. CovInv'
    <3> SUFFICES ASSUME NEW d \in Docs, Clean(d)' PROVE Val(d) \in Allowed(d)'
      BY <2>1 DEF CovInv
    <3>1. Val(d) \in Known(d)
      BY <1>1 DEF Clean, Inv, Vals, ValInv
    <3>2. Allowed(d)' = Allowed(d)
      BY <1>1 DEF Allowed, Unfinished, Meant, Active
    <3> QED BY <3>1, <3>2, KnownAllowed
  <2>3. TailInv'
    BY <2>1 DEF TailInv
  <2> QED BY <1>1, <1>2, <1>4, <1>5, <2>1, <2>2, <2>3, StillStep
<1>7. CASE UNCHANGED <<base, tail, pruned>>
  <2>1. /\ base' \in [Docs -> Value] /\ tail' \in Seq(Commit) /\ pruned' \in SUBSET Docs
        /\ \A d \in Docs : Val(d)' = Val(d) /\ Starts(d)' \subseteq Starts(d)
    BY <1>3, <1>7 DEF Types, TypeInv, Val, Starts
  <2>2. CovInv'
    BY <1>1, <1>2, <1>7, <2>1, CovStays
  <2>3. TailInv'
    BY <1>1, <1>7 DEF TailInv, Inv, Runs, Unsynced
  <2> QED BY <1>1, <1>2, <1>4, <1>5, <2>1, <2>2, <2>3, StillStep
<1> QED BY <1>1, <1>6, <1>7

LEMMA SyncedLogStep ==
  ASSUME Inv, files' = SyncedCurrent, UNCHANGED <<policy, segs>>
  PROVE  /\ SameLog /\ Logs' /\ FilesOK(files') /\ DocsIn(files') = DocsIn(files)
         /\ \A n \in DOMAIN files : files'[n].data = files[n].data
<1>1. FilesOK(files)
  BY DEF Inv, Basics, Types, TypeInv
<1>2. /\ FilesOK(files') /\ At(files') = At(files) /\ EntriesIn(files') = EntriesIn(files)
      /\ DocsIn(files') = DocsIn(files)
      /\ \A p \in At(files) : EntryAt(files', p) = EntryAt(files, p)
      /\ (NotFull => NotFull') /\ (Synced => Synced')
      /\ \A n \in DOMAIN files : files'[n].data = files[n].data
  BY <1>1, SyncedLog
<1>3. SegInv'
  BY SyncedFiles, SameFiles DEF Inv, Logs
<1> QED BY <1>2, <1>3 DEF Inv, Logs, SameLog

LEMMA WalSyncStep == ASSUME Inv, WalSync PROVE Inv'
<1>1. /\ UNCHANGED <<policy, segs, marker, base, tail, phase, replay, applied, req, last, raced, pruned, excused>>
      /\ files' = SyncedCurrent /\ phase = "up" /\ admin' = "walsynced"
  BY DEF WalSync, runVars, dbVars, ghostVars
<1>2. SameLog /\ Logs' /\ FilesOK(files') /\ DocsIn(files') = DocsIn(files)
  BY <1>1, SyncedLogStep
<1>3. /\ base' \in [Docs -> Value] /\ tail' \in Seq(Commit) /\ pruned' \in SUBSET Docs
      /\ \A d \in Docs : Val(d)' = Val(d) /\ Starts(d)' \subseteq Starts(d)
      /\ marker' \in BOOLEAN
  BY <1>1 DEF Inv, Basics, Types, TypeInv, Val, Starts
<1>4. PhaseInv'
  BY <1>1 DEF Inv, Basics, PhaseInv, Active
<1>5. CovInv'
  BY <1>1, <1>2, <1>3, CovStays
<1>6. TailInv'
  BY <1>1, <1>2 DEF TailInv, Inv, Runs, Unsynced
<1> QED BY <1>1, <1>2, <1>3, <1>4, <1>5, <1>6, StillStep

LEMMA WalCloseStep == ASSUME Inv, WalClose PROVE Inv'
<1>1. /\ UNCHANGED <<policy, segs, base, tail, replay, applied, req, last, raced, excused>>
      /\ files' = SyncedCurrent /\ phase = "up" /\ admin' = "idle" /\ phase' = "closing" /\ marker' = TRUE
      /\ pruned' = pruned \cup Unsynced
  BY DEF WalClose, dbVars
<1>2. SameLog /\ Logs' /\ FilesOK(files') /\ DocsIn(files') = DocsIn(files)
  BY <1>1, SyncedLogStep
<1>3. /\ base' \in [Docs -> Value] /\ tail' \in Seq(Commit) /\ pruned' \in SUBSET Docs
      /\ \A d \in Docs : Val(d)' = Val(d) /\ Starts(d)' \subseteq Starts(d)
  BY <1>1, UnsyncedDocs DEF Inv, Basics, Types, TypeInv, Val, Starts
<1>4. PhaseInv'
  <2>1. Unsynced' = Unsynced
    BY <1>1 DEF Unsynced
  <2> QED BY <1>1, <2>1 DEF Inv, Basics, PhaseInv, Active
<1>5. CovInv'
  BY <1>1, <1>2, <1>3, CovStays
<1>6. TailInv'
  BY <1>1, <1>2 DEF TailInv, Inv, Runs, Unsynced
<1> QED BY <1>1, <1>2, <1>3, <1>4, <1>5, <1>6, StillStep

-----------------------------------------------------------------------------
(* The end of the process.                                                 *)

LEMMA StoppedReq ==
  ASSUME Inv, Stopped
  PROVE  ReqTypes' /\ ReqStep /\ EndsNone /\ \A q \in Requests : ~Active(q)'
<1>1. ReqTypes /\ Abandon
  BY DEF Inv, Basics, Types, Stopped
<1>2. /\ ReqTypes' /\ ReqStep /\ \A q \in Requests : ~Active(q)'
      /\ \A q \in Requests : Active(q) => req'[q].pc = "lost"
  BY <1>1, AbandonReq
<1>3. EndsNone
  BY <1>2 DEF EndsNone
<1> QED BY <1>2, <1>3

(* The process ends. *)
LEMMA StopInv ==
  ASSUME Inv, Stopped, UNCHANGED <<policy, segs, marker, last, raced>>, phase # "down",
         phase # "closing" => ~marker, Logs', FilesOK(files'),
         EntriesIn(files') \subseteq EntriesIn(files),
         base' \in [Docs -> Value], tail' \in Seq(Commit), pruned' \in SUBSET Docs, excused' \in SUBSET Docs,
         \A d \in Docs : Starts(d)' \subseteq Starts(d),
         OrderInv', CovInv', TailInv', ValInv', NowInv', DownInv'
  PROVE  Inv'
<1>1. ReqTypes' /\ ReqStep /\ EndsNone /\ \A q \in Requests : ~Active(q)'
  BY StoppedReq
<1>2. phase' = "down" /\ replay' = <<>> /\ applied' = FALSE /\ admin' = "idle"
  BY DEF Stopped
<1>3. Types'
  <2>1. replay' \in Seq(LogEntry)
    BY <1>2
  <2>4. applied' \in BOOLEAN
    BY <1>2
  <2>2. req' \in [Requests -> Request]
    BY <1>1 DEF ReqTypes
  <2>3. TypeInv'
    BY <2>1, <2>2, <2>4 DEF Inv, Basics, Types, TypeInv
  <2> QED BY <1>1, <2>3 DEF Types
<1>4. PhaseInv'
  BY <1>1, <1>2 DEF PhaseInv
<1>5. Entries' \subseteq Entries
  <2>1. ToSet(replay') = {}
    BY <1>2 DEF ToSet
  <2> QED BY <2>1 DEF Entries
<1>6. EntryInv' /\ LastInv'
  BY <1>1, <1>5, EntryStays, LastStays DEF Inv, Basics
<1>7. SourceInv'
  BY <1>1, SourceKept DEF Inv, Basics
<1>8. BatchInv' /\ DelInv' /\ OwnInv'
  BY <1>1 DEF BatchInv, BatchOf, DelInv, DelOf, OwnInv, OwnOf
<1>9. ReplayInv'
  BY <1>2 DEF ReplayInv
<1> QED BY <1>3, <1>4, <1>6, <1>7, <1>8, <1>9 DEF Inv, Basics, Runs, Vals

(* What was known against a document at the end still is. *)
LEMMA StopClean ==
  ASSUME Inv, Stopped, UNCHANGED <<last, raced>>, excused \subseteq excused',
         applied => Rewound \subseteq excused', NEW d \in Docs
  PROVE  /\ NotRedone' = NotRedone /\ (Clean(d)' => Clean(d))
         /\ Allowed(d) \subseteq Allowed(d)' /\ Known(d) \subseteq Known(d)'
         /\ Allowed(d)' = Known(d)'
<1>1. ReqTypes' /\ ReqStep /\ EndsNone /\ \A q \in Requests : ~Active(q)'
  BY StoppedReq
<1>2. NotRedone' = NotRedone
  BY <1>1, NotRedoneKept DEF Inv, Basics
<1>3. Clean(d)' => Clean(d)
  BY <1>2 DEF Clean
<1>4. Allowed(d) \subseteq Allowed(d)' /\ Known(d) \subseteq Known(d)'
  BY <1>1, AllowedStays, KnownGrows
<1>5. Allowed(d)' = Known(d)'
  BY <1>1 DEF Known, Allowed, LostValues, Unfinished, Meant
<1> QED BY <1>2, <1>3, <1>4, <1>5

LEMMA StopOrder ==
  ASSUME Inv, Stopped, UNCHANGED <<last, raced>>, excused \subseteq excused',
         applied => Rewound \subseteq excused', SameLog
  PROVE  OrderInv'
<1> SUFFICES ASSUME NEW d \in Docs, Clean(d)', NEW q \in At(files), Bad(EntryAt(files, q), d)'
             PROVE  /\ \A p \in At(files) : Mine(EntryAt(files, p), d) => ~Before(p, q)
                    /\ MineThere(d)
  BY DEF OrderInv, MineThere, Mine, Redone, SameLog
<1>1. Clean(d) /\ Allowed(d) \subseteq Allowed(d)'
  BY StopClean
<1>2. Bad(EntryAt(files, q), d)
  BY <1>1 DEF Bad, Mine, Redone, ValueOf, SameLog
<1> QED BY <1>1, <1>2 DEF OrderInv, Inv, Runs

LEMMA PoolCloseStep == ASSUME Inv, PoolClose PROVE Inv'
<1>1. /\ UNCHANGED <<policy, files, segs, marker, last, raced, excused>> /\ phase = "closing"
      /\ SyncBadger /\ Stopped
  BY DEF PoolClose, logVars
<1>2. SameLog /\ Logs' /\ FilesOK(files')
  BY <1>1, SameFilesFacts
<1>3. ~applied /\ marker /\ Types
  BY <1>1, NotApplied DEF Inv, Basics, PhaseInv
<1>4. /\ base' \in [Docs -> Value] /\ tail' \in Seq(Commit) /\ Unsynced' = {} /\ pruned' = {}
      /\ \A d \in Docs : Val(d)' = Val(d) /\ Starts(d)' = {Val(d)} /\ Starts(d)' \subseteq Starts(d)
  BY <1>1, <1>3, SyncFacts
<1>5. OrderInv'
  BY <1>1, <1>2, <1>3, StopOrder
<1>6. \A d \in Docs : Known(d) \subseteq Known(d)' /\ Allowed(d)' = Known(d)'
  BY <1>1, <1>3, StopClean
<1>7. \A d \in Docs : d \notin excused => Val(d) \in Known(d)'
  BY <1>1, <1>6 DEF Inv, Vals, ValInv
<1>8. CovInv'
  <2> SUFFICES ASSUME NEW d \in Docs, Clean(d)' PROVE Val(d) \in Allowed(d)'
    BY <1>4 DEF CovInv
  <2>1. d \notin excused
    BY <1>1 DEF Clean
  <2> QED BY <1>6, <1>7, <2>1
<1>9. TailInv'
  BY <1>4 DEF TailInv
<1>10. ValInv' /\ NowInv'
  BY <1>1, <1>4, <1>7 DEF ValInv, NowInv, NowExcused
<1>11. DownInv'
  BY <1>1, <1>3 DEF DownInv
<1>12. excused' \in SUBSET Docs
  BY <1>1, <1>3 DEF Types, TypeInv
<1> QED BY <1>1, <1>2, <1>4, <1>5, <1>8, <1>9, <1>10, <1>11, <1>12, StopInv

-----------------------------------------------------------------------------
LEMMA ExcusesDocs == ASSUME Types PROVE Excuses \subseteq Docs /\ NotRedone \subseteq Docs /\ Rewound \subseteq Docs
BY DEF Types, TypeInv, Excuses, Rewound, NotRedone

(* What is known of the value of a document when the process ends. *)
LEMMA StopVal ==
  ASSUME Inv, phase # "down", NEW d \in Docs \ NowExcused
  PROVE  Val(d) \in Known(d) \/ (MineThere(d) /\ phase \notin {"up", "closing", "rotated"})
BY DEF Inv, Vals, ValInv, NowInv, NowExcused

LEMMA StopDown ==
  ASSUME Inv, Stopped, UNCHANGED <<last, raced>>, excused \subseteq excused',
         applied => Rewound \subseteq excused', Excuses \subseteq excused',
         DocsIn(files') \subseteq DocsIn(files),
         NEW b, NEW f, PassedOver(b, f) \subseteq excused', f = files',
         \A d \in Docs : Val(d)' = b[d] /\ b[d] \in Starts(d)
  PROVE  DownInv'
<1>1. ReqStep
  BY StoppedReq
<1>2. NotRedone' = NotRedone
  BY <1>1, NotRedoneKept DEF Inv, Basics
<1>3. ((raced \cup NotRedone) \cap DocsIn(files')) \subseteq excused'
  BY DEF Excuses
<1>4. ASSUME NEW d \in Docs, last[d].val = Gone, NEW v, v = b[d], KindOf(v)' = "large",
             ~ \E e \in EntriesIn(files') : e.op = "insert" /\ d \in e.docs
      PROVE  d \in excused'
  <2>1. v \in Starts(d)
    BY <1>4
  <2>2. KindOf(v)' = KindOf(v)
    BY <1>1, <2>1, StartKind DEF Inv, Basics
  <2>3. d \in PassedOver(b, f)
    BY <1>4, <2>2 DEF PassedOver
  <2> QED BY <2>3
<1>5. PassedOver(NowVals, files)' \subseteq excused'
  <2> SUFFICES ASSUME NEW d, d \in PassedOver(NowVals, files)' PROVE d \in excused'
    OBVIOUS
  <2>1. /\ d \in Docs /\ last[d].val = Gone /\ KindOf(NowVals[d])' = "large"
        /\ ~ \E e \in EntriesIn(files') : e.op = "insert" /\ d \in e.docs
    BY DEF PassedOver
  <2>2. PICK v : v = b[d]
    OBVIOUS
  <2>3. NowVals'[d] = v
    BY <2>1, <2>2 DEF NowVals
  <2>4. KindOf(v)' = "large"
    BY <2>1, <2>3 DEF KindOf
  <2> QED BY <1>4, <2>1, <2>2, <2>4
<1> QED BY <1>2, <1>3, <1>5 DEF DownInv

LEMMA KillStep == ASSUME Inv, Kill PROVE Inv'
<1>1. /\ UNCHANGED <<policy, files, segs, marker, base, tail, last, raced, pruned>> /\ phase # "down"
      /\ Stopped
      /\ excused' = excused \cup Excuses \cup PassedOver([d \in Docs |-> Val(d)], files)
  BY DEF Kill, logVars, dbVars
<1>2. SameLog /\ Logs' /\ FilesOK(files')
  BY <1>1, SameFilesFacts
<1>3. Types /\ (phase # "closing" => ~marker)
  BY <1>1 DEF Inv, Basics, PhaseInv
<1>4. /\ excused \subseteq excused' /\ Excuses \subseteq excused' /\ (applied => Rewound \subseteq excused')
      /\ excused' \in SUBSET Docs
  BY <1>1, <1>3, ExcusesDocs DEF Excuses, PassedOver, Types, TypeInv
<1>5. OrderInv'
  BY <1>1, <1>2, <1>4, StopOrder
<1>6. \A d \in Docs : Val(d)' = Val(d) /\ Starts(d)' = Starts(d) /\ Val(d) \in Starts(d)
  BY <1>1, <1>3, ValStarts DEF Val, Starts, Types, TypeInv
<1>7. ASSUME NEW d \in Docs
      PROVE  /\ (Clean(d)' => Clean(d)) /\ Allowed(d) \subseteq Allowed(d)' /\ Known(d) \subseteq Known(d)'
             /\ (MineThere(d)' <=> MineThere(d))
  BY <1>1, <1>2, <1>4, StopClean, MineSame
<1>8. CovInv'
  <2> SUFFICES ASSUME NEW d \in Docs, Clean(d)', d \notin pruned, NEW v \in Starts(d), v \notin Allowed(d)'
               PROVE  MineThere(d)
    BY <1>1, <1>6, <1>7 DEF CovInv
  <2> QED BY <1>7 DEF Inv, Runs, CovInv
<1>9. TailInv'
  BY <1>1, <1>2, SameLogFacts DEF TailInv, Inv, Runs, Unsynced
<1>10. ASSUME NEW d \in Docs, d \notin excused'
       PROVE  Val(d) \in Known(d)' \/ (MineThere(d)' /\ phase \notin {"up", "closing", "rotated"})
  <2>1. d \notin NowExcused
    BY <1>1, <1>10 DEF NowExcused
  <2> QED BY <1>1, <1>7, <2>1, StopVal
<1>11. ValInv'
  BY <1>1, <1>3, <1>6, <1>10 DEF ValInv, Stopped
<1>12. NowInv'
  BY <1>6, <1>10 DEF NowInv, NowExcused
<1>13. DownInv'
  <2>1. PICK b : b = [d \in Docs |-> Val(d)]
    OBVIOUS
  <2>2. PassedOver(b, files') \subseteq excused'
    BY <1>1, <2>1
  <2>3. \A d \in Docs : Val(d)' = b[d] /\ b[d] \in Starts(d)
    BY <1>6, <2>1
  <2>4. DocsIn(files') \subseteq DocsIn(files)
    BY <1>1
  <2> QED BY <1>1, <1>4, <2>2, <2>3, <2>4, StopDown
<1>14. /\ base' \in [Docs -> Value] /\ tail' \in Seq(Commit) /\ pruned' \in SUBSET Docs
       /\ EntriesIn(files') \subseteq EntriesIn(files)
  BY <1>1, <1>3 DEF Types, TypeInv
<1> QED BY <1>1, <1>2, <1>3, <1>4, <1>5, <1>6, <1>8, <1>9, <1>11, <1>12, <1>13, <1>14, StopInv

-----------------------------------------------------------------------------
(* Badger is back at one of the values a document started from. *)
LEMMA PrefixStarts ==
  ASSUME tail \in Seq(Commit), NEW n \in 0 .. Len(tail), NEW d
  PROVE  /\ ValIn(base, SubSeq(tail, 1, n), d) \in Starts(d)
         /\ d \notin Unsynced => ValIn(base, SubSeq(tail, 1, n), d) = Val(d)
<1>1. PICK t : t = SubSeq(tail, 1, n)
  OBVIOUS
<1>2. /\ t \in Seq(Commit) /\ DOMAIN t = 1 .. n /\ \A i \in 1 .. n : i \in DOMAIN tail /\ t[i] = tail[i]
  BY <1>1
<1>3. \A i \in CommitsOf(t, d) : i \in CommitsOf(tail, d) /\ t[i] = tail[i]
  BY <1>2 DEF CommitsOf
<1>4. ValIn(base, t, d) \in Starts(d)
  <2>1. CASE CommitsOf(t, d) = {}
    BY <2>1 DEF ValIn, Starts
  <2>2. CASE CommitsOf(t, d) # {}
    <3>1. PICK i \in CommitsOf(t, d) : ValIn(base, t, d) = t[i].val
      BY <1>2, <2>2, ValLast
    <3> QED BY <1>3, <3>1 DEF Starts
  <2> QED BY <2>1, <2>2
<1>5. d \notin Unsynced => ValIn(base, t, d) = Val(d)
  BY <1>4, StableVal
<1> QED BY <1>1, <1>4, <1>5

LEMMA PowerLossStep == ASSUME Inv, PowerLoss PROVE Inv'
<1>1. /\ UNCHANGED <<policy, segs, marker, last, raced>> /\ phase # "down" /\ Stopped
      /\ tail' = <<>> /\ pruned' = {}
  BY DEF PowerLoss
<1>2. PICK f \in AfterPowerLoss, n \in 0 .. Len(tail) :
       /\ files' = f
       /\ base' = [d \in Docs |-> ValIn(base, SubSeq(tail, 1, n), d)]
       /\ excused' = excused \cup Excuses \cup pruned \cup (NotRedone \cap Unsynced)
                     \cup PassedOver(base', f)
                     \cup IF policy = "always" THEN {} ELSE LostEntries(f)
  BY DEF PowerLoss
<1>3. Types /\ Lists(segs, files) /\ NotFull /\ Synced /\ tail \in Seq(Commit) /\ FilesOK(files)
      /\ (phase # "closing" => ~marker)
  BY <1>1 DEF Inv, Logs, SegInv, Basics, PhaseInv, Types, TypeInv
<1>4. /\ FilesOK(f) /\ At(f) \subseteq At(files) /\ Lists(segs, f)
      /\ \A p \in At(f) : EntryAt(f, p) = EntryAt(files, p)
      /\ EntriesIn(f) \subseteq EntriesIn(files) /\ DocsIn(f) \subseteq DocsIn(files)
      /\ ~Full(f, segs)
      /\ \A k \in DOMAIN f : policy = "always" => f[k].synced = Len(f[k].data)
      /\ policy = "always" => EntriesIn(f) = EntriesIn(files)
  BY <1>3, PowerLossLog
<1>5. Logs'
  BY <1>1, <1>2, <1>4 DEF Logs, SegInv, NotFull, Synced
<1>6. /\ excused \subseteq excused' /\ Excuses \subseteq excused' /\ (applied => Rewound \subseteq excused')
      /\ pruned \subseteq excused' /\ PassedOver(base', f) \subseteq excused'
      /\ policy # "always" => LostEntries(f) \subseteq excused'
      /\ excused' \in SUBSET Docs
  <2>1. PassedOver(base', f) \subseteq Docs /\ LostEntries(f) \subseteq Docs
    BY DEF PassedOver, LostEntries
  <2>2. applied => Rewound \subseteq Excuses
    BY DEF Excuses
  <2> QED BY <1>2, <1>3, <2>1, <2>2, ExcusesDocs DEF Types, TypeInv
<1>7. tail' \in Seq(Commit) /\ Unsynced' = {} /\ \A d \in Docs : CommitsOf(tail', d) = {}
  <2>1. tail' \in Seq(Commit) /\ DOMAIN tail' = {}
    BY <1>1
  <2> QED BY <2>1 DEF Unsynced, ToSet, CommitsOf
<1>8. ASSUME NEW d \in Docs
      PROVE  /\ Val(d)' = base'[d] /\ Starts(d)' = {base'[d]} /\ base'[d] \in Starts(d)
             /\ d \notin Unsynced => base'[d] = Val(d)
  <2>1. Val(d)' = base'[d] /\ Starts(d)' = {base'[d]}
    BY <1>7 DEF Val, ValIn, Starts
  <2>2. base'[d] = ValIn(base, SubSeq(tail, 1, n), d)
    BY <1>2
  <2> QED BY <1>3, <2>1, <2>2, PrefixStarts
<1>9. base' \in [Docs -> Value]
  <2>1. \A d \in Docs : base'[d] \in Value
    BY <1>3, <1>8, StartsType
  <2>2. base' = [d \in Docs |-> base'[d]]
    BY <1>2
  <2> QED BY <2>1, <2>2
<1>10. ASSUME NEW d \in Docs
       PROVE  /\ NotRedone' = NotRedone /\ (Clean(d)' => Clean(d))
              /\ Allowed(d) \subseteq Allowed(d)' /\ Known(d) \subseteq Known(d)' /\ Allowed(d)' = Known(d)'
  BY <1>1, <1>6, StopClean
<1>11. ASSUME NEW d \in Docs, d \notin excused', MineThere(d) PROVE MineThere(d)'
  <2>1. PICK e \in EntriesIn(files) : Mine(e, d)
    BY <1>11, MineEntry
  <2>2. e \in EntriesIn(f)
    <3>1. SUFFICES ASSUME e \notin EntriesIn(f) PROVE FALSE
      OBVIOUS
    <3>2. d \in LostEntries(f) /\ policy # "always"
      BY <1>4, <2>1, <3>1 DEF LostEntries, Mine, Redone
    <3> QED BY <1>6, <1>11, <3>2
  <2>3. EntriesIn(f) = {EntryAt(f, p) : p \in At(f)}
    BY EntriesAt
  <2> QED BY <1>1, <1>2, <2>1, <2>2, <2>3 DEF MineThere, Mine, Redone
<1>12. OrderInv'
  <2> SUFFICES ASSUME NEW d \in Docs, Clean(d)', NEW q \in At(f), Bad(EntryAt(files, q), d)'
               PROVE  /\ \A p \in At(f) : Mine(EntryAt(files, p), d)' => ~Before(p, q)
                      /\ MineThere(d)'
    BY <1>2 DEF OrderInv
  <2>1. Clean(d) /\ Allowed(d) \subseteq Allowed(d)' /\ d \notin excused'
    BY <1>10 DEF Clean
  <2>2. Bad(EntryAt(files, q), d)
    BY <1>1, <1>2, <1>4, <2>1 DEF Bad, Mine, Redone, ValueOf
  <2>3. /\ \A p \in At(files) : Mine(EntryAt(files, p), d) => ~Before(p, q)
        /\ MineThere(d)
    BY <1>4, <2>1, <2>2 DEF OrderInv, Inv, Runs
  <2>4. \A p \in At(f) : Mine(EntryAt(files, p), d)' => Mine(EntryAt(files, p), d)
    BY <1>1, <1>2, <1>4 DEF Mine, Redone
  <2> QED BY <1>4, <1>11, <2>1, <2>3, <2>4
<1>13. CovInv'
  <2> SUFFICES ASSUME NEW d \in Docs, Clean(d)', base'[d] \notin Allowed(d)' PROVE MineThere(d)'
    BY <1>8 DEF CovInv
  <2>1. Clean(d) /\ Allowed(d) \subseteq Allowed(d)' /\ d \notin excused' /\ d \notin pruned
    BY <1>6, <1>10 DEF Clean
  <2>2. MineThere(d)
    BY <1>8, <2>1 DEF Inv, Runs, CovInv
  <2> QED BY <1>11, <2>1, <2>2
<1>14. TailInv'
  BY <1>7 DEF TailInv
<1>15. ASSUME NEW d \in Docs, d \notin excused', d \notin Unsynced
       PROVE  Val(d)' \in Known(d)' \/ (MineThere(d)' /\ phase \notin {"up", "closing", "rotated"})
  <2>1. d \notin NowExcused
    BY <1>2, <1>15 DEF NowExcused
  <2> QED BY <1>1, <1>8, <1>10, <1>11, <1>15, <2>1, StopVal
<1>16. ValInv'
  <2> SUFFICES ASSUME marker, NEW d \in Docs, d \notin excused' PROVE Val(d)' \in Known(d)'
    BY <1>1 DEF ValInv, Stopped
  <2>1. phase = "closing" /\ d \notin Unsynced
    BY <1>3, <1>6 DEF Inv, Basics, PhaseInv
  <2> QED BY <1>15, <2>1
<1>17. NowInv'
  <2> SUFFICES ASSUME NEW d \in Docs, d \notin NowExcused' PROVE Val(d)' \in Known(d)' \/ MineThere(d)'
    BY DEF NowInv
  <2>0. d \notin excused' /\ d \notin Excuses'
    BY DEF NowExcused
  <2>1. CASE Clean(d)'
    BY <1>1, <1>8, <1>10, <1>13, <2>1 DEF CovInv
  <2>2. CASE ~Clean(d)'
    <3>1. d \in raced \cup NotRedone
      BY <1>1, <1>10, <2>0, <2>2 DEF Clean, Stopped
    <3>2. d \notin DocsIn(files) /\ d \notin pruned
      BY <1>6, <2>0, <3>1 DEF Excuses
    <3>3. d \notin Unsynced
      BY <3>2 DEF Inv, Runs, TailInv
    <3> QED BY <1>15, <2>0, <3>3
  <2> QED BY <2>1, <2>2
<1>18. DownInv'
  <2>1. PICK b : b = base'
    OBVIOUS
  <2>2. PassedOver(b, f) \subseteq excused' /\ f = files' /\ DocsIn(files') \subseteq DocsIn(files)
    BY <1>2, <1>4, <1>6, <2>1
  <2>3. \A d \in Docs : Val(d)' = b[d] /\ b[d] \in Starts(d)
    BY <1>8, <2>1
  <2> QED BY <1>1, <1>6, <2>2, <2>3, StopDown
<1>19. EntriesIn(files') \subseteq EntriesIn(files) /\ FilesOK(files') /\ pruned' \in SUBSET Docs
       /\ \A d \in Docs : Starts(d)' \subseteq Starts(d)
  BY <1>1, <1>2, <1>4, <1>8
<1> QED BY <1>1, <1>3, <1>5, <1>6, <1>7, <1>9, <1>12, <1>13, <1>14, <1>16, <1>17, <1>18, <1>19, StopInv

-----------------------------------------------------------------------------
(* Rotation and pruning.                                                   *)

(* Entries that say of a document and its value what others say already. *)
Again(S) == \A e \in S : e \in LogEntry /\ \E x \in Entries : x.by = e.by /\ x.op = e.op

LEMMA AgainBasics ==
  ASSUME Inv, UNCHANGED <<marker, base, tail, req, last, raced, excused>>, NEW S, LogStep(S), Again(S),
         Logs', pruned' \in SUBSET Docs, ToSet(replay') \subseteq ToSet(replay),
         replay' \in Seq(LogEntry), applied' \in BOOLEAN
  PROVE  Types' /\ EntryInv' /\ LastInv'
<1>1. ReqTypes' /\ ReqStep
  BY SameReq DEF Inv, Basics
<1>2. Types'
  <2>1. FilesOK(files') /\ req' \in [Requests -> Request]
    BY <1>1 DEF LogStep, ReqTypes
  <2>2. TypeInv'
    BY <2>1 DEF Inv, Basics, Types, TypeInv
  <2> QED BY <1>1, <2>2 DEF Types
<1>3. Entries' \subseteq Entries \cup S
  <2>1. EntriesIn(files') \subseteq EntriesIn(files) \cup S
    BY ExtendsKeeps DEF LogStep
  <2> QED BY <2>1 DEF Entries
<1>4. ASSUME NEW e \in S
      PROVE  /\ req[e.by].pc # "idle" /\ e.op = OpOf(req[e.by].kind)
             /\ Active(e.by) => HasLogged(e.by)
             /\ \A d \in Docs : e.by = last[d].by => ValueOf(e) = last[d].val
  <2>1. PICK x \in Entries : x.by = e.by /\ x.op = e.op
    BY DEF Again
  <2>2. req[x.by].pc # "idle" /\ x.op = OpOf(req[x.by].kind) /\ (Active(x.by) => HasLogged(x.by))
    BY DEF Inv, Basics, EntryInv
  <2>3. \A d \in Docs : x.by = last[d].by => ValueOf(x) = last[d].val
    BY DEF Inv, Basics, LastInv
  <2>4. ValueOf(x) = ValueOf(e)
    BY <2>1 DEF ValueOf
  <2> QED BY <2>1, <2>2, <2>3, <2>4 DEF Active, HasLogged
<1>5. EntryInv'
  <2>1. \A e \in S : /\ req'[e.by].pc # "idle" /\ e.op = OpOf(req'[e.by].kind)
                     /\ Active(e.by)' => HasLogged(e.by)'
    BY <1>4 DEF Active, HasLogged
  <2> QED BY <1>1, <1>3, <2>1, EntryKept DEF Inv, Basics
<1>6. LastInv'
  <2>1. \A e \in S : \A d \in Docs : e.by = last[d].by => ValueOf(e) = last[d].val
    BY <1>4
  <2> QED BY <1>1, <1>3, <2>1, LastKept DEF Inv, Basics
<1> QED BY <1>2, <1>5, <1>6

(* A step that leaves the requests and Badger alone. *)
LEMMA LogOnlyInv ==
  ASSUME Inv, UNCHANGED <<marker, base, tail, req, last, raced, excused>>, NEW S, LogStep(S), Again(S),
         Logs', pruned' \in SUBSET Docs, ToSet(replay') \subseteq ToSet(replay),
         replay' \in Seq(LogEntry), applied' \in BOOLEAN, applied => applied',
         OwnInv', OrderInv', PhaseInv', Vals'
  PROVE  Inv'
<1>1. ReqTypes' /\ ReqStep /\ EndsNone /\ (\A q \in Requests : Same(q) /\ (Active(q)' <=> Active(q)))
  BY SameReq DEF Inv, Basics
<1>2. Types' /\ EntryInv' /\ LastInv'
  BY AgainBasics
<1>7. \A d \in Docs : Val(d)' = Val(d) /\ Starts(d)' = Starts(d)
  BY DEF Val, Starts
<1>8. SourceInv'
  BY <1>1, <1>7, SourceKept DEF Inv, Basics
<1>9. BatchInv'
  BY DEF Inv, Runs, BatchInv, BatchOf, Active
<1>10. DelInv'
  <2>1. Readable' = Readable
    BY <1>1, <1>7, ReadableKept DEF Inv, Basics
  <2> QED BY <2>1 DEF Inv, Runs, DelInv, DelOf, Active
<1>11. CovInv'
  <2>1. LastInv /\ CovInv /\ Types
    BY DEF Inv, Basics, Runs
  <2> QED BY <1>1, <1>2, <2>1, CovLog
<1>12. TailInv'
  BY TailLog DEF Inv, Basics, Runs
<1> QED BY <1>2, <1>8, <1>9, <1>10, <1>11, <1>12 DEF Inv, Basics, Runs

LEMMA OrderAppliedAfter == applied' => OrderInv'
BY OrderApplied, PTL

LEMMA RotateStep == ASSUME Inv, Rotate PROVE Inv'
<1> DEFINE S == {}
<1>1. /\ UNCHANGED <<marker, base, tail, phase, replay, applied, req, last, raced, excused>>
      /\ phase = "up" /\ admin' = "rotated" /\ SetLog(Rotated(files, segs))
  BY DEF Rotate, dbVars, runVars
<1>2. /\ LogStep(S) /\ Logs' /\ FilesOK(files') /\ pruned' \in SUBSET Docs
      /\ files'[Last(segs')].data = <<>>
  BY <1>1, RotatedStep
<1>3. Again(S) /\ \A e \in S : e.docs = {} /\ FALSE
  BY DEF Again
<1> HIDE DEF S
<1>4. ~applied /\ Types /\ LastInv /\ OrderInv
  BY <1>1, NotApplied DEF Inv, Basics, Runs
<1>5. ReqTypes' /\ ReqStep /\ EndsNone /\ \A q \in Requests : Same(q)
  BY <1>1, <1>4, SameReq
<1>6. OwnInv'
  <2>1. ASSUME NEW q \in Requests PROVE OwnOf(q)'
    <3>1. \A e \in S : e.by # q /\ e.docs \cap Pending(q) \subseteq req'[q].overlap
      BY <1>3
    <3> QED BY <1>2, <1>5, <3>1, OthersOwn
  <2> QED BY <2>1 DEF OwnInv
<1>7. OrderInv'
  <2>1. \A e \in S : \A d \in Docs : ~Bad(e, d)'
    BY <1>3
  <2>2. UNCHANGED <<last, excused, raced>>
    BY <1>1
  <2> QED BY <1>2, <1>4, <1>5, <2>1, <2>2, OrderLog
<1>8. PhaseInv'
  BY <1>1, <1>2 DEF Inv, Basics, PhaseInv, Active
<1>9. Vals'
  <2>1. \A d \in Docs : Val(d)' = Val(d) /\ Known(d)' = Known(d)
    BY <1>1 DEF Val, Known, LostValues
  <2>2. ValInv'
    BY <1>1, <2>1 DEF ValInv, Inv, Vals
  <2> QED BY <1>1, <2>2 DEF Vals, NowInv, DownInv, ReplayInv
<1>10. replay' \in Seq(LogEntry) /\ applied' \in BOOLEAN /\ applied' = applied /\ replay' = replay
  BY <1>1, <1>4 DEF Types, TypeInv
<1> QED BY <1>1, <1>2, <1>3, <1>6, <1>7, <1>8, <1>9, <1>10, LogOnlyInv

LEMMA NoneRun == ASSUME Inv, phase \notin {"up", "closing"} PROVE \A r \in Requests : ~Active(r)
BY DEF Inv, Basics, PhaseInv

LEMMA RecoverRotateStep == ASSUME Inv, RecoverRotate PROVE Inv'
<1> DEFINE S == {}
<1>1. /\ UNCHANGED <<marker, base, tail, replay, applied, req, admin, last, raced, excused>>
      /\ phase = "replay" /\ replay = <<>> /\ applied /\ phase' = "rotated" /\ SetLog(Rotated(files, segs))
  BY DEF RecoverRotate, Recovered, dbVars
<1>2. /\ LogStep(S) /\ Logs' /\ FilesOK(files') /\ pruned' \in SUBSET Docs
      /\ files'[Last(segs')].data = <<>>
  BY <1>1, RotatedStep
<1>3. Again(S)
  BY DEF Again
<1> HIDE DEF S
<1>4. \A r \in Requests : ~Active(r)'
  BY <1>1, NoneRun DEF Active
<1>5. OwnInv'
  BY <1>4 DEF OwnInv, OwnOf
<1>6. OrderInv'
  BY <1>1, OrderAppliedAfter
<1>7. PhaseInv'
  BY <1>1, <1>2, <1>4 DEF Inv, Basics, PhaseInv
<1>8. Vals'
  <2>1. \A d \in Docs : Val(d)' = Val(d) /\ Known(d)' = Known(d)
    BY <1>1 DEF Val, Known, LostValues
  <2>2. ASSUME NEW d \in Docs, d \notin excused PROVE Val(d) \in Known(d)
    <3>1. Decides(d)
      BY <1>1, <2>2 DEF Inv, Vals, ReplayInv
    <3>2. DOMAIN replay = {}
      BY <1>1
    <3>3. RedoneLeft(d) = {}
      BY <3>2 DEF RedoneLeft
    <3> QED BY <3>1, <3>3 DEF Decides
  <2>3. ValInv'
    BY <1>1, <2>1, <2>2 DEF ValInv
  <2> QED BY <1>1, <2>3 DEF Vals, NowInv, DownInv, ReplayInv
<1>9. replay' \in Seq(LogEntry) /\ applied' \in BOOLEAN /\ applied' = applied /\ replay' = replay
  BY <1>1 DEF Inv, Basics, Types, TypeInv
<1> QED BY <1>1, <1>2, <1>3, <1>5, <1>6, <1>7, <1>8, <1>9, LogOnlyInv

-----------------------------------------------------------------------------
(* The log is emptied, by a checkpoint or at the end of recovery. *)
LEMMA PruneInv ==
  ASSUME Inv, SetLog(OnlyCurrent), Settle, UNCHANGED <<marker, base, tail, replay, req>>,
         phase \in {"up", "rotated"}, phase' = "up", ~applied', applied' \in BOOLEAN, admin' = "idle",
         files[Last(segs)].data = <<>>
  PROVE  Inv'
<1> DEFINE S == {}
<1>1. /\ LogStep(S) /\ Logs' /\ FilesOK(files') /\ pruned' \in SUBSET Docs
      /\ At(files') = {} /\ EntriesIn(files') = {}
      /\ EntriesIn(files) \subseteq Deleted(files')
  BY OnlyCurrentStep
<1> HIDE DEF S
<1>2. Types /\ ReqTypes' /\ ReqStep /\ (\A q \in Requests : (Active(q)' <=> Active(q)) /\ Pending(q)' = Pending(q))
      /\ (\A d : LostValues(d)' = LostValues(d))
  BY SameReq DEF Inv, Basics
<1>3. /\ \A d \in Docs : last'[d] = IF d \in excused THEN [by |-> last[d].by, val |-> Val(d)] ELSE last[d]
      /\ last' = [d \in Docs |-> last'[d]]
      /\ excused' = {} /\ raced' \subseteq raced
      /\ \A d \in raced : (\E r \in Requests : d \in Pending(r)) => d \in raced'
  BY DEF Settle
<1>4. \A d \in Docs : /\ Val(d)' = Val(d) /\ Starts(d)' = Starts(d)
                      /\ Val(d) \in Value /\ Val(d) \in Starts(d)
  BY <1>2, StartsType, ValStarts DEF Val, Starts, Types, TypeInv
<1>5. Types'
  <2>1. ASSUME NEW d \in Docs PROVE last'[d] \in [by : Value, val : Value]
    <3>1. last[d] \in [by : Value, val : Value]
      BY <1>2 DEF Types, TypeInv
    <3> QED BY <1>3, <1>4, <3>1
  <2>2. last' \in [Docs -> [by : Value, val : Value]]
    BY <1>3, <2>1
  <2>3. req' \in [Requests -> Request]
    BY <1>2 DEF ReqTypes
  <2>4. raced' \in SUBSET Docs /\ excused' \in SUBSET Docs
    BY <1>2, <1>3 DEF Types, TypeInv
  <2>5. TypeInv'
    BY <1>1, <1>2, <2>2, <2>3, <2>4 DEF Types, TypeInv
  <2> QED BY <1>2, <2>5 DEF Types
<1>6. PhaseInv'
  BY DEF PhaseInv, Inv, Basics
<1>7. Entries' = {}
  <2>1. replay = <<>>
    BY DEF Inv, Basics, PhaseInv
  <2>2. ToSet(replay') = {}
    BY <2>1 DEF ToSet
  <2> QED BY <1>1, <2>2 DEF Entries
<1>8. EntryInv'
  BY <1>7 DEF EntryInv
<1>9. LastInv'
  <2> SUFFICES ASSUME NEW d \in Docs
               PROVE  /\ last'[d].by \in Requests => req'[last'[d].by].pc \in {"commit", "done", "lost"}
                      /\ last'[d].val \in Requests => req'[last'[d].val].pc # "idle"
    BY <1>7 DEF LastInv
  <2>1. last'[d].by = last[d].by
    BY <1>3
  <2>2. last[d].by \in Requests => req[last[d].by].pc \in {"commit", "done", "lost"}
    BY DEF Inv, Basics, LastInv
  <2>3. CASE d \notin excused
    <3>1. last'[d] = last[d]
      BY <1>3, <2>3
    <3>2. last[d].val \in Requests => req[last[d].val].pc # "idle"
      BY DEF Inv, Basics, LastInv
    <3> QED BY <2>2, <3>1, <3>2
  <2>4. CASE d \in excused
    <3>1. PICK v : v = Val(d)
      OBVIOUS
    <3>2. last'[d].val = v /\ v \in Starts(d)
      BY <1>3, <1>4, <2>4, <3>1
    <3>3. v \in Requests => req[v].pc # "idle"
      BY <3>2, ConstantsAssumption DEF Inv, Basics, SourceInv, Active
    <3> QED BY <2>1, <2>2, <3>2, <3>3
  <2> QED BY <2>3, <2>4
<1>10. SourceInv'
  BY <1>2, <1>4, SourceKept DEF Inv, Basics
<1>11. \A r \in Requests : req[r] \in Request
  BY <1>2 DEF Types, TypeInv
<1>12. BatchInv'
  <2> SUFFICES ASSUME NEW r \in Requests, Active(r), req[r].kind = "batch",
                      NEW d \in req[r].docs \ req[r].todo, d \notin raced'
               PROVE  last'[d] = [by |-> r, val |-> r]
    BY <1>2, <1>3 DEF BatchInv, BatchOf
  <2>1. d \in Docs /\ d \in Pending(r)
    BY <1>11 DEF Request, Pending
  <2>2. d \notin raced
    BY <1>3, <2>1
  <2>3. last[d] = [by |-> r, val |-> r] /\ d \notin excused
    BY <2>2 DEF Inv, Runs, BatchInv, BatchOf
  <2> QED BY <1>3, <2>1, <2>3
<1>13. DelInv'
  <2> SUFFICES ASSUME NEW r \in Requests, Active(r), req[r].kind = "delete",
                      NEW d \in req[r].docs \ req[r].match, d \in Readable
               PROVE  d \in raced'
    <3>1. Readable' = Readable
      BY <1>2, <1>4, ReadableKept DEF Inv, Basics
    <3> QED BY <1>2, <3>1 DEF DelInv, DelOf
  <2>1. d \in Pending(r)
    BY DEF Pending
  <2>2. d \in raced
    BY DEF Inv, Runs, DelInv, DelOf
  <2> QED BY <1>3, <2>1, <2>2
<1>14. OwnInv'
  BY <1>1 DEF OwnInv, OwnOf, OwnLast, OwnThere
<1>15. OrderInv'
  BY <1>1 DEF OrderInv
<1>16. TailInv'
  BY <1>1, <1>2, TailLog DEF Inv, Runs
<1>17. ASSUME NEW d \in Docs PROVE Val(d) \in Known(d)'
  <2>1. CASE d \in excused
    <3>1. last'[d].val = Val(d)
      BY <1>3, <2>1
    <3> QED BY <3>1 DEF Known
  <2>2. CASE d \notin excused
    <3>1. Val(d) \in Known(d)
      BY <2>2 DEF Inv, Vals, ValInv
    <3>2. last'[d] = last[d]
      BY <1>3, <2>2
    <3> QED BY <1>2, <3>1, <3>2 DEF Known
  <2> QED BY <2>1, <2>2
<1>18. CovInv'
  <2> SUFFICES ASSUME NEW d \in Docs, d \notin pruned', NEW v \in Starts(d) PROVE v \in Allowed(d)'
    BY <1>4 DEF CovInv
  <2>1. d \notin Unsynced
    <3>1. DocsIn(files') = {}
      BY <1>1 DEF DocsIn
    <3>2. Unsynced' = Unsynced
      BY DEF Unsynced
    <3> QED BY <1>16, <3>1, <3>2 DEF TailInv
  <2>2. v = Val(d)
    BY <1>2, <2>1, StableVal DEF Types, TypeInv
  <2>3. v \in Known(d)'
    BY <1>17, <2>2
  <2> QED BY <2>3 DEF Known, Allowed, LostValues, Unfinished, Meant
<1>19. Vals'
  <2>1. ValInv'
    BY <1>4, <1>17 DEF ValInv
  <2> QED BY <2>1 DEF Vals, NowInv, DownInv, ReplayInv
<1> QED BY <1>1, <1>5, <1>6, <1>8, <1>9, <1>10, <1>12, <1>13, <1>14, <1>15, <1>16, <1>18, <1>19
        DEF Inv, Basics, Runs

LEMMA PruneStep == ASSUME Inv, Prune PROVE Inv'
<1>1. /\ SetLog(OnlyCurrent) /\ Settle /\ UNCHANGED <<marker, base, tail, phase, replay, applied, req>>
      /\ phase = "up" /\ admin = "rotated" /\ admin' = "idle"
  BY DEF Prune, dbVars, runVars
<1>2. ~applied' /\ applied' \in BOOLEAN /\ files[Last(segs)].data = <<>>
  BY <1>1, NotApplied DEF Inv, Basics, PhaseInv, Types, TypeInv
<1> QED BY <1>1, <1>2, PruneInv

LEMMA RecoverPruneStep == ASSUME Inv, RecoverPrune PROVE Inv'
<1>1. /\ SetLog(OnlyCurrent) /\ Settle /\ UNCHANGED <<marker, base, tail, replay, admin, req>>
      /\ phase = "rotated" /\ applied' = FALSE /\ phase' = "up"
  BY DEF RecoverPrune, dbVars
<1>2. admin' = "idle" /\ files[Last(segs)].data = <<>>
  BY <1>1 DEF Inv, Basics, PhaseInv
<1> QED BY <1>1, <1>2, PruneInv

-----------------------------------------------------------------------------
(* The start.                                                              *)

(* What a start reads is what the log was: nothing is rotated. *)
LEMMA StartLog ==
  ASSUME Inv, NamesInOrder, Start
  PROVE  /\ Lists(FileNames, files) /\ files' = files /\ segs' = FileNames /\ UNCHANGED <<policy, pruned>>
         /\ Logs'
         /\ \/ replay' = <<>> /\ (phase' = "replay" => marker)
            \/ ~marker /\ replay' = ReadAll(files, FileNames)
         /\ phase' \in {"hung", "replay"} /\ (phase' = "hung" => replay' = <<>>)
<1>1. Lists(segs, files) /\ NotFull /\ Synced
  BY DEF Inv, Logs, SegInv
<1>2. PICK s : s = FileNames
  OBVIOUS
<1>3. Lists(s, files)
  BY <1>1, <1>2, StartLists
<1>4. s[Len(s)] = segs[Len(segs)]
  <2>1. /\ s[Len(s)] \in DOMAIN files /\ segs[Len(segs)] \in DOMAIN files
        /\ \A n \in DOMAIN files : n \in Nat /\ n <= s[Len(s)] /\ n <= segs[Len(segs)]
    BY <1>1, <1>3, ListsFacts
  <2>2. PICK a \in Nat, b \in Nat : a = s[Len(s)] /\ b = segs[Len(segs)]
    BY <2>1
  <2> QED BY <2>1, <2>2
<1>5. ~Full(files, s)
  BY <1>1, <1>4 DEF NotFull, Full
<1>6. PICK new : new = [files |-> files, segs |-> s]
  OBVIOUS
<1>   DEFINE torn == \E i \in DOMAIN new.segs : new.segs[i] \in DOMAIN new.files
                                         /\ new.files[new.segs[i]].torn
<1>8. /\ SetLog(new)
      /\ phase' = IF ~marker /\ torn THEN "hung" ELSE "replay"
      /\ replay' = IF marker \/ torn THEN <<>> ELSE ReadAll(new.files, new.segs)
  BY <1>2, <1>5, <1>6 DEF Start
<1> HIDE DEF torn
<1>9. files' = files /\ segs' = s /\ policy' = policy
  BY <1>6, <1>8 DEF SetLog
<1>10. PrunedBy(files) = {}
  BY DEF PrunedBy, Deleted
<1>11. pruned' = pruned
  BY <1>6, <1>8, <1>10 DEF SetLog
<1>12. Logs'
  BY <1>1, <1>3, <1>5, <1>9 DEF Logs, SegInv, NotFull, Synced
<1>13. /\ \/ replay' = <<>> /\ (phase' = "replay" => marker)
          \/ ~marker /\ replay' = ReadAll(files, s)
       /\ phase' \in {"hung", "replay"} /\ (phase' = "hung" => replay' = <<>>)
  BY <1>6, <1>8
<1> QED BY <1>2, <1>3, <1>9, <1>11, <1>12, <1>13

(* The last entry redone for a document leaves what it should have. *)
LEMMA LastRight ==
  ASSUME Inv, phase = "down", NEW d \in Docs, Clean(d), NEW p \in At(files), Redone(EntryAt(files, p), d),
         \A q \in At(files) : Redone(EntryAt(files, q), d) => ~Before(p, q)
  PROVE  ValueOf(EntryAt(files, p)) \in Known(d)
<1>1. PICK e : e = EntryAt(files, p)
  OBVIOUS
<1>2. e \in Entries
  BY <1>1, EntriesAt DEF Entries
<1>3. Allowed(d) = Known(d)
  BY NoneRun, AllowedKnown
<1>4. CASE Mine(e, d)
  <2>1. ValueOf(e) = last[d].val
    BY <1>2, <1>4 DEF Inv, Basics, LastInv, Mine
  <2> QED BY <1>1, <2>1 DEF Known
<1>5. CASE ~Mine(e, d)
  <2>1. SUFFICES ASSUME Bad(e, d) PROVE FALSE
    BY <1>1, <1>3, <1>5 DEF Bad
  <2>2. /\ \A q \in At(files) : Mine(EntryAt(files, q), d) => ~Before(q, p)
        /\ MineThere(d)
    BY <1>1, <2>1 DEF Inv, Runs, OrderInv
  <2>3. PICK q \in At(files) : Mine(EntryAt(files, q), d)
    BY <2>2 DEF MineThere
  <2>4. ~Before(q, p) /\ ~Before(p, q) /\ q # p
    BY <1>1, <1>5, <2>2, <2>3 DEF Mine
  <2> QED BY <2>4, BeforeOrder DEF Inv, Basics, Types, TypeInv
<1> QED BY <1>4, <1>5

LEMMA StartReplay ==
  ASSUME Inv, phase = "down", ~marker, NEW s, Lists(s, files), NEW R, R = ReadAll(files, s),
         NEW d \in Docs \ excused, NEW left, left = {i \in DOMAIN R : Redone(R[i], d)}
  PROVE  IF \E i \in left : KindOf(Val(d)) # "large" \/ R[i].op = "insert"
         THEN \E i \in left : (\A j \in left : j <= i) /\ ValueOf(R[i]) \in Known(d)
         ELSE Val(d) \in Known(d)
<1>1. FilesOK(files) /\ ~applied
  BY DEF Inv, Basics, Types, TypeInv, PhaseInv
<1>2. /\ R \in Seq(LogEntry) /\ ToSet(R) = EntriesIn(files)
      /\ (\E i \in DOMAIN R : Redone(R[i], d)) =>
              \E j \in DOMAIN R, p \in At(files) :
                /\ Redone(R[j], d) /\ \A i \in DOMAIN R : Redone(R[i], d) => i <= j
                /\ R[j] = EntryAt(files, p)
                /\ \A q \in At(files) : Redone(EntryAt(files, q), d) => ~Before(p, q)
  BY <1>1, ReadLast
<1>3. d \notin (raced \cup NotRedone) \cap DocsIn(files) /\ d \notin PassedOver(NowVals, files)
  BY DEF Inv, Vals, DownInv
<1>4. Val(d) \in Known(d) \/ MineThere(d)
  <2>1. d \notin NowExcused
    BY <1>1, <1>3 DEF NowExcused, Excuses
  <2> QED BY <2>1 DEF Inv, Vals, NowInv
<1>5. \A e \in EntriesIn(files) : \E i \in DOMAIN R : e = R[i]
  BY <1>2 DEF ToSet
<1>6. \A e \in EntriesIn(files) : Redone(e, d) => \E i \in left : e = R[i]
  BY <1>5
<1>7. \A i \in DOMAIN R : R[i] \in EntriesIn(files)
  BY <1>2 DEF ToSet
<1>8. ASSUME left # {}
      PROVE  \E i \in left : (\A j \in left : j <= i) /\ ValueOf(R[i]) \in Known(d)
  <2>1. \E i \in DOMAIN R : Redone(R[i], d)
    BY <1>8
  <2>2. PICK j \in DOMAIN R, p \in At(files) :
          /\ Redone(R[j], d) /\ \A i \in DOMAIN R : Redone(R[i], d) => i <= j
          /\ R[j] = EntryAt(files, p)
          /\ \A q \in At(files) : Redone(EntryAt(files, q), d) => ~Before(p, q)
    BY <1>2, <2>1
  <2>3. d \in DocsIn(files)
    BY <1>7, <2>2 DEF DocsIn, Redone
  <2>4. Clean(d)
    BY <1>1, <1>3, <2>3 DEF Clean
  <2>5. ValueOf(R[j]) \in Known(d)
    BY <2>2, <2>4, LastRight
  <2> QED BY <2>2, <2>5
<1>9. ASSUME ~ \E i \in left : KindOf(Val(d)) # "large" \/ R[i].op = "insert" PROVE Val(d) \in Known(d)
  <2>1. SUFFICES ASSUME MineThere(d) PROVE FALSE
    BY <1>4
  <2>2. PICK e \in EntriesIn(files) : Mine(e, d)
    BY <2>1, MineEntry
  <2>3. PICK i \in left : e = R[i]
    BY <1>6, <2>2 DEF Mine
  <2>4. KindOf(Val(d)) = "large" /\ e.op = "delete"
    BY <1>9, <2>2, <2>3 DEF Mine, Redone
  <2>5. last[d].val = Gone
    <3>1. e \in Entries
      BY DEF Entries
    <3>2. ValueOf(e) = Gone /\ e.by = last[d].by
      BY <2>2, <2>4 DEF ValueOf, Mine
    <3> QED BY <3>1, <3>2 DEF Inv, Basics, LastInv
  <2>6. ASSUME NEW x \in EntriesIn(files), x.op = "insert", d \in x.docs PROVE FALSE
    <3>1. Redone(x, d)
      BY <2>6 DEF Redone
    <3> QED BY <1>6, <1>9, <2>6, <3>1
  <2>7. NowVals[d] = Val(d)
    BY DEF NowVals
  <2>8. d \in PassedOver(NowVals, files)
    BY <2>4, <2>5, <2>6, <2>7 DEF PassedOver
  <2> QED BY <1>3, <2>8
<1> QED BY <1>8, <1>9

LEMMA StartStep == ASSUME Inv, NamesInOrder, Start PROVE Inv'
<1>1. /\ Lists(FileNames, files) /\ files' = files /\ UNCHANGED <<policy, pruned>> /\ Logs'
      /\ \/ replay' = <<>> /\ (phase' = "replay" => marker)
         \/ ~marker /\ replay' = ReadAll(files, FileNames)
      /\ phase' \in {"hung", "replay"} /\ (phase' = "hung" => replay' = <<>>)
  BY StartLog
<1>2. /\ UNCHANGED <<base, tail, applied, req, admin, last, raced, excused>>
      /\ phase = "down" /\ marker' = FALSE
  BY DEF Start, dbVars
<1>3. Types /\ ~applied /\ FilesOK(files) /\ admin = "idle"
  BY <1>2 DEF Inv, Basics, PhaseInv, Types, TypeInv
<1>4. ReqTypes' /\ ReqStep /\ (\A v : KindOf(v)' = KindOf(v))
  BY <1>2, <1>3, SameReq
<1>5. \A r \in Requests : ~Active(r) /\ ~Active(r)'
  BY <1>2, NoneRun DEF Active
<1>6. replay' \in Seq(LogEntry) /\ ToSet(replay') \subseteq EntriesIn(files)
  <2>1. PICK R : R = ReadAll(files, FileNames)
    OBVIOUS
  <2>2. R \in Seq(LogEntry) /\ ToSet(R) = EntriesIn(files)
    BY <1>1, <1>3, <2>1, ReadLast
  <2>3. <<>> \in Seq(LogEntry) /\ ToSet(<<>>) = {}
    BY DEF ToSet
  <2> QED BY <1>1, <2>1, <2>2, <2>3
<1>7. Types'
  <2>1. req' \in [Requests -> Request]
    BY <1>4 DEF ReqTypes
  <2>2. TypeInv'
    BY <1>1, <1>2, <1>3, <1>6, <2>1 DEF Types, TypeInv
  <2> QED BY <1>4, <2>2 DEF Types
<1>8. PhaseInv'
  BY <1>1, <1>2, <1>3, <1>5 DEF PhaseInv
<1>9. Entries' \subseteq Entries
  BY <1>1, <1>6 DEF Entries
<1>10. EntryInv' /\ LastInv'
  BY <1>2, <1>3, <1>4, <1>9, EntryStays, LastStays DEF Inv, Basics
<1>11. \A d \in Docs : /\ Val(d)' = Val(d) /\ Starts(d)' = Starts(d) /\ Known(d)' = Known(d)
                       /\ Allowed(d)' = Allowed(d)
  BY <1>2 DEF Val, Starts, Known, LostValues, Allowed, Unfinished, Meant, Active
<1>12. SourceInv'
  BY <1>2, <1>3, <1>4, <1>7, <1>11, SourceKept DEF Inv, Basics
<1>13. BatchInv' /\ DelInv' /\ OwnInv'
  BY <1>5 DEF BatchInv, BatchOf, DelInv, DelOf, OwnInv, OwnOf
<1>14. NotRedone' = NotRedone /\ Rewound' = Rewound /\ Excuses' = Excuses
  <2>1. NotRedone' = NotRedone
    BY <1>2, <1>3, <1>4, NotRedoneKept DEF Inv, Basics
  <2>2. Rewound' = Rewound
    BY <1>1, <1>2 DEF Rewound
  <2>3. DocsIn(files') = DocsIn(files)
    BY <1>1
  <2> QED BY <1>2, <2>1, <2>2, <2>3 DEF Excuses
<1>15. \A d \in Docs : (Clean(d)' <=> Clean(d)) /\ (MineThere(d)' <=> MineThere(d))
  BY <1>1, <1>2, <1>14 DEF Clean, MineThere, Mine, Redone
<1>16. OrderInv'
  <2> SUFFICES ASSUME NEW d \in Docs, Clean(d)', NEW q \in At(files), Bad(EntryAt(files, q), d)'
               PROVE  /\ \A p \in At(files) : Mine(EntryAt(files, p), d) => ~Before(p, q)
                      /\ MineThere(d)
    BY <1>1, <1>2, <1>15 DEF OrderInv, Mine, Redone
  <2>1. Bad(EntryAt(files, q), d)
    BY <1>1, <1>2, <1>11 DEF Bad, Mine, Redone, ValueOf
  <2> QED BY <1>15, <2>1 DEF OrderInv, Inv, Runs
<1>17. CovInv'
  <2> SUFFICES ASSUME NEW d \in Docs, Clean(d), d \notin pruned, NEW v \in Starts(d), v \notin Allowed(d)
               PROVE  MineThere(d)
    BY <1>1, <1>11, <1>15 DEF CovInv
  <2> QED BY DEF Inv, Runs, CovInv
<1>18. TailInv'
  <2>1. Unsynced' = Unsynced /\ DocsIn(files') = DocsIn(files)
    BY <1>1, <1>2 DEF Unsynced
  <2> QED BY <1>1, <2>1 DEF Inv, Runs, TailInv
<1>19. NowInv'
  <2> SUFFICES ASSUME NEW d \in Docs, d \notin NowExcused PROVE Val(d) \in Known(d) \/ MineThere(d)
    BY <1>2, <1>11, <1>14, <1>15 DEF NowInv, NowExcused
  <2> QED BY <1>2 DEF Inv, Vals, NowInv
<1>20. ReplayInv'
  <2> SUFFICES ASSUME phase' = "replay", NEW d \in Docs \ excused PROVE Decides(d)'
    BY <1>1, <1>2 DEF ReplayInv
  <2>1. Val(d)' = Val(d) /\ KindOf(Val(d))' = KindOf(Val(d)) /\ Known(d)' = Known(d)
    <3>1. KindOf(Val(d))' = KindOf(Val(d))
      BY <1>2 DEF KindOf, Val
    <3> QED BY <1>11, <3>1
  <2>2. CASE replay' = <<>> /\ marker
    <3>1. DOMAIN replay' = {}
      BY <2>2
    <3>2. RedoneLeft(d)' = {}
      BY <3>1 DEF RedoneLeft
    <3>3. Val(d) \in Known(d)
      BY <1>2, <2>2 DEF Inv, Vals, ValInv
    <3> QED BY <2>1, <3>2, <3>3 DEF Decides
  <2>3. CASE ~marker /\ replay' = ReadAll(files, FileNames)
    <3>1. PICK R : R = ReadAll(files, FileNames)
      OBVIOUS
    <3>2. PICK s : s = FileNames
      OBVIOUS
    <3>3. PICK left : left = {i \in DOMAIN R : Redone(R[i], d)}
      OBVIOUS
    <3>4. Lists(s, files) /\ R = ReadAll(files, s)
      BY <1>1, <3>1, <3>2
    <3>5. IF \E i \in left : KindOf(Val(d)) # "large" \/ R[i].op = "insert"
          THEN \E i \in left : (\A j \in left : j <= i) /\ ValueOf(R[i]) \in Known(d)
          ELSE Val(d) \in Known(d)
      BY <1>2, <2>3, <3>3, <3>4, StartReplay
    <3>6. replay' = R
      BY <2>3, <3>1
    <3>7. RedoneLeft(d)' = left
      BY <3>3, <3>6 DEF RedoneLeft, Redone
    <3> QED BY <2>1, <3>5, <3>6, <3>7 DEF Decides, ValueOf
  <2> QED BY <1>1, <2>2, <2>3
<1>21. Vals'
  BY <1>1, <1>19, <1>20 DEF Vals, ValInv, DownInv
<1> QED BY <1>1, <1>7, <1>8, <1>10, <1>12, <1>13, <1>16, <1>17, <1>18, <1>21 DEF Inv, Basics, Runs

-----------------------------------------------------------------------------
(* Replay: what is left to redo decides what a document will hold.         *)

LEMMA TailFacts ==
  ASSUME Types, replay # <<>>, replay' = Tail(replay)
  PROVE  /\ replay' \in Seq(LogEntry) /\ ToSet(replay') \subseteq ToSet(replay)
         /\ Head(replay) \in Entries /\ Head(replay) \in LogEntry
<1>1. replay \in Seq(LogEntry)
  BY DEF Types, TypeInv
<1>2. Head(replay) = replay[1] /\ 1 \in DOMAIN replay /\ replay' \in Seq(LogEntry)
  BY <1>1
<1>3. ToSet(replay') \subseteq ToSet(replay)
  <2>1. \A i \in DOMAIN replay' : i + 1 \in DOMAIN replay /\ replay'[i] = replay[i + 1]
    BY <1>1
  <2> QED BY <2>1 DEF ToSet
<1>4. Head(replay) \in ToSet(replay)
  BY <1>2 DEF ToSet
<1> QED BY <1>1, <1>2, <1>3, <1>4 DEF Entries

(* The entries left to redo, after the first is gone. *)
LEMMA TailLeft ==
  ASSUME Types, replay # <<>>, replay' = Tail(replay), NEW d
  PROVE  /\ \A i \in RedoneLeft(d) : /\ i \in Nat /\ i # 0 /\ (i = 1 => replay[i] = Head(replay))
                                     /\ i # 1 => i - 1 \in RedoneLeft(d)' /\ replay'[i - 1] = replay[i]
         /\ \A i \in RedoneLeft(d)' : /\ i \in Nat /\ i + 1 \in RedoneLeft(d) /\ replay'[i] = replay[i + 1]
                                      /\ i # 0
         /\ Redone(Head(replay), d) <=> 1 \in RedoneLeft(d)
<1>1. replay \in Seq(LogEntry) /\ Len(replay) \in Nat \ {0}
  BY DEF Types, TypeInv
<1>2. PICK n \in Nat : n = Len(replay)
  BY <1>1
<1>3. /\ DOMAIN replay = 1 .. n /\ DOMAIN replay' = 1 .. (n - 1) /\ n # 0
      /\ \A i \in 1 .. (n - 1) : replay'[i] = replay[i + 1]
      /\ Head(replay) = replay[1]
  BY <1>1, <1>2
<1>4. /\ \A i \in 1 .. n : i \in Nat /\ i # 0 /\ (i # 1 => i - 1 \in 1 .. (n - 1) /\ (i - 1) + 1 = i)
      /\ \A i \in 1 .. (n - 1) : i \in Nat /\ i + 1 \in 1 .. n /\ i # 0
      /\ 1 \in 1 .. n
  BY <1>3
<1>5. /\ RedoneLeft(d) = {i \in 1 .. n : Redone(replay[i], d)}
      /\ RedoneLeft(d)' = {i \in 1 .. (n - 1) : Redone(replay'[i], d)}
  BY <1>3 DEF RedoneLeft, Redone
<1>6. ASSUME NEW i \in RedoneLeft(d), i # 1 PROVE i - 1 \in RedoneLeft(d)' /\ replay'[i - 1] = replay[i]
  <2>1. i \in 1 .. n /\ Redone(replay[i], d)
    BY <1>5
  <2>2. i - 1 \in 1 .. (n - 1) /\ (i - 1) + 1 = i
    BY <1>4, <1>6, <2>1
  <2>3. replay'[i - 1] = replay[(i - 1) + 1]
    BY <1>3, <2>2
  <2>4. replay'[i - 1] = replay[i]
    BY <2>2, <2>3
  <2> QED BY <1>5, <2>1, <2>2, <2>4
<1>7. \A i \in RedoneLeft(d) : i \in Nat /\ i # 0 /\ (i = 1 => replay[i] = Head(replay))
  BY <1>3, <1>4, <1>5
<1>8. \A i \in RedoneLeft(d)' : /\ i \in Nat /\ i + 1 \in RedoneLeft(d) /\ replay'[i] = replay[i + 1]
                                /\ i # 0
  BY <1>3, <1>4, <1>5
<1>9. Redone(Head(replay), d) <=> 1 \in RedoneLeft(d)
  BY <1>3, <1>4, <1>5
<1> QED BY <1>6, <1>7, <1>8, <1>9

(* i is the last entry left to redo for d. *)
IsLast(i, d) == i \in RedoneLeft(d) /\ \A j \in RedoneLeft(d) : j <= i

LEMMA TailLast ==
  ASSUME Types, replay # <<>>, replay' = Tail(replay), NEW d, NEW i, IsLast(i, d)
  PROVE  /\ i # 1 => IsLast(i - 1, d)' /\ replay'[i - 1] = replay[i]
         /\ i = 1 => RedoneLeft(d)' = {}
<1>1. /\ \A j \in RedoneLeft(d) : /\ j \in Nat
                                  /\ j # 1 => j - 1 \in RedoneLeft(d)' /\ replay'[j - 1] = replay[j]
      /\ \A j \in RedoneLeft(d)' : j \in Nat /\ j + 1 \in RedoneLeft(d) /\ j # 0
  BY TailLeft
<1>2. ASSUME NEW j \in RedoneLeft(d)' PROVE j + 1 <= i /\ j \in Nat /\ i \in Nat /\ j # 0
  BY <1>1 DEF IsLast
<1>3. ASSUME i # 1 PROVE IsLast(i - 1, d)' /\ replay'[i - 1] = replay[i]
  <2>1. \A j \in RedoneLeft(d)' : j <= i - 1
    <3> SUFFICES ASSUME NEW j \in RedoneLeft(d)' PROVE j <= i - 1
      OBVIOUS
    <3>1. j + 1 <= i /\ j \in Nat /\ i \in Nat
      BY <1>2
    <3> QED BY <3>1
  <2> QED BY <1>1, <1>3, <2>1 DEF IsLast
<1>4. ASSUME i = 1 PROVE RedoneLeft(d)' = {}
  <2> SUFFICES ASSUME NEW j, j \in RedoneLeft(d)' PROVE FALSE
    OBVIOUS
  <2>1. j + 1 <= i /\ j \in Nat /\ j # 0
    BY <1>2
  <2> QED BY <1>4, <2>1
<1> QED BY <1>3, <1>4

LEMMA DecidesIs ==
  ASSUME NEW d
  PROVE  Decides(d) <=> IF \E i \in RedoneLeft(d) : KindOf(Val(d)) # "large" \/ replay[i].op = "insert"
                        THEN \E i : IsLast(i, d) /\ ValueOf(replay[i]) \in Known(d)
                        ELSE Val(d) \in Known(d)
BY DEF Decides, IsLast

LEMMA DecidesIsAfter ==
  ASSUME NEW d
  PROVE  Decides(d)' <=> IF \E i \in RedoneLeft(d)' : KindOf(Val(d))' # "large" \/ replay'[i].op = "insert"
                         THEN \E i : IsLast(i, d)' /\ ValueOf(replay'[i]) \in Known(d)'
                         ELSE Val(d)' \in Known(d)'
BY DEF Decides, IsLast, ValueOf

(* The first entry is not redone for d, or makes no difference. *)
LEMMA DecidesTail ==
  ASSUME Types, replay # <<>>, replay' = Tail(replay), NEW d, Decides(d),
         Val(d)' = Val(d), KindOf(Val(d))' = KindOf(Val(d)), Known(d)' = Known(d),
         \/ ~Redone(Head(replay), d)
         \/ Head(replay).op = "delete" /\ KindOf(Val(d)) = "large"
  PROVE  Decides(d)'
<1> DEFINE C(i) == KindOf(Val(d)) # "large" \/ replay[i].op = "insert"
<1>1. /\ \A i \in RedoneLeft(d) : /\ i \in Nat /\ i # 0 /\ (i = 1 => replay[i] = Head(replay))
                                  /\ i # 1 => i - 1 \in RedoneLeft(d)' /\ replay'[i - 1] = replay[i]
      /\ \A i \in RedoneLeft(d)' : i \in Nat /\ i + 1 \in RedoneLeft(d) /\ replay'[i] = replay[i + 1]
      /\ Redone(Head(replay), d) <=> 1 \in RedoneLeft(d)
  BY TailLeft
<1>2. CASE \E i \in RedoneLeft(d) : C(i)
  <2>1. PICK i : IsLast(i, d) /\ ValueOf(replay[i]) \in Known(d)
    BY <1>2, DecidesIs
  <2>2. PICK k \in RedoneLeft(d) : C(k)
    BY <1>2
  <2>3. k # 1
    BY <1>1, <2>2
  <2>4. i # 1
    <3>1. k <= i /\ k \in Nat /\ i \in Nat
      BY <1>1, <2>1 DEF IsLast
    <3>2. k # 0
      BY <1>1
    <3> QED BY <2>3, <3>1, <3>2
  <2>5. IsLast(i - 1, d)' /\ replay'[i - 1] = replay[i]
    BY <2>1, <2>4, TailLast
  <2>6. k - 1 \in RedoneLeft(d)' /\ replay'[k - 1] = replay[k]
    BY <1>1, <2>3
  <2>7. \E j \in RedoneLeft(d)' : KindOf(Val(d))' # "large" \/ replay'[j].op = "insert"
    BY <2>2, <2>6
  <2>8. \E j : IsLast(j, d)' /\ ValueOf(replay'[j]) \in Known(d)'
    BY <2>1, <2>5
  <2> QED BY <2>7, <2>8, DecidesIsAfter
<1>3. CASE ~ \E i \in RedoneLeft(d) : C(i)
  <2>1. Val(d)' \in Known(d)'
    BY <1>3, DecidesIs
  <2>2. ~ \E j \in RedoneLeft(d)' : KindOf(Val(d))' # "large" \/ replay'[j].op = "insert"
    BY <1>1, <1>3
  <2> QED BY <2>1, <2>2, DecidesIsAfter
<1> QED BY <1>2, <1>3

(* The first entry is stored in d. *)
LEMMA DecidesStored ==
  ASSUME Types, replay # <<>>, replay' = Tail(replay), NEW d, Decides(d),
         Val(d)' = ValueOf(Head(replay)), KindOf(Val(d))' # "large", Known(d)' = Known(d),
         Redone(Head(replay), d), KindOf(Val(d)) # "large" \/ Head(replay).op = "insert"
  PROVE  Decides(d)'
<1>1. 1 \in RedoneLeft(d) /\ replay[1] = Head(replay)
  BY TailLeft
<1>2. PICK i : IsLast(i, d) /\ ValueOf(replay[i]) \in Known(d)
  BY <1>1, DecidesIs
<1>3. CASE i = 1
  <2>1. RedoneLeft(d)' = {}
    BY <1>2, <1>3, TailLast
  <2> QED BY <1>1, <1>2, <1>3, <2>1, DecidesIsAfter
<1>4. CASE i # 1
  <2>1. IsLast(i - 1, d)' /\ replay'[i - 1] = replay[i]
    BY <1>2, <1>4, TailLast
  <2>2. i - 1 \in RedoneLeft(d)'
    BY <2>1 DEF IsLast
  <2>3. \E j : IsLast(j, d)' /\ ValueOf(replay'[j]) \in Known(d)'
    BY <1>2, <2>1
  <2> QED BY <2>2, <2>3, DecidesIsAfter
<1> QED BY <1>3, <1>4

-----------------------------------------------------------------------------
(* Replay: logging again.                                                  *)

(* Recovery logs: what is known of a document nothing is known against     *)
(* then.                                                                   *)
LEMMA NowLog ==
  ASSUME Inv, Types', EntryInv', LastInv', UNCHANGED <<base, tail, req, last, raced, excused>>,
         NEW S, LogStep(S), applied', phase \notin {"up", "closing", "rotated"},
         NEW d \in Docs, d \notin NowExcused'
  PROVE  Val(d) \in Known(d) \/ MineThere(d)'
<1> SUFFICES ASSUME ~Stable(d) PROVE Val(d) \in Known(d) \/ MineThere(d)'
  <2>1. Stable(d) => Val(d) \in Known(d)
    BY StableStarts DEF Known, Inv, Basics
  <2> QED BY <2>1
<1>1. Types /\ EntryInv /\ LastInv /\ ReqStep /\ NotRedone' = NotRedone
  <2>1. Types /\ EntryInv /\ LastInv
    BY DEF Inv, Basics
  <2>2. ReqStep
    BY <2>1, SameReq
  <2> QED BY <2>1, <2>2, NotRedoneKept
<1>2. /\ d \notin excused /\ d \notin (raced \cup NotRedone) \cap DocsIn(files')
      /\ d \notin Rewound'
  BY <1>1 DEF NowExcused, Excuses
<1>3. d \notin pruned' /\ d \notin pruned
  BY <1>2 DEF Rewound, LogStep
<1>4. CASE d \in (raced \cup NotRedone) \cap DocsIn(files)
  <2>1. PICK e \in EntriesIn(files) : d \in e.docs
    BY <1>4 DEF DocsIn
  <2>2. \A x \in EntriesIn(files') : d \notin x.docs
    BY <1>2, <1>4 DEF DocsIn
  <2>3. \E x \in EntriesIn(files') : d \in x.docs
    BY <1>3, <2>1, <2>2, StillThere
  <2> QED BY <2>2, <2>3
<1>5. CASE d \notin (raced \cup NotRedone) \cap DocsIn(files) /\ applied /\ d \in Rewound
  <2>1. PICK e \in EntriesIn(files) : e.op \in {"insert", "delete"} /\ d \in e.docs /\ e.by # last[d].by
    BY <1>3, <1>5 DEF Rewound
  <2>2. e \notin EntriesIn(files')
    BY <1>2, <2>1 DEF Rewound
  <2>3. d \notin NotRedone
    BY <1>5, <2>1 DEF DocsIn
  <2> QED BY <1>1, <1>3, <2>1, <2>2, <2>3, StillMine
<1>6. CASE d \notin NowExcused
  <2>1. Val(d) \in Known(d) \/ MineThere(d)
    BY <1>6 DEF Inv, Vals, NowInv
  <2>2. ASSUME MineThere(d) PROVE d \notin NotRedone
    <3>1. PICK e \in EntriesIn(files) : Mine(e, d)
      BY <2>2, MineEntry
    <3>2. d \in DocsIn(files)
      BY <3>1 DEF DocsIn, Mine, Redone
    <3> QED BY <1>6, <3>2 DEF NowExcused, Excuses
  <2> QED BY <1>1, <1>3, <2>1, <2>2, MineStays
<1> QED BY <1>2, <1>4, <1>5, <1>6 DEF NowExcused, Excuses

(* Recovery logs again what the first entry left to it says. *)
LEMMA LogsAgain ==
  ASSUME Inv, UNCHANGED <<marker, base, tail, req, last, raced, excused>>,
         NEW es \in Seq(LogEntry), SetLog(Logged(files, segs, es)), Again(ToSet(es)),
         phase = "replay", applied', applied' \in BOOLEAN, phase' \in {"replay", "redo"},
         replay' \in Seq(LogEntry), ToSet(replay') \subseteq ToSet(replay), PhaseInv',
         \A d \in Docs \ excused : Decides(d) => Decides(d)'
  PROVE  Inv'
<1> DEFINE S == ToSet(es)
<1>1. LogStep(S) /\ Logs' /\ FilesOK(files') /\ pruned' \in SUBSET Docs
  BY LoggedStep
<1>2. Again(S)
  OBVIOUS
<1> HIDE DEF S
<1>3. Types' /\ EntryInv' /\ LastInv'
  BY <1>1, <1>2, AgainBasics
<1>4. OwnInv'
  <2>1. \A r \in Requests : ~Active(r)'
    BY NoneRun DEF Active
  <2> QED BY <2>1 DEF OwnInv, OwnOf
<1>5. OrderInv'
  BY OrderAppliedAfter
<1>6. NowInv'
  <2> SUFFICES ASSUME NEW d \in Docs, d \notin NowExcused' PROVE Val(d)' \in Known(d)' \/ MineThere(d)'
    BY DEF NowInv
  <2>1. Val(d)' = Val(d) /\ Known(d)' = Known(d)
    BY DEF Val, Known, LostValues
  <2>2. Val(d) \in Known(d) \/ MineThere(d)'
    BY <1>1, <1>3, NowLog
  <2> QED BY <2>1, <2>2
<1>7. ReplayInv'
  BY DEF Inv, Vals, ReplayInv
<1>8. Vals'
  BY <1>6, <1>7 DEF Vals, ValInv, DownInv
<1> QED BY <1>1, <1>2, <1>4, <1>5, <1>8, LogOnlyInv

LEMMA ReplayUpdateStep == ASSUME Inv, ReplayUpdate PROVE Inv'
<1>1. /\ UNCHANGED <<marker, base, tail, phase, req, admin, last, raced, excused>>
      /\ phase = "replay" /\ replay # <<>> /\ Head(replay).op = "update"
      /\ SetLog(Logged(files, segs, SetToSeq(EntriesOf("update", Readable, Head(replay).by))))
      /\ replay' = Tail(replay) /\ applied' = TRUE
  BY DEF ReplayUpdate, dbVars, EntriesOf
<1>2. Types
  BY DEF Inv, Basics
<1>3. PICK h : h = Head(replay)
  OBVIOUS
<1>4. /\ replay' \in Seq(LogEntry) /\ ToSet(replay') \subseteq ToSet(replay)
      /\ h \in Entries /\ h \in LogEntry
  BY <1>1, <1>2, <1>3, TailFacts
<1>5. h.by \in Requests /\ h.op = "update" /\ Readable \in SUBSET Docs
  BY <1>1, <1>3, <1>4 DEF LogEntry, Readable, Present
<1>6. PICK es : es = SetToSeq(EntriesOf("update", Readable, h.by))
  OBVIOUS
<1>7. /\ es \in Seq(LogEntry) /\ ToSet(es) = EntriesOf("update", Readable, h.by)
      /\ EntriesOf("update", Readable, h.by) \subseteq LogEntry
  BY <1>5, <1>6, EntrySeq
<1>8. \A e \in ToSet(es) : e.by = h.by /\ e.op = h.op
  BY <1>5, <1>7 DEF EntriesOf
<1>9. Again(ToSet(es))
  BY <1>4, <1>7, <1>8 DEF Again
<1>10. SetLog(Logged(files, segs, es))
  BY <1>1, <1>3, <1>6
<1>11. PhaseInv'
  BY <1>1 DEF Inv, Basics, PhaseInv, Active
<1>12. ASSUME NEW d \in Docs, Decides(d) PROVE Decides(d)'
  <2>1. Val(d)' = Val(d) /\ KindOf(Val(d))' = KindOf(Val(d)) /\ Known(d)' = Known(d)
    BY <1>1 DEF Val, Known, LostValues, KindOf
  <2>2. ~Redone(Head(replay), d)
    BY <1>1 DEF Redone
  <2> QED BY <1>1, <1>2, <1>12, <2>1, <2>2, DecidesTail
<1> QED BY <1>1, <1>4, <1>7, <1>9, <1>10, <1>11, <1>12, LogsAgain

LEMMA ReplayLogStep == ASSUME Inv, ReplayLog PROVE Inv'
<1>1. /\ UNCHANGED <<marker, base, tail, replay, req, admin, last, raced, excused>>
      /\ phase = "replay" /\ replay # <<>> /\ Head(replay).op \in {"insert", "delete"}
      /\ SetLog(Logged(files, segs, [i \in 1 .. Cardinality(Affected(Head(replay))) |-> Head(replay)]))
      /\ phase' = "redo" /\ applied' = TRUE
  BY DEF ReplayLog, dbVars
<1>2. Types
  BY DEF Inv, Basics
<1>3. PICK h : h = Head(replay)
  OBVIOUS
<1>4. h \in Entries /\ h \in LogEntry /\ replay' \in Seq(LogEntry) /\ ToSet(replay') \subseteq ToSet(replay)
  <2>1. replay \in Seq(LogEntry)
    BY <1>2 DEF Types, TypeInv
  <2>2. h = replay[1] /\ 1 \in DOMAIN replay
    BY <1>1, <1>3, <2>1
  <2>3. h \in ToSet(replay) /\ h \in LogEntry
    BY <2>1, <2>2 DEF ToSet
  <2> QED BY <1>1, <2>1, <2>3 DEF Entries
<1>5. PICK n : n = Cardinality(Affected(h))
  OBVIOUS
<1>6. n \in Nat
  <2>1. Affected(h) \subseteq Docs
    BY <1>4 DEF Affected, LogEntry
  <2>2. IsFiniteSet(Affected(h))
    BY <2>1, FS_Subset, ConstantsAssumption
  <2> QED BY <1>5, <2>2, FS_CardinalityType
<1>7. PICK es : es = [i \in 1 .. n |-> h]
  OBVIOUS
<1>8. es \in Seq(LogEntry) /\ \A e \in ToSet(es) : e = h
  BY <1>4, <1>6, <1>7 DEF ToSet
<1>9. Again(ToSet(es))
  BY <1>4, <1>8 DEF Again
<1>10. SetLog(Logged(files, segs, es))
  BY <1>1, <1>3, <1>5, <1>7
<1>11. PhaseInv'
  BY <1>1 DEF Inv, Basics, PhaseInv, Active
<1>12. ASSUME NEW d \in Docs, Decides(d) PROVE Decides(d)'
  <2>1. Val(d)' = Val(d) /\ Known(d)' = Known(d) /\ RedoneLeft(d)' = RedoneLeft(d)
    BY <1>1 DEF Val, Known, LostValues, RedoneLeft, Redone
  <2>2. KindOf(Val(d))' = KindOf(Val(d))
    BY <1>1 DEF KindOf, Val
  <2> QED BY <1>1, <1>12, <2>1, <2>2 DEF Decides, ValueOf
<1> QED BY <1>1, <1>4, <1>8, <1>9, <1>10, <1>11, <1>12, LogsAgain

-----------------------------------------------------------------------------
(* Replay: passing over an entry, and the end of it.                       *)

(* A step that leaves the log alone. *)
LEMMA NoLogStep ==
  ASSUME Inv, UNCHANGED <<policy, files, segs, pruned>>, NEW S, S = {}
  PROVE  LogStep(S) /\ Again(S) /\ Logs' /\ FilesOK(files') /\ pruned' \in SUBSET Docs
<1>1. SameLog /\ Logs' /\ FilesOK(files') /\ FilesOK(files)
  BY SameFilesFacts DEF Inv, Basics, Types, TypeInv
<1>2. Deleted(files') = {}
  BY DEF Deleted
<1>3. PrunedBy(files') = {}
  BY <1>2 DEF PrunedBy
<1>4. Extends(files, files', S)
  BY DEF Extends
<1>5. pruned \in SUBSET Docs
  BY DEF Inv, Basics, Types, TypeInv
<1> QED BY <1>1, <1>3, <1>4, <1>5 DEF LogStep, Again

LEMMA ReplaySkipStep == ASSUME Inv, ReplaySkip PROVE Inv'
<1> DEFINE S == {}
<1>1. /\ UNCHANGED <<policy, files, segs, marker, base, tail, phase, applied, req, admin, last, raced, excused, pruned>>
      /\ phase = "replay" /\ replay # <<>> /\ Head(replay).op = "large" /\ replay' = Tail(replay)
  BY DEF ReplaySkip, dbVars, logVars, ghostVars
<1>2. LogStep(S) /\ Again(S) /\ Logs' /\ pruned' \in SUBSET Docs /\ S = {}
  BY <1>1, NoLogStep
<1> HIDE DEF S
<1>3. Types /\ LastInv /\ OrderInv /\ applied \in BOOLEAN
  BY DEF Inv, Basics, Runs, Types, TypeInv
<1>4. replay' \in Seq(LogEntry) /\ ToSet(replay') \subseteq ToSet(replay)
  BY <1>1, <1>3, TailFacts
<1>5. ReqTypes' /\ ReqStep /\ EndsNone /\ (\A v : KindOf(v)' = KindOf(v))
  BY <1>1, <1>3, SameReq
<1>6. OwnInv'
  <2>1. \A r \in Requests : ~Active(r)'
    BY <1>1, NoneRun DEF Active
  <2> QED BY <2>1 DEF OwnInv, OwnOf
<1>7. OrderInv'
  <2>1. CASE applied
    BY <1>1, <2>1, OrderAppliedAfter
  <2>2. CASE ~applied
    <3>1. \A e \in S : \A d \in Docs : ~Bad(e, d)'
      BY <1>2
    <3>2. UNCHANGED <<last, excused, raced>>
      BY <1>1
    <3> QED BY <1>2, <1>3, <1>5, <2>2, <3>1, <3>2, OrderLog
  <2> QED BY <2>1, <2>2
<1>8. PhaseInv'
  BY <1>1 DEF Inv, Basics, PhaseInv, Active
<1>9. \A d \in Docs : Val(d)' = Val(d) /\ Known(d)' = Known(d)
  BY <1>1 DEF Val, Known, LostValues
<1>10. NowInv'
  <2>1. \A d \in Docs : MineThere(d)' <=> MineThere(d)
    BY <1>1 DEF MineThere, Mine, Redone
  <2>2. NowExcused' = NowExcused
    <3>1. NotRedone' = NotRedone
      BY <1>1, <1>3, <1>5, NotRedoneKept
    <3>2. Rewound' = Rewound
      BY <1>1 DEF Rewound
    <3> QED BY <1>1, <3>1, <3>2 DEF NowExcused, Excuses
  <2> QED BY <1>1, <1>9, <2>1, <2>2 DEF Inv, Vals, NowInv
<1>11. ReplayInv'
  <2> SUFFICES ASSUME NEW d \in Docs \ excused PROVE Decides(d)'
    BY <1>1 DEF ReplayInv
  <2>1. Decides(d)
    BY <1>1 DEF Inv, Vals, ReplayInv
  <2>2. KindOf(Val(d))' = KindOf(Val(d))
    BY <1>1 DEF KindOf, Val
  <2>3. ~Redone(Head(replay), d)
    BY <1>1 DEF Redone
  <2> QED BY <1>1, <1>3, <1>9, <2>1, <2>2, <2>3, DecidesTail
<1>12. Vals'
  BY <1>1, <1>10, <1>11 DEF Vals, ValInv, DownInv
<1>13. applied' \in BOOLEAN /\ applied' = applied
  BY <1>1, <1>3
<1> QED BY <1>1, <1>2, <1>4, <1>6, <1>7, <1>8, <1>12, <1>13, LogOnlyInv

LEMMA OpenStep == ASSUME Inv, Open PROVE Inv'
<1> DEFINE S == {}
<1>1. /\ UNCHANGED <<policy, files, segs, marker, base, tail, replay, applied, req, admin, last, raced, excused, pruned>>
      /\ phase = "replay" /\ replay = <<>> /\ ~applied /\ phase' = "up"
  BY DEF Open, Recovered, dbVars, logVars, ghostVars
<1>2. LogStep(S) /\ Again(S) /\ Logs' /\ pruned' \in SUBSET Docs /\ S = {}
  BY <1>1, NoLogStep
<1> HIDE DEF S
<1>3. Types /\ LastInv /\ OrderInv /\ applied \in BOOLEAN /\ replay \in Seq(LogEntry)
  BY DEF Inv, Basics, Runs, Types, TypeInv
<1>4. ReqTypes' /\ ReqStep /\ EndsNone
  BY <1>1, <1>3, SameReq
<1>5. \A r \in Requests : ~Active(r)'
  BY <1>1, NoneRun DEF Active
<1>6. OwnInv'
  BY <1>5 DEF OwnInv, OwnOf
<1>7. OrderInv'
  <2>1. \A e \in S : \A d \in Docs : ~Bad(e, d)'
    BY <1>2
  <2>2. UNCHANGED <<last, excused, raced>>
    BY <1>1
  <2> QED BY <1>1, <1>2, <1>3, <1>4, <2>1, <2>2, OrderLog
<1>8. PhaseInv'
  BY <1>1, <1>5 DEF Inv, Basics, PhaseInv
<1>9. Vals'
  <2>1. \A d \in Docs : Val(d)' = Val(d) /\ Known(d)' = Known(d)
    BY <1>1 DEF Val, Known, LostValues
  <2>2. ASSUME NEW d \in Docs, d \notin excused PROVE Val(d) \in Known(d)
    <3>1. Decides(d)
      BY <1>1, <2>2 DEF Inv, Vals, ReplayInv
    <3>2. DOMAIN replay = {}
      BY <1>1
    <3>3. RedoneLeft(d) = {}
      BY <3>2 DEF RedoneLeft
    <3> QED BY <3>1, <3>3 DEF Decides
  <2>3. ValInv'
    BY <1>1, <2>1, <2>2 DEF ValInv
  <2> QED BY <1>1, <2>3 DEF Vals, NowInv, DownInv, ReplayInv
<1>10. replay' \in Seq(LogEntry) /\ applied' \in BOOLEAN /\ applied' = applied /\ replay' = replay
  BY <1>1, <1>3
<1> QED BY <1>1, <1>2, <1>6, <1>7, <1>8, <1>9, <1>10, LogOnlyInv

-----------------------------------------------------------------------------
(* Replay: storing.                                                        *)

(* What recovery stores: the first entry left to it, which the log has     *)
(* again unless retention took it.                                         *)
LEMMA ReplayStoreFacts ==
  ASSUME Inv, ReplayStore, NEW e, e = Head(replay), NEW D, D = Affected(e)
  PROVE  /\ UNCHANGED <<policy, files, segs, marker, applied, req, admin, last, raced, excused>>
         /\ phase = "redo" /\ phase' = "replay" /\ replay # <<>> /\ replay' = Tail(replay) /\ applied
         /\ e \in Entries /\ e \in LogEntry /\ e.op \in {"insert", "delete"} /\ ValueOf(e) \in Value
         /\ D \in SUBSET Docs /\ D \subseteq e.docs /\ Store(D, ValueOf(e))
         /\ \A d \in e.docs \ D : e.op = "delete" /\ d \notin Readable
         /\ \A d \in D : e.op = "delete" => d \in Readable
         /\ pruned \subseteq pruned' /\ pruned' \subseteq pruned \cup D
         /\ D \subseteq pruned' \/ e \in EntriesIn(files)
         /\ e.op = "insert" => /\ req[e.by].kind \in {"insert", "batch"} /\ e.by \in Requests
                               /\ req[e.by].pc \in {"done", "lost"} /\ ValueOf(e) = e.by /\ e.by # Gone
         /\ \A r \in Requests : ~Active(r)
<1>1. /\ UNCHANGED <<policy, files, segs, marker, applied, req, admin, last, raced, excused>>
      /\ phase = "redo" /\ phase' = "replay" /\ replay' = Tail(replay)
      /\ Store(D, ValueOf(e)) /\ pruned' = pruned \cup IF e \in EntriesIn(files) THEN {} ELSE D
  BY DEF ReplayStore, logVars
<1>2. applied /\ replay # <<>> /\ e.op \in {"insert", "delete"} /\ \A r \in Requests : ~Active(r)
  BY <1>1 DEF Inv, Basics, PhaseInv
<1>3. Types
  BY DEF Inv, Basics
<1>4. e \in Entries /\ e \in LogEntry
  BY <1>1, <1>2, <1>3, TailFacts
<1>5. ValueOf(e) \in Value /\ e.by \in Requests
  BY <1>4 DEF LogEntry, ValueOf, Value
<1>6. D \in SUBSET Docs /\ D \subseteq e.docs
  BY <1>4 DEF Affected, LogEntry
<1>7. (\A d \in e.docs \ D : e.op = "delete" /\ d \notin Readable) /\ (\A d \in D : e.op = "delete" => d \in Readable)
  BY DEF Affected
<1>8. ASSUME e.op = "insert"
      PROVE  /\ req[e.by].kind \in {"insert", "batch"} /\ req[e.by].pc \in {"done", "lost"}
             /\ ValueOf(e) = e.by /\ e.by # Gone
  <2>1. req[e.by].pc # "idle" /\ e.op = OpOf(req[e.by].kind)
    BY <1>4 DEF Inv, Basics, EntryInv
  <2>2. req[e.by] \in Request
    BY <1>3, <1>5 DEF Types, TypeInv
  <2>3. ~Active(e.by)
    BY <1>2, <1>5
  <2>4. req[e.by].pc \in {"done", "lost"}
    BY <2>1, <2>2, <2>3 DEF Request, Active
  <2>5. req[e.by].kind \in {"insert", "batch"}
    BY <1>8, <2>1, <2>2 DEF Request, OpOf
  <2> QED BY <1>5, <1>8, <2>4, <2>5, ConstantsAssumption DEF ValueOf
<1> QED BY <1>1, <1>2, <1>4, <1>5, <1>6, <1>7, <1>8

LEMMA ReplayStoreStep == ASSUME Inv, ReplayStore PROVE Inv'
<1>1. PICK e : e = Head(replay)
  OBVIOUS
<1>2. PICK D : D = Affected(e)
  OBVIOUS
<1>3. /\ UNCHANGED <<policy, files, segs, marker, applied, req, admin, last, raced, excused>>
      /\ phase = "redo" /\ phase' = "replay" /\ replay # <<>> /\ replay' = Tail(replay) /\ applied
      /\ e \in Entries /\ e \in LogEntry /\ e.op \in {"insert", "delete"} /\ ValueOf(e) \in Value
      /\ D \in SUBSET Docs /\ D \subseteq e.docs /\ Store(D, ValueOf(e))
  BY <1>1, <1>2, ReplayStoreFacts
<1>4. /\ \A d \in e.docs \ D : e.op = "delete" /\ d \notin Readable
      /\ \A d \in D : e.op = "delete" => d \in Readable
      /\ pruned \subseteq pruned' /\ pruned' \subseteq pruned \cup D
      /\ D \subseteq pruned' \/ e \in EntriesIn(files)
      /\ \A r \in Requests : ~Active(r)
  BY <1>1, <1>2, ReplayStoreFacts
<1>5. e.op = "insert" => /\ req[e.by].kind \in {"insert", "batch"} /\ e.by \in Requests
                         /\ req[e.by].pc \in {"done", "lost"} /\ ValueOf(e) = e.by /\ e.by # Gone
  BY <1>1, <1>2, ReplayStoreFacts
<1>6. Types /\ tail \in Seq(Commit)
  BY DEF Inv, Basics, Types, TypeInv
<1>7. /\ tail' \in Seq(Commit) /\ base' = base /\ Unsynced' = Unsynced \cup D
      /\ \A d \in Docs : /\ Val(d)' = IF d \in D THEN ValueOf(e) ELSE Val(d)
                         /\ Starts(d)' = Starts(d) \cup IF d \in D THEN {ValueOf(e)} ELSE {}
  BY <1>3, <1>6, StoreFacts
<1>8. ReqTypes' /\ ReqStep /\ (\A v : KindOf(v)' = KindOf(v))
  BY <1>3, <1>6, SameReq
<1>9. replay' \in Seq(LogEntry) /\ ToSet(replay') \subseteq ToSet(replay)
  BY <1>3, <1>6, TailFacts
<1>10. Types'
  <2>1. req' \in [Requests -> Request]
    BY <1>8 DEF ReqTypes
  <2>2. pruned' \in SUBSET Docs
    BY <1>3, <1>4, <1>6 DEF Types, TypeInv
  <2>3. TypeInv'
    BY <1>3, <1>6, <1>7, <1>9, <2>1, <2>2 DEF Types, TypeInv
  <2> QED BY <1>8, <2>3 DEF Types
<1>11. Logs'
  BY <1>3, SameFilesFacts
<1>12. PhaseInv'
  BY <1>3, <1>4 DEF Inv, Basics, PhaseInv, Active
<1>13. EntryInv' /\ LastInv'
  <2>1. Entries' \subseteq Entries
    BY <1>3, <1>9 DEF Entries
  <2> QED BY <1>3, <1>6, <1>8, <2>1, EntryStays, LastStays DEF Inv, Basics
<1>14. SourceInv'
  <2>1. ASSUME NEW d \in Docs, NEW v \in Starts(d)' PROVE v \in Starts(d) \/ v = Gone \/ Sourced(v, d)'
    <3>1. CASE v \in Starts(d)
      BY <3>1
    <3>2. CASE v = ValueOf(e)
      BY <1>3, <1>5, <3>2 DEF ValueOf, Sourced
    <3> QED BY <1>7, <3>1, <3>2
  <2> QED BY <1>6, <1>8, <2>1, SourceKept DEF Inv, Basics
<1>15. BatchInv' /\ DelInv' /\ OwnInv'
  <2>1. \A r \in Requests : ~Active(r)'
    BY <1>3, <1>4 DEF Active
  <2> QED BY <2>1 DEF BatchInv, BatchOf, DelInv, DelOf, OwnInv, OwnOf
<1>16. OrderInv'
  BY <1>3, OrderAppliedAfter
<1>17. NotRedone' = NotRedone /\ Rewound \subseteq Rewound'
  <2>1. NotRedone' = NotRedone
    BY <1>3, <1>6, <1>8, NotRedoneKept DEF Inv, Basics
  <2>2. Rewound \subseteq Rewound'
    BY <1>3, <1>4 DEF Rewound
  <2> QED BY <2>1, <2>2
<1>18. \A d \in Docs : /\ MineThere(d)' <=> MineThere(d)
                       /\ Known(d)' = Known(d) /\ Allowed(d)' = Allowed(d)
  BY <1>3 DEF MineThere, Mine, Redone, Known, LostValues, Allowed, Unfinished, Meant, Active
<1>19. ASSUME NEW d \in D, d \notin Rewound' PROVE MineThere(d)
  <2>1. e \in EntriesIn(files)
    BY <1>4, <1>19 DEF Rewound
  <2>2. e.by = last[d].by
    BY <1>3, <1>19, <2>1 DEF Rewound
  <2>3. Mine(e, d)
    BY <1>3, <2>2 DEF Mine, Redone
  <2> QED BY <2>1, <2>3, MineEntry
<1>20. CovInv'
  <2> SUFFICES ASSUME NEW d \in Docs, Clean(d)', d \notin pruned', NEW v \in Starts(d)'
               PROVE  v \in Allowed(d) \/ MineThere(d)
    BY <1>18 DEF CovInv
  <2>1. d \notin Rewound' /\ Clean(d)
    BY <1>3, <1>17 DEF Clean
  <2>2. CASE v \in Starts(d)
    BY <1>4, <2>1, <2>2 DEF Inv, Runs, CovInv
  <2>3. CASE d \in D
    BY <1>19, <2>1, <2>3
  <2> QED BY <1>7, <2>2, <2>3
<1>21. TailInv'
  <2>1. DocsIn(files') = DocsIn(files) /\ Unsynced \subseteq pruned \cup DocsIn(files)
    BY <1>3 DEF Inv, Runs, TailInv
  <2>2. D \subseteq pruned' \/ D \subseteq DocsIn(files)
    BY <1>3, <1>4 DEF DocsIn
  <2>3. Unsynced' \subseteq pruned' \cup DocsIn(files)
    BY <1>4, <1>7, <2>1, <2>2
  <2> QED BY <2>1, <2>3 DEF TailInv
<1>22. NowInv'
  <2> SUFFICES ASSUME NEW d \in Docs, d \notin NowExcused' PROVE Val(d)' \in Known(d) \/ MineThere(d)
    BY <1>18 DEF NowInv
  <2>1. d \notin Rewound' /\ d \notin NowExcused
    BY <1>3, <1>17 DEF NowExcused, Excuses
  <2>2. CASE d \in D
    BY <1>19, <2>1, <2>2
  <2>3. CASE d \notin D
    BY <1>3, <1>7, <2>1, <2>3 DEF Inv, Vals, NowInv
  <2> QED BY <2>2, <2>3
<1>23. ReplayInv'
  <2> SUFFICES ASSUME NEW d \in Docs, d \notin excused PROVE Decides(d)'
    BY <1>3 DEF ReplayInv
  <2>1. Decides(d)
    BY <1>3 DEF Inv, Vals, ReplayInv
  <2>2. Redone(e, d) <=> d \in e.docs
    BY <1>3 DEF Redone
  <2>3. (\A v : v = Val(d)' => KindOf(Val(d))' = KindOf(v)) /\ Known(d)' = Known(d)
    BY <1>3, <1>18 DEF KindOf
  <2>4. CASE d \notin e.docs
    <3>1. Val(d)' = Val(d)
      BY <1>3, <1>7, <2>4
    <3>2. KindOf(Val(d))' = KindOf(Val(d))
      BY <2>3, <3>1
    <3> QED BY <1>1, <1>3, <1>6, <2>1, <2>2, <2>3, <2>4, <3>1, <3>2, DecidesTail
  <2>5. CASE d \in D
    <3>1. Val(d)' = ValueOf(e)
      BY <1>7, <2>5
    <3>2. KindOf(ValueOf(e)) # "large"
      BY <1>3, <1>5 DEF KindOf, ValueOf
    <3>3. KindOf(Val(d))' # "large"
      BY <2>3, <3>1, <3>2
    <3>4. KindOf(Val(d)) # "large" \/ e.op = "insert"
      BY <1>3, <1>4, <2>5 DEF Readable
    <3> QED BY <1>1, <1>3, <1>6, <2>1, <2>2, <2>3, <2>5, <3>1, <3>3, <3>4, DecidesStored
  <2>6. CASE d \in e.docs \ D
    <3>1. e.op = "delete" /\ d \notin Readable /\ Val(d)' = Val(d)
      BY <1>4, <1>7, <2>6
    <3>2. KindOf(Val(d))' = KindOf(Val(d))
      BY <2>3, <3>1
    <3>3. CASE KindOf(Val(d)) = "large"
      BY <1>1, <1>3, <1>6, <2>1, <2>3, <3>1, <3>2, <3>3, DecidesTail
    <3>4. CASE KindOf(Val(d)) # "large"
      <4>1. Val(d) = Gone
        BY <3>1, <3>4 DEF Readable, Present
      <4>2. Val(d)' = ValueOf(e)
        BY <3>1, <4>1 DEF ValueOf
      <4>3. KindOf(Val(d))' # "large"
        BY <3>2, <3>4
      <4> QED BY <1>1, <1>3, <1>6, <2>1, <2>2, <2>3, <2>6, <3>4, <4>2, <4>3, DecidesStored
    <3> QED BY <3>3, <3>4
  <2> QED BY <2>4, <2>5, <2>6
<1>24. Vals'
  BY <1>3, <1>22, <1>23 DEF Vals, ValInv, DownInv
<1> QED BY <1>10, <1>11, <1>12, <1>13, <1>14, <1>15, <1>16, <1>20, <1>21, <1>24 DEF Inv, Basics, Runs

-----------------------------------------------------------------------------
(* The invariant holds, and says what was claimed.                         *)

LEMMA SameInv == ASSUME Inv, UNCHANGED vars PROVE Inv'
<1>1. UNCHANGED <<policy, files, segs, marker, base, tail, phase, replay, applied, req, admin, last, raced, pruned, excused>>
  BY DEF vars
<1>2. Types
  BY DEF Inv, Basics
<1>3. ReqTypes' /\ ReqStep /\ (\A r \in Requests : (Active(r)' <=> Active(r)) /\ Pending(r)' = Pending(r))
      /\ (\A v : KindOf(v)' = KindOf(v))
  BY <1>1, <1>2, SameReq
<1>4. Logs'
  BY <1>1, SameFilesFacts
<1>5. Types'
  <2>1. TypeInv'
    BY <1>1, <1>2 DEF Types, TypeInv
  <2> QED BY <1>3, <2>1 DEF Types
<1>6. PhaseInv'
  BY <1>1 DEF Inv, Basics, PhaseInv, Active, Unsynced
<1>7. EntryInv' /\ LastInv'
  <2>1. Entries' \subseteq Entries
    BY <1>1 DEF Entries
  <2> QED BY <1>1, <1>2, <1>3, <2>1, EntryStays, LastStays DEF Inv, Basics
<1>8. \A d \in Docs : /\ Val(d)' = Val(d) /\ Starts(d)' = Starts(d)
                      /\ Known(d)' = Known(d) /\ Allowed(d)' = Allowed(d)
                      /\ MineThere(d)' <=> MineThere(d)
  BY <1>1 DEF Val, Starts, Known, LostValues, Allowed, Unfinished, Meant, Active, MineThere, Mine, Redone
<1>9. SourceInv'
  BY <1>2, <1>3, <1>8, SourceKept DEF Inv, Basics
<1>10. NotRedone' = NotRedone /\ Rewound' = Rewound /\ Readable' = Readable
  <2>1. NotRedone' = NotRedone
    BY <1>1, <1>2, <1>3, NotRedoneKept DEF Inv, Basics
  <2>2. Rewound' = Rewound
    BY <1>1 DEF Rewound
  <2>3. Readable' = Readable
    BY <1>2, <1>3, <1>8, ReadableKept DEF Inv, Basics
  <2> QED BY <2>1, <2>2, <2>3
<1>11. Excuses' = Excuses /\ (\A d \in Docs : Clean(d)' <=> Clean(d))
  BY <1>1, <1>10 DEF Excuses, Clean
<1>12. BatchInv'
  BY <1>1 DEF Inv, Runs, BatchInv, BatchOf, Active
<1>13. DelInv'
  BY <1>1, <1>10 DEF Inv, Runs, DelInv, DelOf, Active
<1>14. OwnInv'
  BY <1>1 DEF Inv, Runs, OwnInv, OwnOf, Active, HasLogged, OwnLast, OwnThere, Redone
<1>15. OrderInv'
  <2>1. \A d \in Docs : \A e : Bad(e, d)' <=> Bad(e, d)
    BY <1>1, <1>8 DEF Bad, Mine, Redone, ValueOf
  <2> SUFFICES ASSUME NEW d \in Docs, Clean(d)', NEW q \in At(files), Bad(EntryAt(files, q), d)'
               PROVE  /\ \A p \in At(files) : Mine(EntryAt(files, p), d) => ~Before(p, q)
                      /\ MineThere(d)
    BY <1>1, <1>8 DEF OrderInv, Mine, Redone
  <2>2. Bad(EntryAt(files, q), d)
    BY <1>1, <1>8 DEF Bad, Mine, Redone, ValueOf
  <2> QED BY <1>11, <2>2 DEF OrderInv, Inv, Runs
<1>16. CovInv'
  <2> SUFFICES ASSUME NEW d \in Docs, Clean(d), d \notin pruned, NEW v \in Starts(d)
               PROVE  v \in Allowed(d) \/ MineThere(d)
    BY <1>1, <1>8, <1>11 DEF CovInv
  <2> QED BY DEF Inv, Runs, CovInv
<1>17. TailInv'
  <2>1. Unsynced' = Unsynced /\ DocsIn(files') = DocsIn(files)
    BY <1>1 DEF Unsynced
  <2> QED BY <1>1, <2>1 DEF Inv, Runs, TailInv
<1>18. ValInv' /\ NowInv'
  BY <1>1, <1>8, <1>11 DEF Inv, Vals, ValInv, NowInv, NowExcused
<1>19. DownInv'
  <2>1. \A f : PassedOver(NowVals, f)' = PassedOver(NowVals, f)
    BY <1>1 DEF PassedOver, NowVals, Val, KindOf
  <2>2. PassedOver(NowVals, files)' = PassedOver(NowVals, files)
    BY <1>1 DEF PassedOver, NowVals, Val, KindOf
  <2>3. DocsIn(files') = DocsIn(files)
    BY <1>1
  <2> QED BY <1>1, <1>10, <2>2, <2>3 DEF Inv, Vals, DownInv
<1>20. ReplayInv'
  <2> SUFFICES ASSUME phase \in {"replay", "redo"}, NEW d \in Docs \ excused PROVE Decides(d)'
    BY <1>1 DEF ReplayInv
  <2>1. Decides(d)
    BY DEF Inv, Vals, ReplayInv
  <2>2. RedoneLeft(d)' = RedoneLeft(d) /\ KindOf(Val(d))' = KindOf(Val(d))
    BY <1>1 DEF RedoneLeft, Redone, KindOf, Val
  <2> QED BY <1>1, <1>8, <2>1, <2>2 DEF Decides, ValueOf
<1> QED BY <1>4, <1>5, <1>6, <1>7, <1>9, <1>12, <1>13, <1>14, <1>15, <1>16, <1>17, <1>18, <1>19, <1>20
        DEF Inv, Basics, Runs, Vals

LEMMA InitInv == Init => Inv
<1> SUFFICES ASSUME Init PROVE Inv
  OBVIOUS
<1>1. /\ files = [n \in {FirstId} |-> NewFile] /\ segs = <<FirstId>> /\ marker = FALSE
      /\ base = [d \in Docs |-> Gone] /\ tail = <<>>
      /\ phase = "up" /\ replay = <<>> /\ applied = FALSE
      /\ req = [r \in Requests |-> Idle] /\ admin = "idle"
      /\ last = [d \in Docs |-> [by |-> Gone, val |-> Gone]]
      /\ raced = {} /\ pruned = {} /\ excused = {} /\ FirstId \in Nat
  BY ConstantsAssumption DEF Init
<1>2. DOMAIN files = {FirstId} /\ (\A n \in DOMAIN files : files[n] = NewFile) /\ NewFile \in SegmentFile
      /\ NewFile.data = <<>> /\ Len(NewFile.data) = 0 /\ NewFile.synced = 0
  BY <1>1 DEF NewFile, SegmentFile
<1>3. At(files) = {} /\ EntriesIn(files) = {} /\ Entries = {}
  <2>1. \A n \in DOMAIN files : DOMAIN files[n].data = {} /\ ToSet(files[n].data) = {}
    BY <1>2 DEF ToSet
  <2>2. ToSet(replay) = {}
    BY <1>1 DEF ToSet
  <2> QED BY <2>1, <2>2 DEF At, EntriesIn, Entries
<1>4. Logs
  <2>1. SegInv
    BY InitSeg
  <2>2. ~Full(files, segs)
    BY <1>1, <1>2, ConstantsAssumption DEF Full
  <2> QED BY <1>2, <2>1, <2>2 DEF Logs, NotFull, Synced
<1>5. Idle \in Request
  <2>1. <<>> \in Seen /\ {} \in SUBSET Docs
    BY DEF Seen
  <2> QED BY <2>1 DEF Idle, Request
<1>6. \A r \in Requests : /\ req[r] = Idle /\ req[r].pc = "idle" /\ ~Active(r)
                          /\ req[r].match = {} /\ req[r].todo = {} /\ req[r].docs = {}
  BY <1>1 DEF Idle, Active
<1>7. Types
  <2>1. ReqTypes
    <3>1. ReqInv
      BY <1>6 DEF ReqInv
    <3>2. OverlapInv
      BY <1>6 DEF OverlapInv, Pending
    <3> QED BY <1>1, <1>5, <3>1, <3>2 DEF ReqTypes
  <2>2. FilesOK(files)
    BY <1>1, <1>2 DEF FilesOK
  <2>3. base \in [Docs -> Value] /\ last \in [Docs -> [by : Value, val : Value]]
    BY <1>1 DEF Value
  <2>4. <<>> \in Seq(Commit) /\ <<>> \in Seq(LogEntry)
    OBVIOUS
  <2>5. tail \in Seq(Commit) /\ replay \in Seq(LogEntry)
    BY <1>1, <2>4
  <2>6. TypeInv
    BY <1>1, <2>1, <2>2, <2>3, <2>5 DEF TypeInv, ReqTypes
  <2> QED BY <2>1, <2>6 DEF Types
<1>8. PhaseInv
  BY <1>1, <1>6 DEF PhaseInv
<1>9. EntryInv /\ LastInv
  BY <1>1, <1>3, ConstantsAssumption DEF EntryInv, LastInv
<1>10. \A d \in Docs : CommitsOf(tail, d) = {} /\ Val(d) = Gone /\ Starts(d) = {Gone} /\ last[d].val = Gone
  <2>1. \A d \in Docs : CommitsOf(tail, d) = {}
    BY <1>1 DEF CommitsOf
  <2> QED BY <1>1, <2>1 DEF Val, ValIn, Starts
<1>11. SourceInv
  BY <1>10 DEF SourceInv
<1>12. BatchInv /\ DelInv /\ OwnInv
  BY <1>6 DEF BatchInv, BatchOf, DelInv, DelOf, OwnInv, OwnOf
<1>13. OrderInv
  BY <1>3 DEF OrderInv
<1>14. CovInv
  BY <1>10 DEF CovInv, Allowed
<1>15. TailInv
  <2>1. Unsynced = {}
    BY <1>1 DEF Unsynced, ToSet
  <2> QED BY <2>1 DEF TailInv
<1>16. ValInv
  BY <1>10 DEF ValInv, Known
<1> QED BY <1>1, <1>4, <1>7, <1>8, <1>9, <1>11, <1>12, <1>13, <1>14, <1>15, <1>16
        DEF Inv, Basics, Runs, Vals, NowInv, DownInv, ReplayInv

(* NextInv needs the names in order for a start only: ReadAll reads the    *)
(* segments in the order of their names.                                   *)
LEMMA NextInv == ASSUME Inv, NamesInOrder, [Next]_vars PROVE Inv'
<1>1. CASE \E r \in Requests : RequestStep(r)
  BY <1>1, RequestInv
<1>2. CASE SyncAll \/ WalSync \/ Rotate \/ Prune
  BY <1>2, SyncAllStep, WalSyncStep, RotateStep, PruneStep
<1>3. CASE WalClose \/ PoolClose \/ Kill \/ PowerLoss
  BY <1>3, WalCloseStep, PoolCloseStep, KillStep, PowerLossStep
<1>4. CASE RecoveryStep
  BY <1>4, StartStep, ReplayUpdateStep, ReplaySkipStep, ReplayLogStep, ReplayStoreStep,
     RecoverRotateStep, RecoverPruneStep, OpenStep DEF RecoveryStep
<1>5. CASE UNCHANGED vars
  BY <1>5, SameInv
<1> QED BY <1>1, <1>2, <1>3, <1>4, <1>5 DEF Next

LEMMA InvExplains == Inv => EveryLossIsExplained
<1> SUFFICES ASSUME Inv, phase \in {"up", "rotated"} \/ Recovered, NEW d \in Docs \ excused
             PROVE  Val(d) \in Known(d)
  BY DEF EveryLossIsExplained, RestoredDocs, Known
<1>1. CASE phase \in {"up", "rotated"}
  BY <1>1 DEF Inv, Vals, ValInv
<1>2. CASE Recovered
  <2>1. Decides(d) /\ DOMAIN replay = {}
    BY <1>2 DEF Inv, Vals, ReplayInv, Recovered
  <2>2. RedoneLeft(d) = {}
    BY <2>1 DEF RedoneLeft
  <2> QED BY <2>1, <2>2 DEF Decides
<1> QED BY <1>1, <1>2

(* As long as the names of the files are in the order of their numbers, a  *)
(* process that serves requests, after any crashes, power failures,        *)
(* checkpoints and restarts, in any order with any requests, holds of each *)
(* document what the last commit to it left, or what a request that was    *)
(* cut off would have left; the exceptions are those excused names, each   *)
(* with its reason (Insert, Update and Delete log before they commit,      *)
(* checkpoint, recover).                                                   *)
THEOREM LossesAreExplained == Spec /\ []NamesInOrder => []EveryLossIsExplained
<1>1. Inv /\ NamesInOrder /\ [Next]_vars => Inv'
  BY NextInv
<1> QED BY <1>1, InitInv, InvExplains, PTL DEF Spec
=============================================================================
