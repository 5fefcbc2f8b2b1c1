--------------------------- MODULE PathNamesProofs ---------------------------
(***************************************************************************)
(* What the conversions of PathNames do to a name that is unambiguous: its *)
(* text converts back to it, and no other name's text does.  The device    *)
(* names and the drive letters are any.                                    *)
(***************************************************************************)
EXTENDS PathNames, SequenceTheorems, WellFoundedInduction, TLAPS

(* A set of natural numbers has a least element.                           *)
LEMMA LeastOf ==
  ASSUME NEW S, S \subseteq Nat, S # {}
  PROVE  \E i \in S : \A j \in S : i <= j
<1>1. PICK i \in S : \A j \in S : <<j, i>> \notin OpToRel(<, Nat)
  BY NatLessThanWellFounded, WFMin, Zenon
<1>2. \A j \in S : ~(j < i)
  BY <1>1 DEF OpToRel
<1>3. QED
  BY <1>2
----------------------------------------------------------------------------
(* Sequences.                                                              *)

(* The pieces of names.  The provers do not know Separator for a string.   *)
Pieces == STRING \union {Separator}
Words == Seq(Pieces)

LEMMA StringsAreWords ==
  ASSUME NEW s \in Seq(STRING)
  PROVE  s \in Words
  BY SeqMonotonic DEF Words, Pieces

LEMMA Letters ==
  /\ Separator \in Pieces
  /\ DOMAIN DeviceOf \subseteq Pieces
  /\ DOMAIN Drives \subseteq Nat
  /\ \A d \in DOMAIN DeviceOf : \E i \in DOMAIN Drives : Drives[i] = d
<1>1. ASSUME NEW i \in DOMAIN Drives PROVE i \in Nat /\ Drives[i] \in Pieces
  BY DeviceAssumption, LenProperties, ElementOfSeq DEF Pieces
<1>2. QED
  BY <1>1, DeviceAssumption DEF Pieces

LEMMA Devices ==
  ASSUME NEW d \in DOMAIN DeviceOf
  PROVE  /\ DeviceOf[d] \in Words /\ Len(DeviceOf[d]) \in Nat \ {0}
         /\ \A i \in 1..Len(DeviceOf[d]) :
              DeviceOf[d][i] # Separator /\ DeviceOf[d][i] \notin DOMAIN DeviceOf
<1>1. /\ DeviceOf[d] \in Seq(STRING) /\ DeviceOf[d] # <<>>
      /\ \A i \in DOMAIN DeviceOf[d] :
           DeviceOf[d][i] # Separator /\ DeviceOf[d][i] \notin DOMAIN DeviceOf
  BY DeviceAssumption
<1>2. QED
  BY <1>1, EmptySeq, LenProperties, StringsAreWords

LEMMA ConcatWords ==
  ASSUME NEW s \in Words, NEW t \in Words
  PROVE  /\ s \o t \in Words /\ Len(s \o t) = Len(s) + Len(t)
         /\ \A i \in 1..(Len(s) + Len(t)) :
              (s \o t)[i] = IF i <= Len(s) THEN s[i] ELSE t[i - Len(s)]
  BY ConcatProperties DEF Words

(* What substr leaves of a name.                                           *)
LEMMA SubstrOf ==
  ASSUME NEW n \in Words, NEW from \in Nat
  PROVE  /\ Substr(n, from) \in Words
         /\ Len(Substr(n, from)) = IF from < Len(n) THEN Len(n) - from ELSE 0
         /\ \A i \in 1..(Len(n) - from) : Substr(n, from)[i] = n[from + i]
<1>1. Len(n) \in Nat /\ \A i \in (from + 1)..Len(n) : n[i] \in Pieces
  BY LenProperties, ElementOfSeq DEF Words
<1>2. QED
  BY <1>1, SubSeqProperties DEF Substr, Words

(* A name that begins with a drive letter.                                 *)
HasDrive(n) == Len(n) >= 2 /\ n[1] \in DOMAIN DeviceOf /\ n[2] = Separator

(* Such a name is converted piece by piece.                                *)
LEMMA ConvertedDrive ==
  ASSUME NEW t \in Words, HasDrive(t)
  PROVE  LET L == Len(DeviceOf[t[1]])
         IN /\ ConvertToNtPath(t) \in Words
            /\ Len(ConvertToNtPath(t)) = L + Len(t) - 1
            /\ \A i \in 1..L : ConvertToNtPath(t)[i] = DeviceOf[t[1]][i]
            /\ \A i \in 2..Len(t) : ConvertToNtPath(t)[L + i - 1] = t[i]
<1> DEFINE L == Len(DeviceOf[t[1]])
           dev == DeviceOf[t[1]]
           rest == Substr(t, 1)
<1>1. dev \in Words /\ L = Len(dev) /\ L \in Nat \ {0} /\ Len(t) \in Nat /\ Len(t) >= 2
  BY Devices, LenProperties DEF HasDrive, Words
<1>2. rest \in Words /\ Len(rest) = Len(t) - 1 /\ \A i \in 1..(Len(t) - 1) : rest[i] = t[1 + i]
  BY <1>1, SubstrOf
<1>3. ConvertToNtPath(t) = dev \o rest
  BY DEF ConvertToNtPath, HasDrive
<1> HIDE DEF dev, rest
<1>4. /\ dev \o rest \in Words /\ Len(dev \o rest) = L + (Len(t) - 1)
      /\ \A i \in 1..(L + (Len(t) - 1)) : (dev \o rest)[i] = IF i <= L THEN dev[i] ELSE rest[i - L]
  <2>1. /\ dev \o rest \in Words /\ Len(dev \o rest) = Len(dev) + Len(rest)
        /\ \A i \in 1..(Len(dev) + Len(rest)) :
             (dev \o rest)[i] = IF i <= Len(dev) THEN dev[i] ELSE rest[i - Len(dev)]
    BY <1>1, <1>2, ConcatWords, Zenon
  <2>2. QED
    BY <1>1, <1>2, <2>1
<1>5. \A i \in 2..Len(t) : (dev \o rest)[L + i - 1] = t[i]
  <2>1. TAKE i \in 2..Len(t)
  <2>2. /\ L + i - 1 \in 1..(L + (Len(t) - 1)) /\ ~(L + i - 1 <= L)
        /\ (L + i - 1) - L = i - 1 /\ i - 1 \in 1..(Len(t) - 1) /\ 1 + (i - 1) = i
    BY <1>1
  <2>3. QED
    BY <1>2, <1>4, <2>2
<1>6. QED
  BY <1>1, <1>3, <1>4, <1>5 DEF dev

(* A converted name has no drive letter, and a name that the conversion    *)
(* leaves as it is has none.                                               *)
LEMMA DriveGone ==
  ASSUME NEW t \in Words
  PROVE  /\ ConvertToNtPath(t) \in Words
         /\ ~HasDrive(ConvertToNtPath(t))
         /\ ~HasDrive(t) => ConvertToNtPath(t) = t
<1>1. ~HasDrive(t) => ConvertToNtPath(t) = t
  BY DEF ConvertToNtPath, HasDrive
<1>2. CASE HasDrive(t)
  <2>1. /\ ConvertToNtPath(t) \in Words
        /\ \A i \in 1..Len(DeviceOf[t[1]]) : ConvertToNtPath(t)[i] = DeviceOf[t[1]][i]
    BY <1>2, ConvertedDrive
  <2>2. 1 \in 1..Len(DeviceOf[t[1]]) /\ DeviceOf[t[1]][1] \notin DOMAIN DeviceOf
    BY <1>2, Devices DEF HasDrive
  <2>3. QED
    BY <1>2, <2>1, <2>2 DEF HasDrive
<1>3. QED
  BY <1>1, <1>2

----------------------------------------------------------------------------
(* The way to the text, and back.                                          *)

(* The text of a name on a drive, and what it converts back to: the name   *)
(* itself if a separator follows the device.                               *)
OnDrive(n, d) == <<d, Separator>> \o Substr(n, Len(DeviceOf[d]) + 1)

LEMMA FirstMatch ==
  ASSUME NEW n \in Words
  PROVE  \/ Matching(n) = {} /\ ConvertToDosPath(n) = n
         \/ \E i \in Matching(n) : ConvertToDosPath(n) = OnDrive(n, Drives[i])
<1>1. CASE Matching(n) = {}
  BY <1>1 DEF ConvertToDosPath
<1>2. CASE Matching(n) # {}
  <2>1. Matching(n) \subseteq Nat
    BY DeviceAssumption DEF Matching
  <2>2. \E i \in Matching(n) : \A j \in Matching(n) : i <= j
    BY <1>2, <2>1, LeastOf
  <2> DEFINE first == CHOOSE i \in Matching(n) : \A j \in Matching(n) : i <= j
  <2>3. first \in Matching(n)
    BY <2>2
  <2>4. ConvertToDosPath(n) = OnDrive(n, Drives[first])
    BY <1>2 DEF ConvertToDosPath, OnDrive
  <2>5. QED
    BY <2>3, <2>4
<1>3. QED
  BY <1>1, <1>2

LEMMA Matches ==
  ASSUME NEW n \in Words, NEW i \in Matching(n)
  PROVE  /\ Drives[i] \in DOMAIN DeviceOf /\ i \in DOMAIN Drives
         /\ starts_with(n, DeviceOf[Drives[i]])
  BY DEF Matching

LEMMA TextOnDrive ==
  ASSUME NEW n \in Words, NEW d \in DOMAIN DeviceOf, Len(DeviceOf[d]) <= Len(n)
  PROVE  LET L == Len(DeviceOf[d])
         IN /\ OnDrive(n, d) \in Words
            /\ Len(OnDrive(n, d)) = IF L < Len(n) THEN Len(n) - L + 1 ELSE 2
            /\ OnDrive(n, d)[1] = d /\ OnDrive(n, d)[2] = Separator
            /\ \A i \in (L + 2)..Len(n) : OnDrive(n, d)[i - L + 1] = n[i]
            /\ HasDrive(OnDrive(n, d))
<1> DEFINE L == Len(DeviceOf[d])
           head == <<d, Separator>>
           rest == Substr(n, L + 1)
<1>1. L \in Nat \ {0} /\ Len(n) \in Nat /\ L + 1 \in Nat
  BY Devices, LenProperties DEF Words
<1>2. /\ rest \in Words /\ Len(rest) = IF L + 1 < Len(n) THEN Len(n) - (L + 1) ELSE 0
      /\ \A i \in 1..(Len(n) - (L + 1)) : rest[i] = n[(L + 1) + i]
  BY <1>1, SubstrOf
<1>3. head \in Words /\ Len(head) = 2 /\ head[1] = d /\ head[2] = Separator
  <2>1. d \in Pieces /\ Separator \in Pieces
    BY Letters
  <2>2. <<d, Separator>> \in Seq(Pieces)
    BY <2>1
  <2>3. QED
    BY <2>2 DEF Words
<1>4. OnDrive(n, d) = head \o rest
  BY DEF OnDrive
<1> HIDE DEF head, rest
<1>5. /\ head \o rest \in Words /\ Len(head \o rest) = 2 + Len(rest)
      /\ \A i \in 1..(2 + Len(rest)) : (head \o rest)[i] = IF i <= 2 THEN head[i] ELSE rest[i - 2]
  <2>1. /\ head \o rest \in Words /\ Len(head \o rest) = Len(head) + Len(rest)
        /\ \A i \in 1..(Len(head) + Len(rest)) :
             (head \o rest)[i] = IF i <= Len(head) THEN head[i] ELSE rest[i - Len(head)]
    BY <1>2, <1>3, ConcatWords, Zenon
  <2>2. QED
    BY <1>3, <2>1
<1>6. \A i \in (L + 2)..Len(n) : (head \o rest)[i - L + 1] = n[i]
  <2>1. TAKE i \in (L + 2)..Len(n)
  <2>2. /\ i - L + 1 \in 1..(2 + Len(rest)) /\ ~(i - L + 1 <= 2)
        /\ (i - L + 1) - 2 = i - L - 1 /\ i - L - 1 \in 1..(Len(n) - (L + 1))
        /\ (L + 1) + (i - L - 1) = i
    BY <1>1, <1>2
  <2>3. (head \o rest)[i - L + 1] = rest[(i - L + 1) - 2]
    BY <1>5, <2>2
  <2>4. rest[i - L - 1] = n[(L + 1) + (i - L - 1)]
    BY <1>2, <2>2
  <2>5. QED
    BY <2>2, <2>3, <2>4
<1>7. (head \o rest)[1] = d /\ (head \o rest)[2] = Separator
  BY <1>2, <1>3, <1>5
<1>8. Len(head \o rest) = IF L < Len(n) THEN Len(n) - L + 1 ELSE 2
  BY <1>1, <1>2, <1>5
<1>9. HasDrive(head \o rest)
  BY <1>1, <1>2, <1>5, <1>7 DEF HasDrive
<1>10. QED
  BY <1>4, <1>5, <1>6, <1>7, <1>8, <1>9

LEMMA BackFromDrive ==
  ASSUME NEW n \in Words, NEW d \in DOMAIN DeviceOf, starts_with(n, DeviceOf[d])
  PROVE  /\ OnDrive(n, d) \in Words
         /\ starts_with(ConvertToNtPath(OnDrive(n, d)), DeviceOf[d])
         /\ IF Len(n) = Len(DeviceOf[d]) THEN Len(ConvertToNtPath(OnDrive(n, d))) = Len(n) + 1
            ELSE n[Len(DeviceOf[d]) + 1] = Separator => ConvertToNtPath(OnDrive(n, d)) = n
<1> DEFINE t == OnDrive(n, d)
           L == Len(DeviceOf[d])
           back == ConvertToNtPath(t)
<1>1. L \in Nat \ {0} /\ Len(n) \in Nat /\ L <= Len(n) /\ \A i \in 1..L : n[i] = DeviceOf[d][i]
  BY Devices, LenProperties DEF Words, starts_with
<1>2. /\ t \in Words /\ Len(t) = IF L < Len(n) THEN Len(n) - L + 1 ELSE 2
      /\ t[1] = d /\ t[2] = Separator /\ HasDrive(t)
      /\ \A i \in (L + 2)..Len(n) : t[i - L + 1] = n[i]
  BY <1>1, TextOnDrive, Zenon
<1>3. /\ back \in Words /\ Len(back) = L + Len(t) - 1
      /\ \A i \in 1..L : back[i] = DeviceOf[d][i]
      /\ \A i \in 2..Len(t) : back[L + i - 1] = t[i]
  <2>1. LET K == Len(DeviceOf[t[1]])
        IN /\ ConvertToNtPath(t) \in Words
           /\ Len(ConvertToNtPath(t)) = K + Len(t) - 1
           /\ \A i \in 1..K : ConvertToNtPath(t)[i] = DeviceOf[t[1]][i]
           /\ \A i \in 2..Len(t) : ConvertToNtPath(t)[K + i - 1] = t[i]
    <3> HIDE DEF t
    <3>1. QED
      BY <1>2, ConvertedDrive, Zenon
  <2>2. t[1] = d
    BY <1>2
  <2> HIDE DEF t
  <2>3. QED
    BY <2>1, <2>2
<1> HIDE DEF t, back, L
<1>4. starts_with(back, DeviceOf[d])
  BY <1>1, <1>2, <1>3 DEF starts_with, L
<1>5. CASE Len(n) = L
  BY <1>1, <1>2, <1>3, <1>4, <1>5 DEF L, t, back
<1>6. CASE Len(n) # L
  <2>1. SUFFICES ASSUME n[L + 1] = Separator PROVE back = n
    BY <1>2, <1>4, <1>6 DEF L, t, back
  <2>2. Len(back) = Len(n)
    BY <1>1, <1>2, <1>3, <1>6
  <2>3. ASSUME NEW i \in 1..Len(n) PROVE back[i] = n[i]
    <3>1. CASE i <= L
      BY <1>1, <1>3, <3>1
    <3>2. CASE i = L + 1
      <4>1. 2 \in 2..Len(t) /\ L + 2 - 1 = L + 1
        BY <1>1, <1>2, <1>6
      <4>2. QED
        BY <1>2, <1>3, <2>1, <3>2, <4>1
    <3>3. CASE i >= L + 2
      <4>1. i - L + 1 \in 2..Len(t) /\ L + (i - L + 1) - 1 = i /\ i \in (L + 2)..Len(n)
        BY <1>1, <1>2, <1>6, <3>3
      <4>2. QED
        BY <1>2, <1>3, <4>1
    <3>4. QED
      BY <1>1, <3>1, <3>2, <3>3
  <2>4. QED
    BY <1>3, <2>2, <2>3, SeqEqual DEF Words
<1>7. QED
  BY <1>5, <1>6

----------------------------------------------------------------------------
(* A name that is followed by a separator behind its device.               *)
LEMMA OnItsDevice ==
  ASSUME NEW q \in Words, NEW d \in DOMAIN DeviceOf,
         starts_with(q, DeviceOf[d] \o <<Separator>>)
  PROVE  /\ starts_with(q, DeviceOf[d])
         /\ Len(q) > Len(DeviceOf[d])
         /\ q[Len(DeviceOf[d]) + 1] = Separator
<1> DEFINE dev == DeviceOf[d]
           L == Len(dev)
           end == <<Separator>>
<1>1. dev \in Words /\ L \in Nat \ {0} /\ Len(q) \in Nat
  BY Devices, LenProperties DEF Words
<1>2. end \in Words /\ Len(end) = 1 /\ end[1] = Separator
  <2>1. <<Separator>> \in Seq(Pieces)
    BY Letters
  <2>2. QED
    BY <2>1 DEF Words
<1>3. /\ Len(dev \o end) <= Len(q)
      /\ \A i \in 1..Len(dev \o end) : q[i] = (dev \o end)[i]
  BY DEF starts_with
<1> HIDE DEF end
<1>4. /\ Len(dev \o end) = L + Len(end)
      /\ \A i \in 1..(L + Len(end)) : (dev \o end)[i] = IF i <= L THEN dev[i] ELSE end[i - L]
  BY <1>1, <1>2, ConcatWords, Zenon
<1> HIDE DEF dev, L
<1>5. L + 1 <= Len(q) /\ \A i \in 1..(L + 1) : q[i] = IF i <= L THEN dev[i] ELSE end[i - L]
  BY <1>1, <1>2, <1>3, <1>4
<1>6. q[L + 1] = Separator /\ \A i \in 1..L : q[i] = dev[i]
  BY <1>1, <1>2, <1>5
<1>7. QED
  BY <1>1, <1>5, <1>6 DEF starts_with, dev, L

(* ConvertToNtPath undoes ConvertToDosPath: the text that the window shows *)
(* for an unambiguous name of the driver is converted back to that name.   *)
THEOREM RoundTrip ==
  ASSUME NEW names \in SUBSET Words, NEW n \in names, ~HasDrive(n), Unambiguous(n, names)
  PROVE  ConvertToNtPath(Text(n)) = n
<1>1. CASE Matching(n) = {} /\ ConvertToDosPath(n) = n
  BY <1>1, DriveGone DEF Text
<1>2. ASSUME NEW i \in Matching(n), ConvertToDosPath(n) = OnDrive(n, Drives[i])
      PROVE  ConvertToNtPath(Text(n)) = n
  <2>1. Drives[i] \in DOMAIN DeviceOf /\ starts_with(n, DeviceOf[Drives[i]])
    BY <1>2, Matches
  <2>2. starts_with(n, DeviceOf[Drives[i]] \o <<Separator>>)
    BY <1>2 DEF Unambiguous
  <2>3. /\ Len(n) # Len(DeviceOf[Drives[i]])
        /\ n[Len(DeviceOf[Drives[i]]) + 1] = Separator
    BY <2>1, <2>2, OnItsDevice, Devices, LenProperties DEF Words
  <2>4. ConvertToNtPath(OnDrive(n, Drives[i])) = n
    BY <2>1, <2>3, BackFromDrive
  <2>5. QED
    BY <1>2, <2>4 DEF Text
<1>3. QED
  BY <1>1, <1>2, FirstMatch

(* ... and no other name's text is: what the user removes is what the      *)
(* window shows, even if other devices extend the name's.                  *)
THEOREM Injective ==
  ASSUME NEW names \in SUBSET Words, NEW n \in names, Unambiguous(n, names),
         NEW p \in names, ~HasDrive(p), ConvertToNtPath(Text(p)) = n
  PROVE  p = n
<1>1. CASE Matching(p) = {} /\ ConvertToDosPath(p) = p
  BY <1>1, DriveGone DEF Text
<1>2. ASSUME NEW j \in Matching(p), ConvertToDosPath(p) = OnDrive(p, Drives[j])
      PROVE  p = n
  <2>1. PICK d : d = Drives[j]
    OBVIOUS
  <2>2. /\ d \in DOMAIN DeviceOf /\ j \in DOMAIN Drives
        /\ starts_with(p, DeviceOf[d]) /\ ConvertToNtPath(OnDrive(p, d)) = n
    BY <1>2, <2>1, Matches DEF Text
  <2>3. starts_with(n, DeviceOf[d])
    BY <2>2, BackFromDrive
  <2>4. j \in Matching(n)
    BY <2>1, <2>2, <2>3 DEF Matching
  <2>5. starts_with(p, DeviceOf[d] \o <<Separator>>)
    BY <1>2, <2>1, <2>4 DEF Unambiguous
  <2>6. Len(p) # Len(DeviceOf[d]) /\ p[Len(DeviceOf[d]) + 1] = Separator
    BY <2>2, <2>5, OnItsDevice, Devices, LenProperties DEF Words
  <2>7. QED
    BY <2>2, <2>6, BackFromDrive
<1>3. QED
  BY <1>1, <1>2, FirstMatch

(* A path that the file dialog returned, converted for the driver and      *)
(* shown again, is the path: an item that the user added and one that      *)
(* "Add to Trusted" added for the same program have the same text.         *)
THEOREM ChosenText ==
  ASSUME NEW names \in SUBSET Words, NEW n \in names, Unambiguous(n, names),
         NEW t \in Words, Matching(t) = {}, ConvertToNtPath(t) = n
  PROVE  Text(n) = t
<1>1. CASE ~HasDrive(t)
  <2>1. n = t
    BY <1>1, DriveGone
  <2>2. QED
    BY <2>1 DEF Text, ConvertToDosPath
<1>2. CASE HasDrive(t)
  <2>1. PICK d \in DOMAIN DeviceOf : d = t[1]
    BY <1>2 DEF HasDrive
  <2>2. PICK L : L = Len(DeviceOf[d])
    OBVIOUS
  <2>3. /\ L \in Nat \ {0} /\ Len(n) \in Nat /\ Len(t) \in Nat /\ Len(t) >= 2
        /\ t[2] = Separator
    BY <1>2, <2>2, Devices, LenProperties DEF HasDrive, Words
  <2>4. /\ Len(n) = L + Len(t) - 1
        /\ \A i \in 1..L : n[i] = DeviceOf[d][i]
        /\ \A i \in 2..Len(t) : n[L + i - 1] = t[i]
    BY <1>2, <2>1, <2>2, ConvertedDrive
  <2>5. PICK k \in Matching(n) : Drives[k] = d
    <3>1. PICK k \in DOMAIN Drives : Drives[k] = d
      BY Letters
    <3>2. starts_with(n, DeviceOf[d])
      BY <2>2, <2>3, <2>4 DEF starts_with
    <3>3. QED
      BY <3>1, <3>2 DEF Matching
  <2>6. PICK i \in Matching(n) : ConvertToDosPath(n) = OnDrive(n, Drives[i])
    BY <2>5, FirstMatch
  <2>7. Drives[i] = d
    <3>1. PICK e : e = Drives[i]
      OBVIOUS
    <3>2. PICK M : M = Len(DeviceOf[e])
      OBVIOUS
    <3>3. /\ e \in DOMAIN DeviceOf /\ M \in Nat \ {0} /\ starts_with(n, DeviceOf[e])
          /\ \A x \in 1..M : n[x] = DeviceOf[e][x]
      BY <3>1, <3>2, Matches, Devices DEF starts_with
    <3>4. n[M + 1] = Separator
      BY <3>1, <3>2, <3>3, OnItsDevice DEF Unambiguous
    <3>5. n[L + 1] = Separator
      BY <2>2, <2>5, OnItsDevice DEF Unambiguous
    <3>6. ASSUME L < M PROVE FALSE
      <4>1. L + 1 \in 1..M
        BY <2>3, <3>3, <3>6
      <4>2. DeviceOf[e][L + 1] # Separator
        BY <3>2, <3>3, <4>1, Devices
      <4>3. QED
        BY <3>3, <3>5, <4>1, <4>2
    <3>7. ASSUME M < L PROVE FALSE
      <4>1. M + 1 \in 1..L
        BY <2>3, <3>3, <3>7
      <4>2. DeviceOf[d][M + 1] # Separator
        BY <2>2, <4>1, Devices
      <4>3. QED
        BY <2>4, <3>4, <4>1, <4>2
    <3>8. DeviceOf[d] = DeviceOf[e]
      <4>1. L = M
        BY <2>3, <3>3, <3>6, <3>7
      <4>2. \A x \in 1..L : DeviceOf[d][x] = DeviceOf[e][x]
        BY <2>4, <3>3, <4>1
      <4>3. QED
        BY <2>2, <3>2, <3>3, <4>1, <4>2, Devices, SeqEqual DEF Words
    <3>9. QED
      BY <3>1, <3>3, <3>8, DeviceAssumption
  <2>8. PICK u : u = OnDrive(n, d)
    OBVIOUS
  <2>9. /\ u \in Words /\ Len(u) = Len(n) - L + 1 /\ u[1] = d /\ u[2] = Separator
        /\ \A x \in (L + 2)..Len(n) : u[x - L + 1] = n[x]
    <3>1. Len(DeviceOf[d]) <= Len(n) /\ L < Len(n)
      BY <2>2, <2>3, <2>4
    <3>2. QED
      BY <2>2, <2>8, <3>1, TextOnDrive
  <2>10. ASSUME NEW x \in 1..Len(t) PROVE u[x] = t[x]
    <3>1. CASE x = 1 \/ x = 2
      BY <2>1, <2>3, <2>9, <3>1
    <3>2. CASE x >= 3
      <4>1. /\ L + x - 1 \in (L + 2)..Len(n) /\ (L + x - 1) - L + 1 = x /\ x \in 2..Len(t)
        BY <2>3, <2>4, <3>2
      <4>2. QED
        BY <2>4, <2>9, <4>1
    <3>3. QED
      BY <2>3, <3>1, <3>2
  <2>11. Len(u) = Len(t)
    BY <2>3, <2>4, <2>9
  <2>12. u = t
    BY <2>9, <2>10, <2>11, SeqEqual DEF Words
  <2>13. QED
    BY <2>6, <2>7, <2>8, <2>12 DEF Text
<1>3. QED
  BY <1>1, <1>2
==============================================================================
