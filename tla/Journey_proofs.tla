---------------------------- MODULE Journey_proofs ----------------------------
(***************************************************************************)
(* The safety of Journey: the sliding window, the Teams messages, and what *)
(* the board of a browser shows when its last answer is in.                *)
(***************************************************************************)
EXTENDS Journey, SequenceTheorems, WellFoundedInduction, TLAPS

(***************************************************************************)
(* The least element of a set of natural numbers                           *)
(***************************************************************************)

\* Some well-founded relation contains the order of the natural numbers.
LEMMA LessThanRelation ==
    \E R : IsWellFoundedOn(R, Nat) /\ \A x, y \in Nat : y < x => <<y, x>> \in R
<1> DEFINE R == OpToRel(<, Nat)
<1>1. IsWellFoundedOn(R, Nat)
  BY NatLessThanWellFounded
<1>2. \A x, y \in Nat : y < x => <<y, x>> \in R
  BY DEF OpToRel
<1> HIDE DEF R
<1> QED
  BY <1>1, <1>2

\* A set of natural numbers has a least element.
LEMMA LeastNat ==
    ASSUME NEW S \in SUBSET Nat, S # {}
    PROVE  \E n \in S : \A m \in S : n <= m
<1>1. PICK R : IsWellFoundedOn(R, Nat) /\ \A x, y \in Nat : y < x => <<y, x>> \in R
  BY LessThanRelation
<1>2. PICK x \in S : \A y \in S : <<y, x>> \notin R
  BY <1>1, WFMin
<1>3. ASSUME NEW y \in S PROVE x <= y
  <2>1. x \in Nat /\ y \in Nat /\ <<y, x>> \notin R
    BY <1>2
  <2>2. ~(y < x)
    BY <1>1, <2>1
  <2> QED
    BY <2>1, <2>2
<1> QED
  BY <1>3

\* The type of a sequence is that of its elements.
LEMMA SeqInType ==
    ASSUME NEW S, NEW T, NEW seq \in Seq(S), \A i \in 1..Len(seq) : seq[i] \in T
    PROVE  seq \in Seq(T)
OBVIOUS

(***************************************************************************)
(* The loop over the head of a deque                                       *)
(***************************************************************************)

\* The loop stops after n steps: those were out of the window, the next one is not.
StopsAt(ages, window, n) ==
    /\ n \in 0..Len(ages)
    /\ \A i \in 1..n : ages[i] > window
    /\ n < Len(ages) => ages[n+1] <= window

\* The loop stops, and there is one place only where it can.
LEMMA StaleIsWhereItStops ==
    ASSUME NEW window \in Nat, NEW ages \in Seq(Nat)
    PROVE  /\ StopsAt(ages, window, Stale(ages, window))
           /\ \A n : StopsAt(ages, window, n) => Stale(ages, window) = n
<1>1. Len(ages) \in Nat /\ \A i \in 1..Len(ages) : ages[i] \in Nat
  BY ElementOfSeq
<1>2. \E n : StopsAt(ages, window, n)
  <2> DEFINE S == {n \in 0..Len(ages) : n < Len(ages) => ages[n+1] <= window}
  <2>1. S \in SUBSET Nat /\ Len(ages) \in S
    BY <1>1
  <2>2. PICK n \in S : \A m \in S : n <= m
    <3> HIDE DEF S
    <3> QED
      BY <2>1, LeastNat
  <2>3. ASSUME NEW i \in 1..n PROVE ages[i] > window
    <3>1. i-1 \in 0..Len(ages) /\ i-1 < Len(ages) /\ ~(n <= i-1) /\ i \in 1..Len(ages)
      BY <1>1
    <3>2. ~(ages[i-1+1] <= window)
      BY <2>2, <3>1
    <3> QED
      BY <1>1, <3>1, <3>2
  <2> QED
    BY <2>3 DEF StopsAt
<1>3. \A n, m : StopsAt(ages, window, n) /\ StopsAt(ages, window, m) => n = m
  <2> SUFFICES ASSUME NEW n, NEW m, StopsAt(ages, window, n), StopsAt(ages, window, m), n < m
               PROVE  FALSE
    BY <1>1 DEF StopsAt
  <2>1. n+1 \in 1..m /\ n+1 \in 1..Len(ages) /\ n < Len(ages)
    BY <1>1 DEF StopsAt
  <2>2. ages[n+1] \in Nat /\ ages[n+1] > window /\ ages[n+1] <= window
    BY <1>1, <2>1 DEF StopsAt
  <2> QED
    BY <2>2
<1>4. Stale(ages, window) = CHOOSE n \in 0..Len(ages) : StopsAt(ages, window, n)
  BY DEF Stale, StopsAt
<1>5. PICK k : StopsAt(ages, window, k) /\ k \in 0..Len(ages)
  BY <1>2 DEF StopsAt
<1>6. StopsAt(ages, window, Stale(ages, window))
  BY <1>4, <1>5
<1> QED
  BY <1>3, <1>6

\* What is left of a deque: its end, from where the loop stops.
LEMMA SinceIsTheEnd ==
    ASSUME NEW window \in Nat, NEW ages \in Seq(Nat), NEW n, StopsAt(ages, window, n)
    PROVE  /\ Since(ages, window) \in Seq(Nat)
           /\ Len(Since(ages, window)) = Len(ages) - n
           /\ \A i \in 1..Len(ages) - n : Since(ages, window)[i] = ages[n+i]
<1>1. Len(ages) \in Nat /\ \A i \in 1..Len(ages) : ages[i] \in Nat
  BY ElementOfSeq
<1>2. Since(ages, window) = SubSeq(ages, n+1, Len(ages))
  BY <1>1, StaleIsWhereItStops DEF Since
<1>3. n+1 \in Int /\ Len(ages) \in Int /\ \A i \in n+1..Len(ages) : ages[i] \in Nat
  BY <1>1 DEF StopsAt
<1>4. /\ SubSeq(ages, n+1, Len(ages)) \in Seq(Nat)
      /\ Len(SubSeq(ages, n+1, Len(ages))) =
            IF n+1 <= Len(ages) THEN Len(ages) - (n+1) + 1 ELSE 0
      /\ \A i \in 1..Len(ages) - (n+1) + 1 :
            SubSeq(ages, n+1, Len(ages))[i] = ages[n+1+i-1]
  BY <1>3, SubSeqProperties
<1>5. n \in 0..Len(ages)
  BY DEF StopsAt
<1>6. Len(Since(ages, window)) = Len(ages) - n
  BY <1>1, <1>2, <1>4, <1>5
<1>7. ASSUME NEW i \in 1..Len(ages) - n PROVE Since(ages, window)[i] = ages[n+i]
  <2>1. i \in 1..Len(ages) - (n+1) + 1 /\ n+1+i-1 = n+i
    BY <1>1, <1>5
  <2> QED
    BY <1>2, <1>4, <2>1
<1> QED
  BY <1>2, <1>4, <1>6, <1>7

(***************************************************************************)
(* The deque of one client                                                 *)
(***************************************************************************)

Ages == 0..Window+1

OldestFirst(ages) == \A i, j \in 1..Len(ages) : i < j => ages[j] <= ages[i]

\* A deque that is in order keeps in the window what it should: its end.
LEMMA FreshOfDeque ==
    ASSUME NEW ages \in Seq(Ages), OldestFirst(ages)
    PROVE  /\ Fresh(ages) \in Seq(0..Window)
           /\ OldestFirst(Fresh(ages))
           /\ Len(Fresh(ages)) <= Len(ages)
           /\ ages # <<>> /\ ages[1] > Window => Len(Fresh(ages)) < Len(ages)
<1> DEFINE n == Stale(ages, Window)
           kept == Fresh(ages)
<1>1. /\ Window \in Nat /\ Ages \subseteq Nat /\ ages \in Seq(Nat)
      /\ Len(ages) \in Nat /\ \A i \in 1..Len(ages) : ages[i] \in Ages
  BY LimiterAssumption, ElementOfSeq, SeqMonotonic DEF Ages
<1>2. StopsAt(ages, Window, n)
  BY <1>1, StaleIsWhereItStops
<1> HIDE DEF n
<1> HIDE DEF kept
<1>3. /\ kept \in Seq(Nat) /\ Len(kept) = Len(ages) - n
      /\ \A i \in 1..Len(ages) - n : kept[i] = ages[n+i]
  BY <1>1, <1>2, SinceIsTheEnd DEF kept, Fresh
<1>4. n \in 0..Len(ages)
  BY <1>2 DEF StopsAt
<1>5. OldestFirst(kept)
  <2> SUFFICES ASSUME NEW i \in 1..Len(kept), NEW j \in 1..Len(kept), i < j
               PROVE  kept[j] <= kept[i]
    BY DEF OldestFirst
  <2>1. n+i \in 1..Len(ages) /\ n+j \in 1..Len(ages) /\ n+i < n+j
    BY <1>1, <1>3, <1>4
  <2> QED
    BY <1>3, <2>1 DEF OldestFirst
<1>6. ASSUME NEW i \in 1..Len(kept) PROVE kept[i] \in 0..Window
  <2>1. n < Len(ages) /\ n+1 \in 1..Len(ages) /\ n+i \in 1..Len(ages)
    BY <1>1, <1>3, <1>4
  <2>2. ages[n+1] <= Window
    BY <1>2, <2>1 DEF StopsAt
  <2>3. ages[n+i] <= ages[n+1]
    <3>1. CASE i = 1
      BY <1>1, <2>1, <3>1
    <3>2. CASE i > 1
      BY <1>1, <1>4, <2>1, <3>2 DEF OldestFirst
    <3> QED
      BY <1>1, <1>3, <1>4, <3>1, <3>2
  <2>4. ages[n+i] \in Nat /\ ages[n+1] \in Nat /\ kept[i] = ages[n+i]
    BY <1>1, <1>3, <2>1
  <2> QED
    BY <1>1, <2>2, <2>3, <2>4
<1>7. kept \in Seq(0..Window)
  BY <1>3, <1>6, SeqInType
<1>8. ages # <<>> /\ ages[1] > Window => n # 0
  <2>1. ages # <<>> => 1 \in 1..Len(ages) /\ 0 < Len(ages)
    BY <1>1, EmptySeq
  <2> QED
    BY <1>1, <1>2, <2>1 DEF StopsAt
<1> QED
  BY <1>1, <1>3, <1>4, <1>5, <1>7, <1>8 DEF kept

\* A deque whose oldest admission is in the window loses nothing.
LEMMA FreshOfFresh ==
    ASSUME NEW ages \in Seq(0..Window), ages # <<>> => ages[1] <= Window
    PROVE  Fresh(ages) = ages
<1>1. /\ Window \in Nat /\ 0..Window \subseteq Nat /\ ages \in Seq(Nat)
      /\ Len(ages) \in Nat
  BY LimiterAssumption, SeqMonotonic
<1>2. StopsAt(ages, Window, 0)
  BY <1>1, EmptySeq DEF StopsAt
<1>3. /\ Fresh(ages) \in Seq(Nat) /\ Len(Fresh(ages)) = Len(ages) - 0
      /\ \A i \in 1..Len(ages) - 0 : Fresh(ages)[i] = ages[0+i]
  BY <1>1, <1>2, SinceIsTheEnd DEF Fresh
<1> QED
  BY <1>1, <1>3, SeqEqual

(***************************************************************************)
(* The limiter                                                             *)
(***************************************************************************)

\* Every deque is short and in order, the admissions in the window are its end, and
\* who waits out its promise finds that the oldest admission has left the window.
LimiterInv ==
    /\ hits \in [Clients -> Seq(Ages)]
    /\ recent = [c \in Clients |-> Fresh(hits[c])]
    /\ promise \in [Clients -> 0..NoPromise]
    /\ \A c \in Clients :
          /\ OldestFirst(hits[c]) /\ Len(hits[c]) <= Limit
          /\ promise[c] # NoPromise => hits[c] # <<>> /\ hits[c][1] + promise[c] > Window

\* What the limiter's invariant says about one client's deque.
LEMMA DequeFacts ==
    ASSUME LimiterInv, NEW c \in Clients
    PROVE  /\ hits[c] \in Seq(Ages) /\ OldestFirst(hits[c]) /\ Len(hits[c]) \in Nat
           /\ Fresh(hits[c]) \in Seq(0..Window) /\ Len(Fresh(hits[c])) \in Nat
           /\ Fresh(hits[c]) \in Seq(Ages)
           /\ OldestFirst(Fresh(hits[c]))
           /\ Len(Fresh(hits[c])) <= Len(hits[c])
           /\ Fresh(hits[c]) # <<>> => Fresh(hits[c])[1] \in 0..Window
           /\ Fresh(Fresh(hits[c])) = Fresh(hits[c])
           /\ Limit \in Nat \ {0} /\ Window \in Nat \ {0}
<1>1. hits[c] \in Seq(Ages) /\ OldestFirst(hits[c])
  BY DEF LimiterInv
<1>2. /\ Fresh(hits[c]) \in Seq(0..Window) /\ OldestFirst(Fresh(hits[c]))
      /\ Len(Fresh(hits[c])) <= Len(hits[c])
  BY <1>1, FreshOfDeque
<1>3. Limit \in Nat \ {0} /\ Window \in Nat \ {0} /\ 0..Window \subseteq Ages
  BY LimiterAssumption DEF Ages
<1> DEFINE kept == Fresh(hits[c])
<1> HIDE DEF kept
<1>4. kept \in Seq(0..Window)
  BY <1>2 DEF kept
<1>5. kept \in Seq(Ages) /\ Len(kept) \in Nat
  BY <1>3, <1>4, SeqMonotonic
<1>6. kept # <<>> => kept[1] \in 0..Window
  <2>1. kept # <<>> => 1 \in 1..Len(kept)
    BY <1>4, <1>5, EmptySeq
  <2> QED
    BY <1>4, <2>1, ElementOfSeq
<1>7. Fresh(kept) = kept
  BY <1>3, <1>4, <1>6, FreshOfFresh
<1>8. Len(hits[c]) \in Nat
  BY <1>1
<1> QED
  BY <1>1, <1>2, <1>3, <1>5, <1>6, <1>7, <1>8 DEF kept

\* An admission is appended to what is left of the deque, which has room for it.
LEMMA AdmitKeepsLimiter ==
    ASSUME LimiterInv, NEW c \in Clients, Admit(c)
    PROVE  LimiterInv'
<1> DEFINE kept == Fresh(hits[c])
           next == Append(kept, 0)
<1>1. /\ kept \in Seq(0..Window) /\ OldestFirst(kept) /\ Len(kept) \in Nat
      /\ kept # <<>> => kept[1] \in 0..Window
      /\ Limit \in Nat \ {0} /\ Window \in Nat \ {0}
  BY DequeFacts
<1>2. ~(Len(kept) >= Limit)
  BY DEF Admit, Full
<1>3. /\ hits' = [hits EXCEPT ![c] = next]
      /\ recent' = [recent EXCEPT ![c] = Append(recent[c], 0)]
      /\ promise' = [promise EXCEPT ![c] = NoPromise]
      /\ recent[c] = kept
  BY DEF Admit, LimiterInv
<1> HIDE DEF kept
<1>4. /\ next \in Seq(0..Window) /\ Len(next) = Len(kept) + 1
      /\ \A i \in 1..Len(kept) : next[i] = kept[i]
      /\ next[Len(kept) + 1] = 0
  BY <1>1, AppendProperties
<1> HIDE DEF next
<1>5. next[1] <= Window
  <2>1. CASE kept = <<>>
    BY <1>1, <1>4, <2>1
  <2>2. CASE kept # <<>>
    <3>1. 1 \in 1..Len(kept)
      BY <1>1, <2>2, EmptySeq
    <3> QED
      BY <1>1, <1>4, <2>2, <3>1
  <2> QED
    BY <2>1, <2>2
<1>6. Fresh(next) = next
  BY <1>4, <1>5, FreshOfFresh
<1>7. OldestFirst(next)
  <2> SUFFICES ASSUME NEW i \in 1..Len(next), NEW j \in 1..Len(next), i < j
               PROVE  next[j] <= next[i]
    BY DEF OldestFirst
  <2>1. i \in 1..Len(kept) /\ next[i] = kept[i] /\ next[i] \in Nat
    <3>1. i \in 1..Len(kept)
      BY <1>1, <1>4
    <3> QED
      BY <1>1, <1>4, <3>1, ElementOfSeq
  <2>2. CASE j = Len(kept) + 1
    BY <1>4, <2>1, <2>2
  <2>3. CASE j # Len(kept) + 1
    <3>1. j \in 1..Len(kept)
      BY <1>1, <1>4, <2>3
    <3> QED
      BY <1>1, <1>4, <2>1, <3>1 DEF OldestFirst
  <2> QED
    BY <2>2, <2>3
<1>8. next \in Seq(Ages)
  <2>1. 0..Window \subseteq Ages
    BY <1>1 DEF Ages
  <2> QED
    BY <1>4, <2>1, SeqMonotonic
<1>9. Len(next) <= Limit
  BY <1>1, <1>2, <1>4
<1>10. recent' = [d \in Clients |-> Fresh(hits'[d])]
  BY <1>3, <1>6 DEF LimiterInv, next
<1>11. NoPromise \in 0..NoPromise
  BY <1>1 DEF NoPromise
<1> QED
  BY <1>3, <1>7, <1>8, <1>9, <1>10, <1>11 DEF LimiterInv

\* A refusal leaves the deque full, and promises the second after its oldest
\* admission's last in the window.
LEMMA RefuseKeepsLimiter ==
    ASSUME LimiterInv, NEW c \in Clients, Refuse(c)
    PROVE  LimiterInv'
<1> DEFINE kept == Fresh(hits[c])
<1>1. /\ kept \in Seq(0..Window) /\ OldestFirst(kept) /\ Len(kept) \in Nat
      /\ kept \in Seq(Ages) /\ Len(kept) <= Len(hits[c]) /\ Len(hits[c]) \in Nat
      /\ kept # <<>> => kept[1] \in 0..Window
      /\ Fresh(kept) = kept
      /\ Limit \in Nat \ {0} /\ Window \in Nat \ {0}
  BY DequeFacts
<1>2. Len(kept) >= Limit
  BY DEF Refuse, Full
<1>3. /\ hits' = [hits EXCEPT ![c] = kept]
      /\ recent' = recent
      /\ promise' = [promise EXCEPT ![c] = Window - Head(kept) + 1]
      /\ recent[c] = kept
  BY DEF Refuse, AfterRefusal, RetryAfter, LimiterInv
<1> HIDE DEF kept
<1>4. kept # <<>> /\ Head(kept) = kept[1]
  <2>1. kept # <<>>
    BY <1>1, <1>2
  <2> QED
    BY <1>1, <2>1
<1>5. kept[1] \in 0..Window
  BY <1>1, <1>4
<1>6. /\ promise'[c] = Window - kept[1] + 1
      /\ promise'[c] \in 0..NoPromise
      /\ kept[1] + promise'[c] > Window
  <2>1. promise'[c] = Window - kept[1] + 1
    BY <1>3, <1>4 DEF LimiterInv
  <2> QED
    BY <1>1, <1>5, <2>1 DEF NoPromise
<1>7. recent' = [d \in Clients |-> Fresh(hits'[d])]
  BY <1>1, <1>3 DEF LimiterInv
<1>8. Len(kept) <= Limit
  BY <1>1 DEF LimiterInv
<1>9. promise' \in [Clients -> 0..NoPromise]
  BY <1>3, <1>6 DEF LimiterInv
<1> QED
  BY <1>1, <1>3, <1>4, <1>6, <1>7, <1>8, <1>9 DEF LimiterInv

\* A second makes every age one more, up to the first past the window.
LEMMA OlderAges ==
    ASSUME NEW ages \in Seq(Ages)
    PROVE  /\ Older(ages) \in Seq(Ages) /\ Len(Older(ages)) = Len(ages)
           /\ \A i \in 1..Len(ages) :
                 Older(ages)[i] = IF ages[i] > Window THEN ages[i] ELSE ages[i] + 1
<1>1. /\ Window \in Nat /\ Len(ages) \in Nat /\ DOMAIN ages = 1..Len(ages)
      /\ \A i \in 1..Len(ages) : ages[i] \in Ages
  BY LimiterAssumption, ElementOfSeq, LenProperties
<1> DEFINE older(i) == IF ages[i] > Window THEN ages[i] ELSE ages[i] + 1
<1>2. \A i \in 1..Len(ages) : older(i) \in Ages
  BY <1>1 DEF Ages
<1>3. Older(ages) = [i \in 1..Len(ages) |-> older(i)]
  BY <1>1 DEF Older
<1> HIDE DEF older
<1>4. Older(ages) \in [1..Len(ages) -> Ages]
  BY <1>2, <1>3
<1>5. Older(ages) \in Seq(Ages) /\ Len(Older(ages)) = Len(ages)
  BY <1>1, <1>4
<1> QED
  BY <1>3, <1>5 DEF older

\* What was out of the window before a second passed is out of it afterwards.
LEMMA FreshOfOlder ==
    ASSUME NEW ages \in Seq(Ages), OldestFirst(ages)
    PROVE  /\ Fresh(Older(ages)) = Fresh(Older(Fresh(ages)))
           /\ OldestFirst(Older(ages))
<1> DEFINE n == Stale(ages, Window)
           kept == Fresh(ages)
           m == Stale(Older(kept), Window)
<1>1. /\ Window \in Nat /\ Ages \subseteq Nat /\ 0..Window \subseteq Ages
      /\ ages \in Seq(Nat) /\ Len(ages) \in Nat
      /\ \A i \in 1..Len(ages) : ages[i] \in Ages /\ ages[i] \in Nat
  BY LimiterAssumption, ElementOfSeq, SeqMonotonic DEF Ages
<1>2. StopsAt(ages, Window, n)
  BY <1>1, StaleIsWhereItStops
<1> HIDE DEF n
<1>3. /\ Len(kept) = Len(ages) - n
      /\ \A i \in 1..Len(ages) - n : kept[i] = ages[n+i]
  BY <1>1, <1>2, SinceIsTheEnd DEF Fresh
<1>4. kept \in Seq(0..Window)
  BY FreshOfDeque
<1> HIDE DEF kept
<1>5. kept \in Seq(Ages)
  BY <1>1, <1>4, SeqMonotonic
<1>6. /\ Older(ages) \in Seq(Ages) /\ Len(Older(ages)) = Len(ages)
      /\ \A i \in 1..Len(ages) :
            Older(ages)[i] = IF ages[i] > Window THEN ages[i] ELSE ages[i] + 1
  BY OlderAges
<1>7. /\ Older(kept) \in Seq(Ages) /\ Len(Older(kept)) = Len(kept)
      /\ \A i \in 1..Len(kept) :
            Older(kept)[i] = IF kept[i] > Window THEN kept[i] ELSE kept[i] + 1
  BY <1>5, OlderAges
<1> DEFINE a == Older(ages)
           k == Older(kept)
<1>8. a \in Seq(Nat) /\ k \in Seq(Nat)
  BY <1>1, <1>6, <1>7, SeqMonotonic
<1>9. StopsAt(k, Window, m)
  BY <1>1, <1>8, StaleIsWhereItStops
<1> HIDE DEF a, k, m
<1>10. n \in 0..Len(ages) /\ m \in 0..Len(kept) /\ Len(k) = Len(kept) /\ Len(a) = Len(ages)
  BY <1>2, <1>6, <1>7, <1>9 DEF StopsAt, a, k
<1>11. \A i \in 1..Len(kept) : n+i \in 1..Len(ages) /\ k[i] = a[n+i]
  <2> SUFFICES ASSUME NEW i \in 1..Len(kept)
               PROVE  n+i \in 1..Len(ages) /\ k[i] = a[n+i]
    OBVIOUS
  <2>1. n+i \in 1..Len(ages) /\ i \in 1..Len(ages) - n
    BY <1>1, <1>3, <1>10
  <2>2. kept[i] = ages[n+i]
    BY <1>3, <2>1
  <2> QED
    BY <1>6, <1>7, <2>1, <2>2 DEF a, k
<1>12. StopsAt(a, Window, n+m)
  <2>1. n+m \in 0..Len(a)
    BY <1>1, <1>3, <1>10
  <2>2. ASSUME NEW i \in 1..n+m PROVE a[i] > Window
    <3>1. CASE i <= n
      <4>1. i \in 1..n /\ i \in 1..Len(ages)
        BY <1>1, <1>10, <3>1
      <4>2. ages[i] > Window
        BY <1>2, <4>1 DEF StopsAt
      <4> QED
        BY <1>6, <4>1, <4>2 DEF a
    <3>2. CASE i > n
      <4>1. i-n \in 1..m /\ i-n \in 1..Len(kept) /\ n+(i-n) = i
        BY <1>1, <1>3, <1>10, <3>2
      <4>2. k[i-n] > Window /\ k[i-n] = a[n+(i-n)]
        BY <1>9, <1>11, <4>1 DEF StopsAt
      <4> QED
        BY <4>1, <4>2
    <3> QED
      BY <1>1, <1>10, <3>1, <3>2
  <2>3. ASSUME n+m < Len(a) PROVE a[n+m+1] <= Window
    <3>1. m < Len(k) /\ m+1 \in 1..Len(kept) /\ n+(m+1) = n+m+1
      BY <1>1, <1>3, <1>10, <2>3
    <3>2. k[m+1] <= Window /\ k[m+1] = a[n+(m+1)]
      BY <1>9, <1>11, <3>1 DEF StopsAt
    <3> QED
      BY <3>1, <3>2
  <2> QED
    BY <2>1, <2>2, <2>3 DEF StopsAt
<1>13. /\ Fresh(a) \in Seq(Nat) /\ Len(Fresh(a)) = Len(a) - (n+m)
       /\ \A i \in 1..Len(a) - (n+m) : Fresh(a)[i] = a[n+m+i]
  BY <1>1, <1>8, <1>12, SinceIsTheEnd DEF Fresh, a
<1>14. /\ Fresh(k) \in Seq(Nat) /\ Len(Fresh(k)) = Len(k) - m
       /\ \A i \in 1..Len(k) - m : Fresh(k)[i] = k[m+i]
  BY <1>1, <1>8, <1>9, SinceIsTheEnd DEF Fresh, k
<1>15. Fresh(a) = Fresh(k)
  <2>1. Len(Fresh(a)) = Len(Fresh(k))
    BY <1>1, <1>3, <1>10, <1>13, <1>14
  <2>2. ASSUME NEW i \in 1..Len(Fresh(a)) PROVE Fresh(a)[i] = Fresh(k)[i]
    <3>1. /\ i \in 1..Len(a) - (n+m) /\ i \in 1..Len(k) - m /\ m+i \in 1..Len(kept)
          /\ n+(m+i) = n+m+i
      BY <1>1, <1>3, <1>10, <1>13, <1>14
    <3>2. k[m+i] = a[n+(m+i)]
      BY <1>11, <3>1
    <3> QED
      BY <1>13, <1>14, <3>1, <3>2
  <2> QED
    BY <1>13, <1>14, <2>1, <2>2, SeqEqual
<1>16. OldestFirst(a)
  <2> SUFFICES ASSUME NEW i \in 1..Len(a), NEW j \in 1..Len(a), i < j
               PROVE  a[j] <= a[i]
    BY DEF OldestFirst
  <2>1. ages[j] <= ages[i] /\ ages[j] \in Ages /\ ages[i] \in Ages
    BY <1>1, <1>10 DEF OldestFirst
  <2>2. /\ a[i] = IF ages[i] > Window THEN ages[i] ELSE ages[i] + 1
        /\ a[j] = IF ages[j] > Window THEN ages[j] ELSE ages[j] + 1
    BY <1>6, <1>10 DEF a
  <2>3. \A x, y \in Nat : y <= x =>
           (IF y > Window THEN y ELSE y + 1) <= (IF x > Window THEN x ELSE x + 1)
    BY <1>1
  <2> QED
    BY <1>1, <2>1, <2>2, <2>3
<1> QED
  BY <1>15, <1>16 DEF a, k, kept

LEMMA TickKeepsLimiter ==
    ASSUME LimiterInv, Tick
    PROVE  LimiterInv'
<1>1. /\ hits' = [c \in Clients |-> Older(hits[c])]
      /\ recent' = [c \in Clients |-> Fresh(Older(Fresh(hits[c])))]
      /\ promise' = [c \in Clients |-> IF promise[c] \in {0, NoPromise} THEN promise[c]
                                       ELSE promise[c] - 1]
  BY DEF Tick, LimiterInv, Fresh
<1>2. Limit \in Nat \ {0} /\ Window \in Nat \ {0}
  BY LimiterAssumption
<1>3. ASSUME NEW c \in Clients
      PROVE  /\ hits'[c] \in Seq(Ages) /\ OldestFirst(hits'[c]) /\ Len(hits'[c]) <= Limit
             /\ recent'[c] = Fresh(hits'[c])
             /\ promise'[c] \in 0..NoPromise
             /\ promise'[c] # NoPromise =>
                   hits'[c] # <<>> /\ hits'[c][1] + promise'[c] > Window
  <2>1. hits[c] \in Seq(Ages) /\ OldestFirst(hits[c]) /\ Len(hits[c]) \in Nat
    BY DequeFacts
  <2>2. /\ Older(hits[c]) \in Seq(Ages) /\ Len(Older(hits[c])) = Len(hits[c])
        /\ \A i \in 1..Len(hits[c]) :
              Older(hits[c])[i] = IF hits[c][i] > Window THEN hits[c][i] ELSE hits[c][i] + 1
    BY <2>1, OlderAges
  <2>3. /\ Fresh(Older(hits[c])) = Fresh(Older(Fresh(hits[c])))
        /\ OldestFirst(Older(hits[c]))
    BY <2>1, FreshOfOlder
  <2>4. hits'[c] = Older(hits[c]) /\ recent'[c] = Fresh(Older(Fresh(hits[c])))
    BY <1>1
  <2>5. promise[c] \in 0..NoPromise /\ Len(hits[c]) <= Limit
    BY DEF LimiterInv
  <2>6. promise'[c] = IF promise[c] \in {0, NoPromise} THEN promise[c] ELSE promise[c] - 1
    BY <1>1
  <2>7. promise'[c] \in 0..NoPromise
    BY <1>2, <2>5, <2>6 DEF NoPromise
  <2>8. ASSUME promise'[c] # NoPromise
        PROVE  hits'[c] # <<>> /\ hits'[c][1] + promise'[c] > Window
    <3>1. promise[c] # NoPromise
      BY <2>6, <2>8
    <3>2. hits[c] # <<>> /\ hits[c][1] + promise[c] > Window
      BY <3>1 DEF LimiterInv
    <3>3. 1 \in 1..Len(hits[c]) /\ hits[c][1] \in Ages
      BY <2>1, <3>2, EmptySeq, ElementOfSeq
    <3>4. hits'[c][1] = IF hits[c][1] > Window THEN hits[c][1] ELSE hits[c][1] + 1
      BY <2>2, <2>4, <3>3
    <3>5. hits'[c] # <<>>
      BY <2>1, <2>2, <2>4, <3>3
    <3> QED
      BY <1>2, <2>5, <2>6, <3>1, <3>2, <3>3, <3>4, <3>5 DEF Ages, NoPromise
  <2> QED
    BY <2>2, <2>3, <2>4, <2>5, <2>7, <2>8
<1>4. recent' = [c \in Clients |-> Fresh(hits'[c])]
  BY <1>1, <1>3
<1> QED
  BY <1>1, <1>3, <1>4 DEF LimiterInv

\* A process that starts has no deques.
LEMMA EmptyLimiter ==
    ASSUME NEW h, h = [c \in Clients |-> <<>>]
    PROVE  /\ h \in [Clients -> Seq(Ages)]
           /\ h = [c \in Clients |-> Fresh(h[c])]
           /\ \A c \in Clients : OldestFirst(h[c]) /\ Len(h[c]) <= Limit
           /\ [c \in Clients |-> NoPromise] \in [Clients -> 0..NoPromise]
<1>1. <<>> \in Seq(Ages) /\ <<>> \in Seq(0..Window) /\ Len(<<>>) = 0
  OBVIOUS
<1>2. Fresh(<<>>) = <<>>
  BY <1>1, FreshOfFresh
<1>3. NoPromise \in 0..NoPromise /\ 0 <= Limit
  BY LimiterAssumption DEF NoPromise
<1>4. OldestFirst(<<>>)
  BY <1>1 DEF OldestFirst
<1> QED
  BY <1>1, <1>2, <1>3, <1>4

LEMMA InitLimiter == LimiterInit => LimiterInv
BY EmptyLimiter DEF LimiterInit, LimiterInv

LEMMA ForgetKeepsLimiter == LimiterForgets => LimiterInv'
BY EmptyLimiter DEF LimiterForgets, LimiterInv

\* Every step of the whole keeps the limiter's invariant.
LEMMA StepLimiter == LimiterInv /\ [Next]_vars => LimiterInv'
<1> SUFFICES ASSUME LimiterInv, [Next]_vars PROVE LimiterInv'
  OBVIOUS
<1>1. CASE UNCHANGED limiterVars
  BY <1>1 DEF limiterVars, LimiterInv
<1>2. CASE HandleSave
  <2>1. Me \in Clients
    BY JourneyAssumption
  <2>2. Refuse(Me) \/ Admit(Me)
    BY <1>2 DEF HandleSave
  <2> QED
    BY <2>1, <2>2, AdmitKeepsLimiter, RefuseKeepsLimiter
<1>3. CASE Clock
  BY <1>3, TickKeepsLimiter DEF Clock
<1>4. CASE Crash
  BY <1>4, ForgetKeepsLimiter DEF Crash
<1> QED
  BY <1>1, <1>2, <1>3, <1>4
     DEF Next, vars, Save, View, ViewStep, Served, Delivered, SaveAnswered, OthersPlace,
         Settings, Worker

LEMMA LimiterCorrect == Spec => []LimiterInv
<1>1. Init => LimiterInv
  BY InitLimiter DEF Init
<1> QED
  BY <1>1, StepLimiter, PTL DEF Spec

\* For any limit and window, no window of that length ever has more admissions than
\* the limit, whatever the order of attempts, refusals, seconds and restarts.
THEOREM WindowNeverOverfull == Spec => []AtMostLimitPerWindow
<1>1. LimiterInv => AtMostLimitPerWindow
  <2> SUFFICES ASSUME LimiterInv, NEW c \in Clients PROVE Len(recent[c]) <= Limit
    BY DEF AtMostLimitPerWindow
  <2>1. recent[c] = Fresh(hits[c]) /\ Len(hits[c]) <= Limit
    BY DEF LimiterInv
  <2>2. /\ Len(Fresh(hits[c])) <= Len(hits[c]) /\ Len(Fresh(hits[c])) \in Nat
        /\ Len(hits[c]) \in Nat /\ Limit \in Nat
    BY DequeFacts
  <2> QED
    BY <2>1, <2>2
<1> QED
  BY <1>1, LimiterCorrect, PTL

\* Who waits the seconds that Retry-After names is not refused.
THEOREM RetryAfterCanBeTrusted == Spec => []RetryAfterIsHonest
<1>1. LimiterInv => RetryAfterIsHonest
  <2> SUFFICES ASSUME LimiterInv, NEW c \in Clients, promise[c] = 0 PROVE ~Full(c)
    BY DEF RetryAfterIsHonest
  <2>1. /\ hits[c] \in Seq(Ages) /\ OldestFirst(hits[c]) /\ Len(hits[c]) \in Nat
        /\ Len(Fresh(hits[c])) \in Nat
        /\ Limit \in Nat /\ Window \in Nat
    BY DequeFacts
  <2>2. hits[c] # <<>> /\ hits[c][1] + 0 > Window /\ Len(hits[c]) <= Limit
    BY <2>1 DEF LimiterInv, NoPromise
  <2>3. hits[c][1] \in Ages
    BY <2>1, <2>2, EmptySeq, ElementOfSeq
  <2>4. Len(Fresh(hits[c])) < Len(hits[c])
    BY <2>1, <2>2, <2>3, FreshOfDeque DEF Ages
  <2> QED
    BY <2>1, <2>2, <2>4 DEF Full
<1> QED
  BY <1>1, LimiterCorrect, PTL

(***************************************************************************)
(* Types                                                                   *)
(***************************************************************************)

ShownView == [week: Weeks, revision: Nat]
Answers == {Pending, Failed} \cup [outcome: {"OK"}, view: ShownView]
Load == [id: Nat, week: Weeks \cup {NoWeek}, kept: BOOLEAN, answer: Answers]
PageSave == [state: {"IDLE", "SENT", "SAVED", "FAILED"}, week: Weeks \cup {NoWeek},
             captured: Weeks \cup {NoWeek}, revision: Nat]

\* A page that shows something shows a week, and answers are about weeks.
ViewTypes ==
    /\ revision \in [Weeks -> Nat] /\ asked \in [Weeks -> Nat]
    /\ anchor \in Weeks \cup {NoWeek}
    /\ shown \in {Nothing} \cup ShownView
    /\ loading \in BOOLEAN /\ error \in BOOLEAN /\ crossed \in BOOLEAN /\ outdated \in BOOLEAN
    /\ started \in 1..MaxLoads
    /\ handlers \subseteq Weeks \cup {NoWeek}
    /\ loads \subseteq Load
    /\ \A l \in loads : l.id \in 1..started

\* A save that is under way is for a week.
PageTypes ==
    /\ placed \in [Schedules -> Weeks \cup {NoWeek}]
    /\ saving \in PageSave /\ mine \in PageSave
    /\ saving.state = "SENT" => saving.week \in Weeks

TypeInv == AnnounceTypeOK /\ ViewTypes /\ PageTypes

\* A load that starts asks for a week, and takes the next number.
LEMMA StartLoadType ==
    ASSUME ViewTypes, NEW week \in Weeks, NEW refresh \in BOOLEAN,
           StartLoad(week, refresh), UNCHANGED <<revision, shown, error>>,
           anchor' \in Weeks \cup {NoWeek}, handlers' \subseteq handlers
    PROVE  ViewTypes'
<1>1. started' = started + 1 /\ started' \in 1..MaxLoads /\ MaxLoads \in Nat
  BY ViewAssumption DEF StartLoad, ViewTypes
<1> DEFINE new == [id |-> started', week |-> week, kept |-> refresh, answer |-> Pending]
<1>2. new \in Load /\ new.id \in 1..started'
  BY <1>1 DEF Load, Answers
<1>3. Remaining(refresh) \subseteq loads
  BY DEF Remaining
<1>4. loads' \subseteq loads \cup {new}
  BY <1>3 DEF StartLoad
<1>5. \A l \in loads' : l \in Load /\ l.id \in 1..started'
  BY <1>1, <1>2, <1>4 DEF ViewTypes
<1>6. asked' \in [Weeks -> Nat] /\ loading' \in BOOLEAN
      /\ crossed' \in BOOLEAN /\ outdated' \in BOOLEAN
  BY DEF StartLoad, ViewTypes
<1> QED
  BY <1>1, <1>5, <1>6 DEF ViewTypes

\* The week a refresh asks for is a week.
LEMMA WantedWeekType ==
    ASSUME ViewTypes, NEW captured \in Weeks \cup {NoWeek}
    PROVE  WantedWeek(captured) \in Weeks
BY ViewAssumption DEF ViewTypes, WantedWeek, Nothing, ShownView

LEMMA RefreshType ==
    ASSUME ViewTypes, NEW captured \in Weeks \cup {NoWeek}, Refresh(captured),
           handlers' \subseteq handlers
    PROVE  ViewTypes'
<1>1. StartLoad(WantedWeek(captured), TRUE) /\ UNCHANGED <<revision, anchor, shown, error>>
  BY DEF Refresh
<1> QED
  BY <1>1, WantedWeekType, StartLoadType DEF ViewTypes

LEMMA RetryType == ViewTypes /\ Retry => ViewTypes'
<1> SUFFICES ASSUME ViewTypes, Retry PROVE ViewTypes'
  OBVIOUS
<1>1. anchor \in Weeks \cup {NoWeek} /\ Refresh(anchor) /\ handlers' \subseteq handlers
  BY DEF Retry, ViewTypes
<1> QED
  BY <1>1, RefreshType

\* A handler keeps an anchor the page is on, and its end refreshes or changes nothing else.
LEMMA BeginHandlerType == ViewTypes /\ BeginHandler => ViewTypes'
BY DEF ViewTypes, BeginHandler

LEMMA EndHandlerType ==
    ASSUME ViewTypes, NEW captured \in handlers, EndHandler(captured)
    PROVE  ViewTypes'
<1>1. captured \in Weeks \cup {NoWeek} /\ handlers' \subseteq handlers
  BY DEF ViewTypes, EndHandler
<1>2. CASE Refresh(captured)
  BY <1>1, <1>2, RefreshType
<1>3. CASE UNCHANGED <<revision, anchor, shown, loading, error, loads, started, asked,
                      crossed, outdated>>
  BY <1>1, <1>3 DEF ViewTypes
<1> QED
  BY <1>2, <1>3 DEF EndHandler

LEMMA NavigateType ==
    ASSUME ViewTypes, NEW w \in Weeks, Navigate(w)
    PROVE  ViewTypes'
<1>1. /\ StartLoad(w, FALSE) /\ UNCHANGED <<revision, shown, error, handlers>>
      /\ anchor' \in Weeks \cup {NoWeek}
  BY DEF Navigate
<1> QED
  BY <1>1, StartLoadType

\* What the server answers: a failure, or a week and its revision now.
LEMMA ServeAnswer ==
    ASSUME ViewTypes, NEW l \in loads, Serve(l)
    PROVE  \E answer \in Answers :
             /\ loads' = (loads \ {l}) \cup {[l EXCEPT !.answer = answer]}
             /\ answer # Pending
             /\ answer # Failed =>
                   /\ answer.view \in ShownView
                   /\ answer.view.revision = revision[answer.view.week]
                   /\ l.week # NoWeek => answer.view.week = l.week
<1>1. l \in Load /\ NoWeek \notin Weeks
  BY ViewAssumption DEF ViewTypes
<1>2. PICK w \in IF l.week = NoWeek THEN Weeks ELSE {l.week} :
        \E answer \in {Failed, [outcome |-> "OK", view |-> [week |-> w, revision |-> revision[w]]]} :
           loads' = (loads \ {l}) \cup {[l EXCEPT !.answer = answer]}
  BY DEF Serve
<1>3. w \in Weeks /\ (l.week # NoWeek => w = l.week)
  BY <1>1, <1>2 DEF Load
<1>4. PICK answer \in {Failed, [outcome |-> "OK", view |-> [week |-> w, revision |-> revision[w]]]} :
           loads' = (loads \ {l}) \cup {[l EXCEPT !.answer = answer]}
  BY <1>2
<1>5. Failed \in Answers /\ Failed # Pending
  BY DEF Answers, Failed, Pending
<1>6. ASSUME answer = [outcome |-> "OK", view |-> [week |-> w, revision |-> revision[w]]]
      PROVE  /\ answer \in Answers /\ answer # Pending
             /\ answer.view \in ShownView
             /\ answer.view.revision = revision[answer.view.week]
             /\ answer.view.week = w
  <2>1. [week |-> w, revision |-> revision[w]] \in ShownView
    BY <1>3 DEF ViewTypes, ShownView
  <2> QED
    BY <1>6, <2>1 DEF Answers, Pending
<1> QED
  BY <1>3, <1>4, <1>5, <1>6

LEMMA ServeType ==
    ASSUME ViewTypes, NEW l \in loads, Serve(l)
    PROVE  ViewTypes'
<1>1. PICK answer \in Answers : loads' = (loads \ {l}) \cup {[l EXCEPT !.answer = answer]}
  BY ServeAnswer
<1>2. l \in Load /\ l.id \in 1..started
  BY DEF ViewTypes
<1>3. [l EXCEPT !.answer = answer] \in Load /\ [l EXCEPT !.answer = answer].id = l.id
  BY <1>2 DEF Load
<1>4. UNCHANGED <<revision, anchor, shown, loading, error, handlers, started, asked,
                  crossed, outdated>>
  BY DEF Serve
<1>5. \A m \in loads' : m \in Load /\ m.id \in 1..started
  BY <1>1, <1>2, <1>3 DEF ViewTypes
<1> QED
  BY <1>4, <1>5 DEF ViewTypes

LEMMA DeliverType ==
    ASSUME ViewTypes, NEW l \in loads, Deliver(l)
    PROVE  ViewTypes'
<1>1. /\ loads' \subseteq loads /\ loading' \in BOOLEAN /\ error' \in BOOLEAN
      /\ UNCHANGED <<revision, anchor, handlers, started, asked, crossed, outdated>>
  BY DEF Deliver
<1>2. shown' \in {Nothing} \cup ShownView
  <2>1. l \in Load /\ l.answer # Pending
    BY DEF ViewTypes, Deliver
  <2>2. CASE l.answer = Failed
    BY <2>2 DEF Deliver, ViewTypes
  <2>3. CASE l.answer # Failed
    BY <2>1, <2>3 DEF Deliver, Load, Answers
  <2> QED
    BY <2>2, <2>3
<1> QED
  BY <1>1, <1>2 DEF ViewTypes

\* Requests the process has not answered fail with it.
LEMMA CrashLoads ==
    ASSUME ViewTypes, Crash
    PROVE  /\ loads' \subseteq Load
           /\ \A m \in loads' : \E l \in loads :
                 /\ m.id = l.id /\ m.week = l.week /\ m.kept = l.kept
                 /\ m.answer = IF l.answer = Pending THEN Failed ELSE l.answer
                 /\ m = [l EXCEPT !.answer = m.answer]
<1>1. loads' = {[l EXCEPT !.answer = IF l.answer = Pending THEN Failed ELSE l.answer] :
                   l \in loads}
  BY DEF Crash
<1>2. ASSUME NEW m \in loads'
      PROVE  /\ m \in Load
             /\ \E l \in loads :
                 /\ m.id = l.id /\ m.week = l.week /\ m.kept = l.kept
                 /\ m.answer = IF l.answer = Pending THEN Failed ELSE l.answer
                 /\ m = [l EXCEPT !.answer = m.answer]
  <2>1. PICK l \in loads :
           m = [l EXCEPT !.answer = IF l.answer = Pending THEN Failed ELSE l.answer]
    BY <1>1
  <2>2. l \in Load
    BY DEF ViewTypes
  <2> DEFINE answer == IF l.answer = Pending THEN Failed ELSE l.answer
  <2>3. answer \in Answers
    BY <2>2 DEF Load, Answers
  <2>4. m = [l EXCEPT !.answer = answer]
    BY <2>1
  <2> HIDE DEF answer
  <2>5. m \in Load /\ m.id = l.id /\ m.week = l.week /\ m.kept = l.kept /\ m.answer = answer
    BY <2>2, <2>3, <2>4 DEF Load
  <2> QED
    BY <2>4, <2>5 DEF answer
<1> QED
  BY <1>2

LEMMA CrashType ==
    ASSUME ViewTypes, Crash
    PROVE  ViewTypes'
<1>1. UNCHANGED <<anchor, shown, loading, error, handlers, started, asked, crossed,
                  outdated, revision>>
  BY DEF Crash, serverVars
<1>2. \A m \in loads' : m \in Load /\ m.id \in 1..started
  BY CrashLoads DEF ViewTypes
<1> QED
  BY <1>1, <1>2 DEF ViewTypes

\* A schedule that is placed gives its week a new revision.
LEMMA PlaceType ==
    ASSUME ViewTypes, PageTypes, NEW s \in Schedules, NEW w \in Weeks, Place(s, w)
    PROVE  /\ revision' \in [Weeks -> Nat] /\ \A v \in Weeks : revision[v] <= revision'[v]
           /\ placed' \in [Schedules -> Weeks \cup {NoWeek}]
           /\ revision'[w] \in Nat
BY DEF ViewTypes, PageTypes, Place

LEMMA InitTypes == Init => TypeInv
<1> SUFFICES ASSUME Init PROVE TypeInv
  OBVIOUS
<1>1. AnnounceTypeOK
  BY DEF Init, AnnounceInit, AnnounceTypeOK, Webhooks
<1>2. ViewTypes
  <2> DEFINE first == [id |-> 1, week |-> anchor, kept |-> FALSE, answer |-> Pending]
  <2>1. first \in Load /\ first.id = 1 /\ loads = {first}
    BY DEF Init, ViewInit, Load, Answers
  <2>2. 1 \in 1..MaxLoads
    BY ViewAssumption
  <2> HIDE DEF first
  <2>3. /\ revision = [w \in Weeks |-> 0] /\ asked = revision
        /\ anchor \in Weeks \cup {NoWeek} /\ handlers = {}
        /\ shown = Nothing /\ loading = TRUE /\ error = FALSE /\ crossed = FALSE
        /\ started = 1 /\ outdated = FALSE
    BY DEF Init, ViewInit
  <2>4. /\ loading \in BOOLEAN /\ error \in BOOLEAN /\ crossed \in BOOLEAN
        /\ outdated \in BOOLEAN
    BY <2>3
  <2>5. revision \in [Weeks -> Nat] /\ asked \in [Weeks -> Nat]
    BY <2>3
  <2>6. loads \subseteq Load /\ \A l \in loads : l.id \in 1..started
    BY <2>1, <2>3
  <2> QED
    BY <2>2, <2>3, <2>4, <2>5, <2>6 DEF ViewTypes
<1>3. PageTypes
  BY DEF Init, PageTypes, PageSave, Idle
<1> QED
  BY <1>1, <1>2, <1>3 DEF TypeInv

LEMMA SaveTypes ==
    ASSUME TypeInv, Save
    PROVE  TypeInv'
<1>1. UNCHANGED <<announceVars, viewVars, revision, placed, mine>>
  BY DEF Save, serverVars
<1>2. shown \in ShownView /\ anchor \in Weeks \cup {NoWeek}
  BY DEF Save, TypeInv, ViewTypes
<1>3. saving' \in PageSave /\ saving'.week \in Weeks
  BY <1>2 DEF Save, Sent, PageSave, ShownView
<1> QED
  BY <1>1, <1>3
     DEF TypeInv, announceVars, viewVars, AnnounceTypeOK, ViewTypes, PageTypes

\* What a page step leaves alone, and what it does with the history of its save.
LEMMA ViewStepTypes ==
    ASSUME TypeInv, ViewTypes', UNCHANGED <<announceVars, placed, saving>>,
           mine' \in {mine, Idle}
    PROVE  TypeInv'
BY DEF TypeInv, announceVars, AnnounceTypeOK, PageTypes, PageSave, Idle

\* A page step is the start, the answer or the end of a load or of a handler.
LEMMA PageSteps ==
    ASSUME View \/ Served \/ Delivered
    PROVE  /\ \/ \E w \in Weeks : Navigate(w)
              \/ Retry
              \/ BeginHandler \/ \E w \in handlers : EndHandler(w)
              \/ \E l \in loads : Serve(l) \/ Deliver(l)
           /\ UNCHANGED <<limiterVars, announceVars, placed, saving>>
           /\ mine' \in {mine, Idle}
BY DEF View, Served, Delivered, ViewStep

LEMMA PageStepTypes ==
    ASSUME TypeInv, View \/ Served \/ Delivered
    PROVE  TypeInv'
<1>1. ViewTypes'
  BY PageSteps, NavigateType, RetryType, BeginHandlerType, EndHandlerType, ServeType,
     DeliverType DEF TypeInv
<1> QED
  BY <1>1, PageSteps, ViewStepTypes

LEMMA SaveAnsweredTypes ==
    ASSUME TypeInv, SaveAnswered
    PROVE  TypeInv'
<1>1. /\ UNCHANGED <<announceVars, placed>> /\ saving' = Idle
      /\ mine' \in {mine, [saving EXCEPT !.captured = NoWeek]}
  BY DEF SaveAnswered
<1>2. saving.captured \in Weeks \cup {NoWeek} /\ mine' \in PageSave
  BY <1>1 DEF TypeInv, PageTypes, PageSave
<1>3. ViewTypes'
  <2>1. CASE Refresh(saving.captured) /\ UNCHANGED handlers
    BY <1>2, <2>1, RefreshType DEF TypeInv
  <2>2. CASE UNCHANGED <<revision, viewVars>>
    BY <2>2 DEF TypeInv, viewVars, ViewTypes
  <2> QED
    BY <2>1, <2>2 DEF SaveAnswered, AfterSave
<1>4. Idle \in PageSave /\ Idle.state # "SENT"
  BY DEF Idle, PageSave
<1> QED
  BY <1>1, <1>2, <1>3, <1>4 DEF TypeInv, announceVars, AnnounceTypeOK, PageTypes

\* The server answers a save, having placed its schedule and queued its message,
\* placed it only, or neither.
LEMMA HandleSaveCases ==
    ASSUME TypeInv, HandleSave
    PROVE  /\ saving.week \in Weeks /\ UNCHANGED <<viewVars, mine>>
           /\ \/ /\ UNCHANGED <<announceVars, serverVars>>
                 /\ saving' = Answered("FAILED", 0)
              \/ \E s \in Schedules :
                    /\ Place(s, saving.week)
                    /\ \/ /\ UNCHANGED announceVars
                          /\ saving' = Answered("FAILED", 0)
                       \/ /\ AddTask(s)
                          /\ saving' = Answered("SAVED", revision'[saving.week])
<1>1. saving.week \in Weeks
  BY DEF TypeInv, PageTypes, HandleSave
<1> QED
  BY <1>1 DEF HandleSave

LEMMA AnsweredType ==
    ASSUME PageTypes, NEW state \in {"SAVED", "FAILED"}, NEW n \in Nat
    PROVE  Answered(state, n) \in PageSave /\ Answered(state, n).state = state
BY DEF PageTypes, PageSave, Answered

LEMMA AddTaskType ==
    ASSUME AnnounceTypeOK, NEW s \in Schedules, AddTask(s)
    PROVE  AnnounceTypeOK'
BY DEF AnnounceTypeOK, AddTask

LEMMA HandleSaveTypes ==
    ASSUME TypeInv, HandleSave
    PROVE  TypeInv'
<1>1. saving.week \in Weeks /\ UNCHANGED <<viewVars, mine>>
  BY HandleSaveCases
<1>2. CASE /\ UNCHANGED <<announceVars, serverVars>>
           /\ saving' = Answered("FAILED", 0)
  <2>1. saving' \in PageSave /\ saving'.state # "SENT"
    BY <1>2, AnsweredType DEF TypeInv
  <2> QED
    BY <1>1, <1>2, <2>1
       DEF TypeInv, announceVars, serverVars, viewVars, AnnounceTypeOK, ViewTypes, PageTypes
<1>3. ASSUME NEW s \in Schedules, Place(s, saving.week),
             \/ /\ UNCHANGED announceVars
                /\ saving' = Answered("FAILED", 0)
             \/ /\ AddTask(s)
                /\ saving' = Answered("SAVED", revision'[saving.week])
      PROVE  TypeInv'
  <2>1. /\ revision' \in [Weeks -> Nat] /\ revision'[saving.week] \in Nat
        /\ placed' \in [Schedules -> Weeks \cup {NoWeek}]
    BY <1>1, <1>3, PlaceType DEF TypeInv
  <2>2. saving' \in PageSave /\ saving'.state # "SENT"
    BY <1>3, <2>1, AnsweredType DEF TypeInv
  <2>3. AnnounceTypeOK'
    BY <1>3, AddTaskType DEF TypeInv, announceVars, AnnounceTypeOK
  <2>4. ViewTypes'
    BY <1>1, <2>1 DEF TypeInv, viewVars, ViewTypes
  <2> QED
    BY <1>1, <2>1, <2>2, <2>3, <2>4 DEF TypeInv, PageTypes
<1> QED
  BY <1>2, <1>3, HandleSaveCases

LEMMA OthersPlaceTypes ==
    ASSUME TypeInv, NEW s \in Schedules, NEW w \in Weeks, OthersPlace(s, w)
    PROVE  TypeInv'
<1>1. Place(s, w) /\ AddTask(s) /\ UNCHANGED <<viewVars, saving, mine>>
  BY DEF OthersPlace
<1>2. revision' \in [Weeks -> Nat] /\ placed' \in [Schedules -> Weeks \cup {NoWeek}]
  BY <1>1, PlaceType DEF TypeInv
<1>3. AnnounceTypeOK'
  BY <1>1, AddTaskType DEF TypeInv
<1> QED
  BY <1>1, <1>2, <1>3 DEF TypeInv, viewVars, ViewTypes, PageTypes

LEMMA WorkType ==
    ASSUME AnnounceTypeOK, NEW s \in Schedules, Work(s)
    PROVE  AnnounceTypeOK'
<1>1. CASE PickUp(s)
  BY <1>1 DEF AnnounceTypeOK, PickUp
<1>2. ASSUME NEW accepted \in BOOLEAN, NEW acknowledged \in BOOLEAN,
             Post(s, accepted, acknowledged)
      PROVE  AnnounceTypeOK'
  BY <1>2 DEF AnnounceTypeOK, Post, AfterPost
<1> QED
  BY <1>1, <1>2 DEF Work

LEMMA SettingsType ==
    ASSUME AnnounceTypeOK, Settings
    PROVE  AnnounceTypeOK'
<1>1. PICK k \in SettingsAsks : UpdateSettings(k.on, k.new, k.clear)
  BY DEF Settings
<1>2. webhook' \in Webhooks /\ enabled' \in BOOLEAN /\ UNCHANGED <<task, posts>>
  BY <1>1 DEF UpdateSettings, EnabledAfter, AnnounceTypeOK, Webhooks
<1> QED
  BY <1>2 DEF AnnounceTypeOK

LEMMA CrashTypes ==
    ASSUME TypeInv, Crash
    PROVE  TypeInv'
<1>1. ViewTypes'
  BY CrashType DEF TypeInv
<1>2. AnnounceTypeOK'
  BY DEF Crash, TasksLost, TypeInv, AnnounceTypeOK
<1>3. /\ UNCHANGED <<placed, mine>> /\ saving'.state # "SENT"
      /\ saving' \in {saving, Answered("FAILED", 0)}
  BY DEF Crash, serverVars
<1>4. Answered("FAILED", 0) \in PageSave
  BY AnsweredType DEF TypeInv
<1> QED
  BY <1>1, <1>2, <1>3, <1>4 DEF TypeInv, PageTypes

LEMMA StepTypes == TypeInv /\ [Next]_vars => TypeInv'
<1> SUFFICES ASSUME TypeInv, [Next]_vars PROVE TypeInv'
  OBVIOUS
<1>1. ASSUME UNCHANGED <<viewVars, serverVars, saving, mine>>, AnnounceTypeOK'
      PROVE  TypeInv'
  BY <1>1 DEF TypeInv, viewVars, serverVars, ViewTypes, PageTypes
<1>2. CASE Settings
  BY <1>1, <1>2, SettingsType DEF Settings, TypeInv
<1>3. ASSUME NEW s \in Schedules, Worker(s)
      PROVE  TypeInv'
  BY <1>1, <1>3, WorkType DEF Worker, TypeInv
<1>4. CASE Clock
  BY <1>1, <1>4 DEF Clock, TypeInv, announceVars, AnnounceTypeOK
<1>5. CASE UNCHANGED vars
  BY <1>1, <1>5 DEF vars, TypeInv, announceVars, AnnounceTypeOK
<1> QED
  BY <1>2, <1>3, <1>4, <1>5, SaveTypes, PageStepTypes, SaveAnsweredTypes, HandleSaveTypes,
     OthersPlaceTypes, CrashTypes DEF Next

LEMMA TypesCorrect == Spec => []TypeInv
BY InitTypes, StepTypes, PTL DEF Spec

\* Every variable keeps its type, for any number of clients, schedules and loads.
THEOREM JourneyTypeCorrect == Spec => []TypeOK
<1>1. LimiterInv => LimiterTypeOK
  <2> SUFFICES ASSUME LimiterInv PROVE LimiterTypeOK
    OBVIOUS
  <2>1. ASSUME NEW c \in Clients
        PROVE  /\ hits[c] \in Seq(0..Window + 1) /\ Len(hits[c]) <= Limit
               /\ recent[c] \in Seq(0..Window)
    BY DequeFacts DEF LimiterInv, Ages
  <2> QED
    BY <2>1 DEF LimiterInv, LimiterTypeOK
<1>2. ViewTypes => ViewTypeOK
  <2> SUFFICES ASSUME ViewTypes PROVE ViewTypeOK
    OBVIOUS
  <2>1. shown \in [week: Weeks \cup {NoWeek}, revision: Nat]
    BY DEF ViewTypes, Nothing, ShownView
  <2>2. \A l \in loads : l.id \in 1..started /\ l.answer.outcome \in {"PENDING", "OK", "FAILED"}
    BY DEF ViewTypes, Load, Answers, Pending, Failed
  <2>3. {loading, error, crossed, outdated} \subseteq BOOLEAN
    BY DEF ViewTypes
  <2> QED
    BY <2>1, <2>2, <2>3 DEF ViewTypes, ViewTypeOK
<1>3. LimiterInv /\ TypeInv => TypeOK
  BY <1>1, <1>2 DEF TypeInv, TypeOK, PageTypes, PageSave
<1> QED
  BY <1>3, LimiterCorrect, TypesCorrect, PTL

(***************************************************************************)
(* The Teams messages                                                      *)
(***************************************************************************)

\* A schedule that was not placed has no message, and one that has a task that could
\* still post has none yet.
MessageInv ==
    \A s \in Schedules :
        /\ placed[s] = NoWeek => task[s] = "NONE" /\ posts[s] = 0
        /\ posts[s] <= (IF task[s] = "NONE" THEN 1 ELSE 0)

\* A schedule is placed once, and its task is added with it.
LEMMA PlaceKeepsMessages ==
    ASSUME TypeInv, MessageInv, NEW s \in Schedules, NEW w \in Weeks, Place(s, w),
           AddTask(s) \/ UNCHANGED announceVars
    PROVE  MessageInv'
<1>1. /\ placed \in [Schedules -> Weeks \cup {NoWeek}]
      /\ task \in [Schedules -> {"NONE", "QUEUED", "POSTING"}]
      /\ posts \in [Schedules -> Nat]
      /\ NoWeek \notin Weeks
  BY ViewAssumption DEF TypeInv, PageTypes, AnnounceTypeOK
<1>2. placed[s] = NoWeek /\ task[s] = "NONE" /\ posts[s] = 0
  BY DEF Place, MessageInv
<1>3. posts' = posts /\ \A q \in Schedules : q # s => task'[q] = task[q] /\ placed'[q] = placed[q]
  BY <1>1 DEF Place, AddTask, announceVars
<1>4. placed'[s] = w
  BY <1>1 DEF Place
<1> QED
  BY <1>1, <1>2, <1>3, <1>4 DEF MessageInv

\* A worker posts once and is done, whatever Teams answers.
LEMMA WorkKeepsMessages ==
    ASSUME TypeInv, MessageInv, NEW s \in Schedules, Worker(s)
    PROVE  MessageInv'
<1>1. /\ task \in [Schedules -> {"NONE", "QUEUED", "POSTING"}]
      /\ posts \in [Schedules -> Nat]
  BY DEF TypeInv, AnnounceTypeOK
<1>2. UNCHANGED placed
  BY DEF Worker, serverVars
<1>3. CASE PickUp(s)
  <2>1. posts' = posts /\ task[s] = "QUEUED"
    BY <1>3 DEF PickUp
  <2>2. \A q \in Schedules : q # s => task'[q] = task[q]
    BY <1>1, <1>3 DEF PickUp
  <2> QED
    BY <1>1, <1>2, <2>1, <2>2 DEF MessageInv
<1>4. ASSUME NEW accepted \in BOOLEAN, NEW acknowledged \in BOOLEAN,
             Post(s, accepted, acknowledged)
      PROVE  MessageInv'
  <2>1. /\ task[s] = "POSTING" /\ task'[s] = "NONE" /\ posts'[s] \in {posts[s], posts[s] + 1}
        /\ \A q \in Schedules : q # s => task'[q] = task[q] /\ posts'[q] = posts[q]
    BY <1>1, <1>4 DEF Post, AfterPost
  <2>2. placed[s] # NoWeek /\ posts[s] = 0
    BY <1>1, <2>1 DEF MessageInv
  <2> QED
    BY <1>1, <1>2, <2>1, <2>2 DEF MessageInv
<1> QED
  BY <1>3, <1>4 DEF Worker, Work

LEMMA StepMessages == TypeInv /\ MessageInv /\ [Next]_vars => MessageInv'
<1> SUFFICES ASSUME TypeInv, MessageInv, [Next]_vars PROVE MessageInv'
  OBVIOUS
<1>1. ASSUME UNCHANGED <<task, posts, placed>> PROVE MessageInv'
  BY <1>1 DEF MessageInv
<1>2. CASE HandleSave
  BY <1>1, <1>2, HandleSaveCases, PlaceKeepsMessages DEF announceVars, serverVars
<1>3. ASSUME NEW s \in Schedules, NEW w \in Weeks, OthersPlace(s, w)
      PROVE  MessageInv'
  BY <1>3, PlaceKeepsMessages DEF OthersPlace
<1>4. CASE Crash
  <2>1. /\ UNCHANGED <<posts, placed>>
        /\ \A s \in Schedules : task'[s] = "NONE"
    BY <1>4 DEF Crash, TasksLost, serverVars
  <2> QED
    BY <2>1 DEF MessageInv, TypeInv, AnnounceTypeOK
<1>5. CASE Settings
  <2>1. UNCHANGED <<task, posts, placed>>
    BY <1>5 DEF Settings, UpdateSettings, serverVars
  <2> QED
    BY <1>1, <2>1
<1>6. CASE Save \/ View \/ Delivered \/ SaveAnswered \/ Served \/ Clock \/ UNCHANGED vars
  <2>1. UNCHANGED <<task, posts, placed>>
    BY <1>6, PageSteps DEF Save, SaveAnswered, Clock, vars, announceVars, serverVars
  <2> QED
    BY <1>1, <2>1
<1> QED
  BY <1>2, <1>3, <1>4, <1>5, <1>6, WorkKeepsMessages DEF Next

\* Teams gets one message about a schedule at most: whatever it answers, whenever the
\* settings change and the process ends, and whoever places the schedule.
THEOREM MessagesAreSentOnce == Spec => []AnnouncedAtMostOnce
<1>1. Init => MessageInv
  BY DEF Init, AnnounceInit, MessageInv
<1>2. TypeInv /\ MessageInv => AnnouncedAtMostOnce
  BY DEF TypeInv, AnnounceTypeOK, MessageInv, AnnouncedAtMostOnce
<1> QED
  BY <1>1, <1>2, StepMessages, TypesCorrect, PTL DEF Spec

(***************************************************************************)
(* What the board shows                                                    *)
(***************************************************************************)

\* A load asks for the page's week, unless it is a refresh for one the page had left, and
\* its answer is about the week it asks for and no older than the load.
Current(l) ==
    /\ anchor # NoWeek /\ ~outdated => l.week = anchor
    /\ l.answer \notin {Pending, Failed} =>
          /\ l.week # NoWeek => l.answer.view.week = l.week
          /\ l.answer.view.revision >= asked[l.answer.view.week]

Settled ==
    /\ shown # Nothing
    /\ anchor # NoWeek /\ ~outdated => shown.week = anchor
    /\ shown.revision >= asked[shown.week]

\* Unless a refresh crosses another load, at most one load is in flight and it is the
\* page's last one; when it is in, the page shows what it brought.
ViewInv ==
    /\ \A w \in Weeks : asked[w] <= revision[w]
    /\ ~crossed =>
          /\ \A l, m \in loads : l = m
          /\ \A l \in loads : Current(l)
          /\ loads = {} /\ ~error => Settled

\* A load that crosses nothing is alone.
LEMMA StartLoadView ==
    ASSUME ViewTypes, NEW week \in Weeks, NEW refresh \in BOOLEAN,
           StartLoad(week, refresh), UNCHANGED revision,
           anchor' # NoWeek /\ ~outdated' => week = anchor'
    PROVE  ViewInv'
<1> DEFINE new == [id |-> started', week |-> week, kept |-> refresh, answer |-> Pending]
<1>1. new \in loads' /\ asked' = revision'
  BY DEF StartLoad
<1>2. ASSUME ~crossed' PROVE loads' = {new}
  <2>1. /\ \A l \in loads : ~l.kept
        /\ refresh => loads = {}
    BY <1>2 DEF StartLoad
  <2>2. Remaining(refresh) = {}
    BY <2>1 DEF Remaining
  <2> QED
    BY <2>2 DEF StartLoad
<1>3. ASSUME NEW l, l = new PROVE Current(l)'
  <2>1. l.week = week /\ l.answer = Pending
    BY <1>3
  <2> QED
    BY <2>1 DEF Current
<1>4. \A w \in Weeks : asked'[w] <= revision'[w]
  BY <1>1 DEF ViewTypes
<1> HIDE DEF new
<1>5. ~crossed' => /\ \A l, m \in loads' : l = m
                   /\ \A l \in loads' : Current(l)'
                   /\ loads' # {}
  BY <1>2, <1>3
<1> QED
  BY <1>4, <1>5 DEF ViewInv

\* The answer the server gives is about the week of the load, and as new as the table.
LEMMA ServeKeepsView ==
    ASSUME ViewTypes, ViewInv, NEW l \in loads, Serve(l)
    PROVE  ViewInv'
<1>1. PICK answer \in Answers :
             /\ loads' = (loads \ {l}) \cup {[l EXCEPT !.answer = answer]}
             /\ answer # Pending
             /\ answer # Failed =>
                   /\ answer.view \in ShownView
                   /\ answer.view.revision = revision[answer.view.week]
                   /\ l.week # NoWeek => answer.view.week = l.week
  BY ServeAnswer
<1>2. UNCHANGED <<revision, anchor, shown, error, asked, crossed, outdated>>
  BY DEF Serve
<1>3. l \in Load
  BY DEF ViewTypes
<1> DEFINE served == [l EXCEPT !.answer = answer]
<1>4. served.week = l.week /\ served.answer = answer
  BY <1>3 DEF Load
<1>5. loads' = (loads \ {l}) \cup {served}
  BY <1>1
<1> HIDE DEF served
<1>6. ASSUME ~crossed PROVE loads' = {served} /\ Current(served)'
  <2>1. loads = {l} /\ Current(l)
    BY <1>6 DEF ViewInv
  <2>2. loads' = {served}
    BY <1>5, <2>1
  <2>3. anchor # NoWeek /\ ~outdated => served.week = anchor
    BY <1>4, <2>1 DEF Current
  <2>4. ASSUME answer # Failed
        PROVE  /\ l.week # NoWeek => answer.view.week = l.week
               /\ answer.view.revision >= asked[answer.view.week]
    <3>1. answer.view.week \in Weeks
      BY <1>1, <2>4 DEF ShownView
    <3>2. /\ asked[answer.view.week] \in Nat /\ revision[answer.view.week] \in Nat
          /\ asked[answer.view.week] <= revision[answer.view.week]
      BY <3>1 DEF ViewInv, ViewTypes
    <3> QED
      BY <1>1, <2>4, <3>2
  <2> QED
    BY <1>2, <1>4, <2>2, <2>3, <2>4 DEF Current
<1> QED
  BY <1>2, <1>6 DEF ViewInv

\* The last answer settles what the page shows.
LEMMA DeliverKeepsView ==
    ASSUME ViewTypes, ViewInv, NEW l \in loads, Deliver(l)
    PROVE  ViewInv'
<1>1. /\ UNCHANGED <<revision, anchor, asked, crossed, outdated>> /\ l.answer # Pending
      /\ loads' = loads \ {l}
  BY DEF Deliver
<1>2. l \in Load
  BY DEF ViewTypes
<1>3. ASSUME ~crossed, ~error' PROVE Settled'
  <2>1. loads = {l} /\ Current(l)
    BY <1>3 DEF ViewInv
  <2>2. l.answer # Failed /\ shown' = l.answer.view
    BY <1>3 DEF Deliver
  <2>3. l.answer.view \in ShownView
    BY <1>1, <1>2, <2>2 DEF Load, Answers
  <2>4. shown' # Nothing
    BY <2>2, <2>3, ViewAssumption DEF ShownView, Nothing
  <2>5. anchor # NoWeek /\ ~outdated => shown'.week = anchor
    BY <1>1, <2>1, <2>2 DEF Current
  <2>6. shown'.revision >= asked[shown'.week]
    BY <1>1, <2>1, <2>2 DEF Current
  <2> QED
    BY <1>1, <2>4, <2>5, <2>6 DEF Settled
<1>4. ASSUME ~crossed PROVE loads' = {}
  <2>1. loads = {l}
    BY <1>4 DEF ViewInv
  <2> QED
    BY <1>1, <2>1
<1> QED
  BY <1>1, <1>3, <1>4 DEF ViewInv

\* A crash only makes answers of loads that had none, and those say that they failed.
LEMMA CrashKeepsView ==
    ASSUME ViewTypes, ViewInv, Crash
    PROVE  ViewInv'
<1>1. UNCHANGED <<revision, anchor, shown, error, asked, crossed, outdated>>
  BY DEF Crash, serverVars
<1>2. \A m \in loads' : \E l \in loads :
         /\ m.week = l.week
         /\ m.answer = IF l.answer = Pending THEN Failed ELSE l.answer
         /\ m = [l EXCEPT !.answer = m.answer]
  BY CrashLoads
<1>3. loads' = {} => loads = {}
  BY DEF Crash
<1>4. ASSUME ~crossed
      PROVE  /\ \A m, n \in loads' : m = n
             /\ \A m \in loads' : Current(m)'
  <2>1. (\A l, m \in loads : l = m) /\ \A l \in loads : Current(l)
    BY <1>4 DEF ViewInv
  <2>2. \A m, n \in loads' : m = n
    BY <1>2, <2>1
  <2>3. ASSUME NEW m \in loads' PROVE Current(m)'
    <3>1. PICK l \in loads : /\ m.week = l.week
                            /\ m.answer = IF l.answer = Pending THEN Failed ELSE l.answer
      BY <1>2
    <3>2. Current(l)
      BY <2>1
    <3> QED
      BY <1>1, <3>1, <3>2 DEF Current
  <2> QED
    BY <2>2, <2>3
<1> QED
  BY <1>1, <1>3, <1>4 DEF ViewInv, Settled

\* A revision that grows leaves every load as current as it was.
LEMMA PlaceKeepsView ==
    ASSUME ViewTypes, ViewInv, UNCHANGED viewVars,
           \A w \in Weeks : revision[w] <= revision'[w], revision' \in [Weeks -> Nat]
    PROVE  ViewInv'
<1>1. \A w \in Weeks : asked'[w] <= revision'[w]
  <2> SUFFICES ASSUME NEW w \in Weeks PROVE asked[w] <= revision'[w]
    BY DEF viewVars
  <2>1. asked[w] \in Nat /\ revision[w] \in Nat /\ revision'[w] \in Nat
    BY DEF ViewTypes
  <2>2. asked[w] <= revision[w] /\ revision[w] <= revision'[w]
    BY DEF ViewInv
  <2> QED
    BY <2>1, <2>2
<1> QED
  BY <1>1 DEF ViewInv, viewVars, Current, Settled

\* A refresh asks for the page's week, or is marked as asking for one the page had left.
LEMMA RefreshKeepsView ==
    ASSUME ViewTypes, NEW captured \in Weeks \cup {NoWeek}, Refresh(captured)
    PROVE  ViewInv'
<1> DEFINE week == WantedWeek(captured)
<1>1. StartLoad(week, TRUE) /\ UNCHANGED <<revision, anchor>>
  BY DEF Refresh
<1>2. anchor' # NoWeek /\ ~outdated' => week = anchor'
  BY <1>1 DEF StartLoad
<1>3. week \in Weeks
  BY WantedWeekType
<1> HIDE DEF week
<1> QED
  BY <1>1, <1>2, <1>3, StartLoadView

LEMMA NavigateKeepsView ==
    ASSUME ViewTypes, NEW w \in Weeks, Navigate(w)
    PROVE  ViewInv'
<1>1. StartLoad(w, FALSE) /\ UNCHANGED revision /\ (anchor' # NoWeek => w = anchor')
  BY DEF Navigate
<1> QED
  BY <1>1, StartLoadView

LEMMA StepView == TypeInv /\ ViewInv /\ [Next]_vars => ViewInv'
<1> SUFFICES ASSUME TypeInv, ViewInv, [Next]_vars PROVE ViewInv'
  OBVIOUS
<1>1. ViewTypes
  BY DEF TypeInv
<1>2. ASSUME UNCHANGED <<revision, anchor, shown, loading, error, loads, started, asked,
                         crossed, outdated>>
      PROVE  ViewInv'
  BY <1>2 DEF ViewInv, Current, Settled
<1>3. CASE View \/ Served \/ Delivered
  <2>1. CASE Retry
    BY <1>1, <2>1, RefreshKeepsView DEF Retry, ViewTypes
  <2>2. CASE BeginHandler
    BY <1>2, <2>2 DEF BeginHandler
  <2>3. ASSUME NEW w \in handlers, EndHandler(w)
        PROVE  ViewInv'
    <3>1. w \in Weeks \cup {NoWeek}
      BY <1>1 DEF ViewTypes
    <3> QED
      BY <1>1, <1>2, <2>3, <3>1, RefreshKeepsView DEF EndHandler
  <2> QED
    BY <1>1, <1>3, <2>1, <2>2, <2>3, PageSteps, NavigateKeepsView, ServeKeepsView,
       DeliverKeepsView
<1>4. CASE SaveAnswered
  <2>1. saving.captured \in Weeks \cup {NoWeek}
    BY DEF TypeInv, PageTypes, PageSave
  <2> QED
    BY <1>1, <1>2, <1>4, <2>1, RefreshKeepsView DEF SaveAnswered, AfterSave, viewVars
<1>5. ASSUME NEW s \in Schedules, NEW w \in Weeks, Place(s, w), UNCHANGED viewVars
      PROVE  ViewInv'
  <2>1. revision' \in [Weeks -> Nat] /\ \A v \in Weeks : revision[v] <= revision'[v]
    BY <1>5, PlaceType DEF TypeInv
  <2> QED
    BY <1>1, <1>5, <2>1, PlaceKeepsView
<1>6. CASE HandleSave
  BY <1>2, <1>5, <1>6, HandleSaveCases DEF serverVars, viewVars
<1>7. CASE Crash
  BY <1>1, <1>7, CrashKeepsView
<1>8. ASSUME NEW s \in Schedules, NEW w \in Weeks, OthersPlace(s, w)
      PROVE  ViewInv'
  BY <1>5, <1>8 DEF OthersPlace
<1> QED
  BY <1>2, <1>3, <1>4, <1>6, <1>7, <1>8
     DEF Next, Save, Settings, Worker, Clock, vars, serverVars, viewVars

\* However loads, saves, handlers, changes of week and crashes follow each other: when
\* the last answer is in, no error is shown and no refresh crossed another load, the
\* board is no older than when it was asked for, and shows the week the page is on,
\* unless a handler that began on another week was answered last.
THEOREM SettledViewsAreCurrent == Spec => []SettledViewIsCurrent
<1>1. Init => ViewInv
  <2> SUFFICES ASSUME Init PROVE ViewInv
    OBVIOUS
  <2> DEFINE first == [id |-> 1, week |-> anchor, kept |-> FALSE, answer |-> Pending]
  <2>1. revision = [w \in Weeks |-> 0] /\ asked = revision /\ loads = {first}
    BY DEF Init, ViewInit
  <2>2. first.answer = Pending /\ first.week = anchor
    OBVIOUS
  <2>3. \A w \in Weeks : asked[w] <= revision[w]
    BY <2>1
  <2> QED
    BY <2>1, <2>2, <2>3 DEF ViewInv, Current
<1>2. ViewInv => SettledViewIsCurrent
  BY DEF ViewInv, Settled, SettledViewIsCurrent
<1> QED
  BY <1>1, <1>2, StepView, TypesCorrect, PTL DEF Spec
=============================================================================
