----------------------- MODULE MessageDispatcherProofs -----------------------
(***************************************************************************)
(* Theorems about MessageDispatcher, for any handlers, any finite set of   *)
(* threads and any number of changes of the list.                          *)
(***************************************************************************)
EXTENDS MessageDispatcher, FiniteSetTheorems, SequenceTheorems, TLAPS

Busy == {"called", "relayed", "returned"}
Running(h) == {t \in Threads : pc[t] = "called" /\ cur[t] = h}

\* The list is sorted and holds the handlers that are in.
ListSorted ==
    /\ Ascending(handlers)
    /\ \A h \in Handlers : h \in Listed <=> owner[h] = "in"

\* A handler's mark counts the threads that run it.
MarksCount == \A h \in Handlers : unsafe[h] = Cardinality(Running(h))

\* A thread's place is the place of its handler as long as the list is the
\* one it saw, and its handler is the last one it passed the message to.
PlacesFit ==
    \A t \in Threads :
        /\ seen[t] <= changes
        /\ pc[t] = "idle" => called[t] = <<>>
        /\ pc[t] \in Busy =>
              /\ cur[t] \in Handlers
              /\ called[t] # <<>>
              /\ called[t][Len(called[t])] = cur[t]
              /\ seen[t] = changes =>
                    at[t] \in DOMAIN handlers /\ handlers[at[t]] = cur[t]

\* Two handlers at one address never exist at once.
AddressesDiffer ==
    \A g, h \in Handlers :
        Address[g] = Address[h] /\ owner[g] # "out" /\ owner[h] # "out" => g = h

\* What stayed is in the list, and a handler that stayed is never taken for
\* the one that a thread called.
StayedFit ==
    \A t \in Threads :
        /\ stayed[t] \subseteq Listed
        /\ pc[t] \in Busy =>
              \A g \in stayed[t] : Address[g] = Address[cur[t]] => g = cur[t]

DInv ==
    /\ TypeOK
    /\ ListSorted
    /\ MarksCount
    /\ PlacesFit
    /\ NeverRunsUninstalled
    /\ AddressesDiffer
    /\ StayedFit

\* What the order of the calls needs: while a thread walks, no other handler
\* is in the list at the address of the one it called last.
AddressKept ==
    \A t \in Threads : pc[t] \in Busy =>
        \A g \in Listed : Address[g] = Address[cur[t]] => g = cur[t]

\* One dispatch passes its message to handlers in the order of their sort
\* keys and to none twice.
AtMostOnceInOrder == \A t \in Threads : Ascending(called[t])

\* What StayedAreServed needs: while a thread walks, some handler that does
\* not sort after the one it called last is in the list.  Then the rescan
\* never stops at the first place for a handler it has not called.
HeadStays ==
    \A t \in Threads : pc[t] \in Busy =>
        \E i \in DOMAIN handlers : handlers[i] <= cur[t]

\* The first handler of all is there from the start and is never uninstalled.
FirstLasts ==
    /\ Initial # <<>>
    /\ Initial[1] \in Lasting
    /\ \A h \in Handlers : Initial[1] <= h

\* A walk has passed its message to every handler that stayed and matches, up
\* to the one it called last; at its end to all of them.
ServesOf(t) ==
    /\ pc[t] \in Busy =>
          \A h \in stayed[t] \cap msg[t].matches :
             h <= cur[t] => h \in ToSet(called[t])
    /\ pc[t] = "dispatched" /\ ~Accepted(t) =>
          stayed[t] \cap msg[t].matches \subseteq ToSet(called[t])

Serves == \A t \in Threads : ServesOf(t)

-----------------------------------------------------------------------------
\* Concatenation, with the lengths given as numbers.
LEMMA Joined ==
    ASSUME NEW S, NEW l \in Nat, NEW r \in Nat,
           NEW a \in Seq(S), NEW b \in Seq(S), Len(a) = l, Len(b) = r
    PROVE  /\ a \o b \in Seq(S)
           /\ Len(a \o b) = l + r
           /\ \A k \in 1 .. l + r :
                (a \o b)[k] = IF k <= l THEN a[k] ELSE b[k - l]
BY ConcatProperties

\* A part of a sequence, with its length given as a number.
LEMMA Part ==
    ASSUME NEW S, NEW list \in Seq(S), NEW n \in Nat, Len(list) = n,
           NEW lo \in 1 .. n + 1, NEW hi \in 0 .. n, lo <= hi + 1
    PROVE  /\ SubSeq(list, lo, hi) \in Seq(S)
           /\ Len(SubSeq(list, lo, hi)) = hi - lo + 1
           /\ \A k \in 1 .. hi - lo + 1 : SubSeq(list, lo, hi)[k] = list[lo + k - 1]
<1>1. lo \in Int /\ hi \in Int
  OBVIOUS
<1>2. \A k \in lo .. hi : list[k] \in S
  BY ElementOfSeq
<1>3. /\ SubSeq(list, lo, hi) \in Seq(S)
      /\ Len(SubSeq(list, lo, hi)) = IF lo <= hi THEN hi - lo + 1 ELSE 0
      /\ \A k \in 1 .. hi - lo + 1 : SubSeq(list, lo, hi)[k] = list[lo + k - 1]
  BY <1>1, <1>2, SubSeqProperties
<1> QED
  BY <1>3

\* What InsertAt and RemoveAt return.
LEMMA Inserted ==
    ASSUME NEW S, NEW list \in Seq(S), NEW h \in S,
           NEW i \in 1 .. Len(list) + 1
    PROVE  /\ InsertAt(list, i, h) \in Seq(S)
           /\ Len(InsertAt(list, i, h)) = Len(list) + 1
           /\ \A k \in 1 .. i - 1 : InsertAt(list, i, h)[k] = list[k]
           /\ InsertAt(list, i, h)[i] = h
           /\ \A k \in i + 1 .. Len(list) + 1 : InsertAt(list, i, h)[k] = list[k - 1]
<1>0. PICK n \in Nat : n = Len(list)
  OBVIOUS
<1> i \in 1 .. n + 1
  BY <1>0
<1>1. PICK left : left = SubSeq(list, 1, i - 1)
  OBVIOUS
<1>2. PICK right : right = SubSeq(list, i, n)
  OBVIOUS
<1>3. PICK leftH : leftH = left \o <<h>>
  OBVIOUS
<1>4. PICK new : new = leftH \o right
  OBVIOUS
<1>5. /\ left \in Seq(S) /\ Len(left) = i - 1
      /\ \A k \in 1 .. i - 1 : left[k] = list[k]
  <2>1. i - 1 \in 0 .. n /\ 1 \in 1 .. n + 1 /\ 1 <= (i - 1) + 1
    OBVIOUS
  <2> QED
    BY <1>0, <1>1, <2>1, Part
<1>6. /\ right \in Seq(S) /\ Len(right) = n - i + 1
      /\ \A k \in 1 .. n - i + 1 : right[k] = list[i + k - 1]
  <2>1. n \in 0 .. n /\ i <= n + 1
    OBVIOUS
  <2> QED
    BY <1>0, <1>2, <2>1, Part
<1>7. /\ leftH \in Seq(S) /\ Len(leftH) = i
      /\ \A k \in 1 .. i : leftH[k] = IF k < i THEN list[k] ELSE h
  <2>1. <<h>> \in Seq(S) /\ Len(<<h>>) = 1 /\ <<h>>[1] = h
    OBVIOUS
  <2>2. PICK one : one = <<h>>
    OBVIOUS
  <2>3. /\ leftH \in Seq(S) /\ Len(leftH) = (i - 1) + 1
        /\ \A k \in 1 .. (i - 1) + 1 :
              leftH[k] = IF k <= i - 1 THEN left[k] ELSE one[k - (i - 1)]
    <3>1. i - 1 \in Nat /\ 1 \in Nat
      OBVIOUS
    <3> QED
      BY <1>3, <1>5, <2>1, <2>2, <3>1, Joined
  <2> QED
    BY <1>5, <2>1, <2>2, <2>3
<1>8. /\ new \in Seq(S) /\ Len(new) = n + 1
      /\ \A k \in 1 .. n + 1 :
            new[k] = IF k <= i THEN leftH[k] ELSE right[k - i]
  <2>1. PICK r \in Nat : r = n - i + 1
    OBVIOUS
  <2>2. i \in Nat /\ i + r = n + 1
    BY <2>1
  <2>3. /\ leftH \in Seq(S) /\ Len(leftH) = i
        /\ right \in Seq(S) /\ Len(right) = r
    BY <1>6, <1>7, <2>1
  <2>4. /\ leftH \o right \in Seq(S) /\ Len(leftH \o right) = i + r
        /\ \A k \in 1 .. i + r :
              (leftH \o right)[k] = IF k <= i THEN leftH[k] ELSE right[k - i]
    BY <2>2, <2>3, ConcatProperties
  <2> QED
    BY <1>4, <2>2, <2>4
<1>9. \A k \in 1 .. n + 1 :
        new[k] = IF k < i THEN list[k] ELSE IF k = i THEN h ELSE list[k - 1]
  <2> TAKE k \in 1 .. n + 1
  <2>1. CASE k <= i
    BY <1>7, <1>8, <2>1
  <2>2. CASE k > i
    <3>1. k - i \in 1 .. n - i + 1 /\ i + (k - i) - 1 = k - 1
      BY <2>2
    <3>2. right[k - i] = list[i + (k - i) - 1]
      BY <1>6, <3>1
    <3>3. new[k] = right[k - i]
      BY <1>8, <2>2
    <3> QED
      BY <2>2, <3>1, <3>2, <3>3
  <2> QED
    BY <2>1, <2>2
<1>10. InsertAt(list, i, h) = new
  BY <1>0, <1>1, <1>2, <1>3, <1>4 DEF InsertAt
<1> QED
  BY <1>0, <1>8, <1>9, <1>10

\* What is left of a sequence without its i-th element.
LEMMA Removed ==
    ASSUME NEW S, NEW list \in Seq(S), NEW n \in Nat, Len(list) = n,
           NEW i \in 1 .. n
    PROVE  /\ RemoveAt(list, i) \in Seq(S)
           /\ Len(RemoveAt(list, i)) = n - 1
           /\ \A k \in 1 .. n - 1 :
                 RemoveAt(list, i)[k] = IF k < i THEN list[k] ELSE list[k + 1]
<1>1. PICK left : left = SubSeq(list, 1, i - 1)
  OBVIOUS
<1>2. PICK right : right = SubSeq(list, i + 1, n)
  OBVIOUS
<1>3. PICK new : new = left \o right
  OBVIOUS
<1>4. /\ left \in Seq(S) /\ Len(left) = i - 1
      /\ \A k \in 1 .. i - 1 : left[k] = list[k]
  <2>1. i - 1 \in 0 .. n /\ 1 \in 1 .. n + 1 /\ 1 <= (i - 1) + 1
    OBVIOUS
  <2> QED
    BY <1>1, <2>1, Part
<1>5. /\ right \in Seq(S) /\ Len(right) = n - i
      /\ \A k \in 1 .. n - i : right[k] = list[i + k]
  <2>1. n \in 0 .. n /\ i + 1 \in 1 .. n + 1 /\ i + 1 <= n + 1
    OBVIOUS
  <2> QED
    BY <1>2, <2>1, Part
<1>6. /\ new \in Seq(S) /\ Len(new) = n - 1
      /\ \A k \in 1 .. n - 1 :
            new[k] = IF k <= i - 1 THEN left[k] ELSE right[k - (i - 1)]
  <2>1. PICK l \in Nat : l = i - 1
    OBVIOUS
  <2>2. PICK r \in Nat : r = n - i
    OBVIOUS
  <2>3. l + r = n - 1
    BY <2>1, <2>2
  <2>4. /\ new \in Seq(S) /\ Len(new) = l + r
        /\ \A k \in 1 .. l + r : new[k] = IF k <= l THEN left[k] ELSE right[k - l]
    <3>1. left \in Seq(S) /\ Len(left) = l /\ right \in Seq(S) /\ Len(right) = r
      BY <1>4, <1>5, <2>1, <2>2
    <3>2. /\ left \o right \in Seq(S)
          /\ Len(left \o right) = l + r
          /\ \A k \in 1 .. l + r :
               (left \o right)[k] = IF k <= l THEN left[k] ELSE right[k - l]
      BY <3>1, ConcatProperties
    <3> QED
      BY <1>3, <3>2
  <2> QED
    BY <2>1, <2>3, <2>4
<1>7. \A k \in 1 .. n - 1 : new[k] = IF k < i THEN list[k] ELSE list[k + 1]
  <2> TAKE k \in 1 .. n - 1
  <2>1. CASE k < i
    BY <1>4, <1>6, <2>1
  <2>2. CASE k >= i
    <3>1. k - (i - 1) \in 1 .. n - i /\ i + (k - (i - 1)) = k + 1
      BY <2>2
    <3>2. right[k - (i - 1)] = list[i + (k - (i - 1))]
      BY <1>5, <3>1
    <3>3. new[k] = right[k - (i - 1)]
      BY <1>6, <2>2
    <3> QED
      BY <2>2, <3>1, <3>2, <3>3
  <2> QED
    BY <2>1, <2>2
<1>8. RemoveAt(list, i) = new
  BY <1>1, <1>2, <1>3 DEF RemoveAt
<1> QED
  BY <1>6, <1>7, <1>8

\* Installing in the right place keeps the list sorted.
LEMMA InsertAscending ==
    ASSUME NEW list \in Seq(Handlers), Ascending(list), NEW h \in Handlers,
           NEW i \in 1 .. Len(list) + 1,
           \A j \in 1 .. i - 1 : list[j] < h,
           i \in DOMAIN list => list[i] > h
    PROVE  /\ InsertAt(list, i, h) \in Seq(Handlers)
           /\ Ascending(InsertAt(list, i, h))
           /\ \A x :
                (\E k \in DOMAIN InsertAt(list, i, h) : InsertAt(list, i, h)[k] = x)
                    <=> x = h \/ \E k \in DOMAIN list : list[k] = x
<1>1. PICK n \in Nat : n = Len(list) /\ DOMAIN list = 1 .. n
  BY LenProperties
<1>2. PICK f : f = list
  OBVIOUS
<1>3. PICK new : new = InsertAt(list, i, h)
  OBVIOUS
<1>4. i \in 1 .. n + 1 /\ h \in Nat
  BY <1>1, HandlersAssumption
<1>5. /\ \A k \in 1 .. n : f[k] \in Nat
      /\ \A j, k \in 1 .. n : j < k => f[j] < f[k]
      /\ \A j \in 1 .. i - 1 : f[j] < h
      /\ i \in 1 .. n => f[i] > h
  BY <1>1, <1>2, HandlersAssumption, ElementOfSeq DEF Ascending
<1>6. /\ new \in Seq(Handlers) /\ Len(new) = n + 1
      /\ \A k \in 1 .. n + 1 :
            new[k] = IF k < i THEN f[k] ELSE IF k = i THEN h ELSE f[k - 1]
  <2>1. /\ new \in Seq(Handlers) /\ Len(new) = n + 1
        /\ \A k \in 1 .. n + 1 : new[k] =
              IF k < i THEN list[k] ELSE IF k = i THEN h ELSE list[k - 1]
    <3>1. Len(list) = n
      BY <1>1
    <3>2. /\ InsertAt(list, i, h) \in Seq(Handlers)
          /\ Len(InsertAt(list, i, h)) = Len(list) + 1
          /\ \A k \in 1 .. i - 1 : InsertAt(list, i, h)[k] = list[k]
          /\ InsertAt(list, i, h)[i] = h
          /\ \A k \in i + 1 .. Len(list) + 1 : InsertAt(list, i, h)[k] = list[k - 1]
      BY Inserted
    <3> QED
      BY <1>3, <1>4, <3>1, <3>2
  <2> QED
    BY <1>2, <2>1
<1>7. DOMAIN new = 1 .. n + 1
  BY <1>6, LenProperties
<1>8. \A j, k \in 1 .. n + 1 : j < k => new[j] < new[k]
  <2> SUFFICES ASSUME NEW j \in 1 .. n + 1, NEW k \in 1 .. n + 1, j < k
               PROVE  new[j] < new[k]
    OBVIOUS
  <2>1. \A m \in i .. n : h < f[m]
    BY <1>4, <1>5
  <2>2. \A m \in 1 .. n + 1 :
          /\ m < i => m \in 1 .. n /\ new[m] = f[m]
          /\ m = i => new[m] = h
          /\ m > i => m - 1 \in i .. n /\ m - 1 \in 1 .. n /\ new[m] = f[m - 1]
    BY <1>4, <1>6
  <2>3. CASE j < i /\ k < i
    BY <1>5, <2>2, <2>3
  <2>4. CASE j < i /\ k = i
    <3>1. j \in 1 .. i - 1
      BY <1>4, <2>4
    <3> QED
      BY <1>5, <2>2, <2>4, <3>1
  <2>5. CASE j < i /\ k > i
    <3>1. j < k - 1 /\ j \in 1 .. n /\ k - 1 \in 1 .. n
      BY <1>4, <2>5
    <3> QED
      BY <1>5, <2>2, <2>5, <3>1
  <2>6. CASE j = i
    BY <2>1, <2>2, <2>6
  <2>7. CASE j > i
    <3>1. j - 1 < k - 1 /\ j - 1 \in 1 .. n /\ k - 1 \in 1 .. n /\ k > i
      BY <1>4, <2>7
    <3> QED
      BY <1>5, <2>2, <2>7, <3>1
  <2> QED
    BY <1>4, <2>3, <2>4, <2>5, <2>6, <2>7
<1>9. ASSUME NEW x
      PROVE  (\E k \in 1 .. n + 1 : new[k] = x)
                <=> x = h \/ \E k \in 1 .. n : f[k] = x
  <2>1. i \in 1 .. n + 1 /\ new[i] = h
    BY <1>4, <1>6
  <2>2. ASSUME NEW k \in 1 .. n
        PROVE  \E j \in 1 .. n + 1 : new[j] = f[k]
    <3>1. CASE k < i
      BY <1>4, <1>6, <3>1
    <3>2. CASE k >= i
      <4>1. k + 1 \in 1 .. n + 1 /\ new[k + 1] = f[k]
        BY <1>4, <1>6, <3>2
      <4> QED
        BY <4>1
    <3> QED
      BY <1>4, <3>1, <3>2
  <2>3. ASSUME NEW k \in 1 .. n + 1
        PROVE  new[k] = h \/ \E j \in 1 .. n : f[j] = new[k]
    <3>1. CASE k < i
      BY <1>4, <1>6, <3>1
    <3>2. CASE k > i
      <4>1. k - 1 \in 1 .. n /\ new[k] = f[k - 1]
        BY <1>4, <1>6, <3>2
      <4> QED
        BY <4>1
    <3> QED
      BY <1>4, <2>1, <3>1, <3>2
  <2> QED
    BY <2>1, <2>2, <2>3
<1>10. Ascending(new)
  BY <1>7, <1>8 DEF Ascending
<1> QED
  BY <1>1, <1>2, <1>3, <1>6, <1>7, <1>9, <1>10

\* Removing an entry keeps the list sorted.
LEMMA RemoveAscending ==
    ASSUME NEW list \in Seq(Handlers), Ascending(list), NEW i \in DOMAIN list
    PROVE  /\ RemoveAt(list, i) \in Seq(Handlers)
           /\ Ascending(RemoveAt(list, i))
           /\ \A x :
                (\E k \in DOMAIN RemoveAt(list, i) : RemoveAt(list, i)[k] = x)
                    <=> x # list[i] /\ \E k \in DOMAIN list : list[k] = x
<1>1. PICK n \in Nat : n = Len(list) /\ DOMAIN list = 1 .. n
  BY LenProperties
<1>2. PICK f : f = list
  OBVIOUS
<1>3. PICK new : new = RemoveAt(list, i)
  OBVIOUS
<1>4. i \in 1 .. n /\ n - 1 \in Nat
  BY <1>1
<1>5. /\ \A k \in 1 .. n : f[k] \in Nat
      /\ \A j, k \in 1 .. n : j < k => f[j] < f[k]
  BY <1>1, <1>2, HandlersAssumption, ElementOfSeq DEF Ascending
<1>6. /\ new \in Seq(Handlers) /\ Len(new) = n - 1
      /\ \A k \in 1 .. n - 1 : new[k] = IF k < i THEN f[k] ELSE f[k + 1]
  <2>1. /\ new \in Seq(Handlers) /\ Len(new) = n - 1
        /\ \A k \in 1 .. n - 1 :
              new[k] = IF k < i THEN list[k] ELSE list[k + 1]
    <3>1. Len(list) = n
      BY <1>1
    <3>2. /\ RemoveAt(list, i) \in Seq(Handlers)
          /\ Len(RemoveAt(list, i)) = n - 1
          /\ \A k \in 1 .. n - 1 : RemoveAt(list, i)[k] =
                IF k < i THEN list[k] ELSE list[k + 1]
      BY <1>4, <3>1, Removed
    <3> QED
      BY <1>3, <3>2
  <2> QED
    BY <1>2, <2>1
<1>7. DOMAIN new = 1 .. n - 1
  BY <1>6, LenProperties
<1>8. \A j, k \in 1 .. n - 1 : j < k => new[j] < new[k]
  BY <1>4, <1>5, <1>6
<1>9. ASSUME NEW x
      PROVE  (\E k \in 1 .. n - 1 : new[k] = x)
                <=> x # f[i] /\ \E k \in 1 .. n : f[k] = x
  <2>1. ASSUME NEW k \in 1 .. n - 1
        PROVE  new[k] # f[i] /\ \E j \in 1 .. n : f[j] = new[k]
    <3>1. CASE k < i
      <4>1. new[k] = f[k] /\ k \in 1 .. n /\ f[k] < f[i]
        BY <1>4, <1>5, <1>6, <3>1
      <4> QED
        BY <1>4, <1>5, <4>1
    <3>2. CASE k >= i
      <4>1. new[k] = f[k + 1] /\ k + 1 \in 1 .. n /\ f[i] < f[k + 1]
        BY <1>4, <1>5, <1>6, <3>2
      <4> QED
        BY <1>4, <1>5, <4>1
    <3> QED
      BY <1>4, <3>1, <3>2
  <2>2. ASSUME NEW k \in 1 .. n, k # i
        PROVE  \E j \in 1 .. n - 1 : new[j] = f[k]
    <3>1. CASE k < i
      BY <1>4, <1>6, <3>1
    <3>2. CASE k > i
      <4>1. k - 1 \in 1 .. n - 1 /\ new[k - 1] = f[k]
        BY <1>4, <1>6, <3>2
      <4> QED
        BY <4>1
    <3> QED
      BY <1>4, <2>2, <3>1, <3>2
  <2> QED
    BY <2>1, <2>2
<1>10. Ascending(new)
  BY <1>7, <1>8 DEF Ascending
<1> QED
  BY <1>1, <1>2, <1>3, <1>6, <1>7, <1>9, <1>10

-----------------------------------------------------------------------------
\* A thread that calls a handler marks it.
LEMMA MarkedOnCall ==
    ASSUME TypeOK, MarksCount, NEW t \in Threads, NEW g \in Handlers,
           pc[t] # "called",
           pc' = [pc EXCEPT ![t] = "called"],
           cur' = [cur EXCEPT ![t] = g],
           unsafe' = [unsafe EXCEPT ![g] = @ + 1]
    PROVE  MarksCount' /\ unsafe' \in [Handlers -> Nat]
<1>1. unsafe \in [Handlers -> Nat] /\ pc \in [Threads -> {"idle", "called",
         "relayed", "returned", "dispatched"}]
      /\ cur \in [Threads -> Handlers \cup {NoHandler}]
  BY DEF TypeOK
<1>2. ASSUME NEW h \in Handlers
      PROVE  unsafe'[h] = Cardinality(Running(h)')
  <2>1. IsFiniteSet(Running(h))
    BY ThreadsAssumption, FS_Subset DEF Running
  <2>2. CASE h = g
    <3>1. Running(h)' = Running(h) \cup {t} /\ t \notin Running(h)
      BY <1>1, <2>2 DEF Running
    <3>2. Cardinality(Running(h)') = Cardinality(Running(h)) + 1
      BY <2>1, <3>1, FS_AddElement
    <3> QED
      BY <1>1, <2>2, <3>2 DEF MarksCount
  <2>3. CASE h # g
    <3>1. Running(h)' = Running(h)
      BY <1>1, <2>3 DEF Running
    <3> QED
      BY <1>1, <2>3, <3>1 DEF MarksCount
  <2> QED
    BY <2>2, <2>3
<1>3. unsafe' \in [Handlers -> Nat]
  BY <1>1
<1> QED
  BY <1>2, <1>3 DEF MarksCount

\* A thread that leaves a handler drops its mark, which was there.
LEMMA UnmarkedOnReturn ==
    ASSUME TypeOK, MarksCount, NEW t \in Threads, cur[t] \in Handlers,
           pc[t] = "called", NEW p, p # "called",
           pc' = [pc EXCEPT ![t] = p],
           cur' = cur,
           unsafe' = [unsafe EXCEPT ![cur[t]] = @ - 1]
    PROVE  MarksCount' /\ unsafe' \in [Handlers -> Nat]
<1>1. unsafe \in [Handlers -> Nat] /\ pc \in [Threads -> {"idle", "called",
         "relayed", "returned", "dispatched"}]
  BY DEF TypeOK
<1>2. \A h \in Handlers : IsFiniteSet(Running(h)) /\ Cardinality(Running(h)) \in Nat
  BY ThreadsAssumption, FS_Subset, FS_CardinalityType DEF Running
<1>3. t \in Running(cur[t])
  BY DEF Running
<1>4. ASSUME NEW h \in Handlers
      PROVE  unsafe'[h] = Cardinality(Running(h)') /\ unsafe'[h] \in Nat
  <2>1. CASE h = cur[t]
    <3>1. Running(h)' = Running(h) \ {t}
      BY <1>1, <2>1 DEF Running
    <3>2. Cardinality(Running(h)') = Cardinality(Running(h)) - 1
      BY <1>2, <1>3, <2>1, <3>1, FS_RemoveElement
    <3>3. Cardinality(Running(h)') \in Nat
      BY <1>2, <3>1, FS_RemoveElement, FS_CardinalityType
    <3> QED
      BY <1>1, <2>1, <3>2, <3>3 DEF MarksCount
  <2>2. CASE h # cur[t]
    <3>1. Running(h)' = Running(h)
      BY <1>1, <2>2 DEF Running
    <3> QED
      BY <1>1, <2>2, <3>1 DEF MarksCount
  <2> QED
    BY <2>1, <2>2
<1> QED
  BY <1>1, <1>4 DEF MarksCount

\* As long as threads keep their handlers the marks count them.
LEMMA MarksStay ==
    ASSUME TypeOK, MarksCount, UNCHANGED <<unsafe, cur>>,
           NEW t \in Threads, NEW p, pc[t] # "called", p # "called",
           pc' = [pc EXCEPT ![t] = p] \/ pc' = pc
    PROVE  MarksCount'
<1>1. \A h \in Handlers : Running(h)' = Running(h)
  BY DEF Running, TypeOK
<1> QED
  BY <1>1 DEF MarksCount

\* Nobody runs a handler whose mark is zero.
LEMMA NobodyRuns ==
    ASSUME TypeOK, MarksCount, NEW h \in Handlers, unsafe[h] = 0,
           NEW t \in Threads, pc[t] = "called"
    PROVE  cur[t] # h
<1>1. IsFiniteSet(Running(h)) /\ Cardinality(Running(h)) = 0
  BY ThreadsAssumption, FS_Subset DEF Running, MarksCount
<1>2. Running(h) = {}
  BY <1>1, FS_EmptySet
<1> QED
  BY <1>2 DEF Running

\* The handlers from the place where the search goes on sort after the last
\* one that was called, or after one in the list that is taken for it.
LEMMA NextPlaceAfter ==
    ASSUME DInv, NEW t \in Threads, pc[t] = "returned",
           NEW i \in 1 .. Len(handlers) + 1, IsNextPlace(t, i),
           NEW k \in DOMAIN handlers, k >= i
    PROVE  \/ cur[t] < handlers[k]
           \/ \E g \in Listed :
                Address[g] = Address[cur[t]] /\ g < cur[t] /\ g < handlers[k]
<1>1. /\ cur[t] \in Nat
      /\ seen[t] = changes => at[t] \in DOMAIN handlers /\ handlers[at[t]] = cur[t]
  BY HandlersAssumption DEF DInv, PlacesFit, Busy
<1>2. /\ \A m \in DOMAIN handlers : m \in Nat /\ handlers[m] \in Nat
      /\ \A m, n \in DOMAIN handlers : m < n => handlers[m] < handlers[n]
  <2>1. /\ handlers \in Seq(Handlers)
        /\ DOMAIN handlers = 1 .. Len(handlers) /\ Len(handlers) \in Nat
    BY LenProperties DEF DInv, TypeOK
  <2>2. \A m \in 1 .. Len(handlers) : handlers[m] \in Handlers
    BY <2>1, ElementOfSeq
  <2>3. \A m \in Handlers : m \in Nat
    BY HandlersAssumption
  <2>4. \A m, n \in DOMAIN handlers : m < n => handlers[m] < handlers[n]
    BY DEF DInv, ListSorted, Ascending
  <2> QED
    BY <2>1, <2>2, <2>3, <2>4
<1>3. CASE seen[t] = changes
  <2>1. /\ at[t] \in DOMAIN handlers /\ handlers[at[t]] = cur[t]
        /\ at[t] < k
    BY <1>1, <1>2, <1>3 DEF IsNextPlace
  <2> QED
    BY <1>2, <2>1
<1>4. CASE seen[t] # changes
  <2>1. IsAfterRescan(i, cur[t])
    BY <1>4 DEF IsNextPlace
  <2>2. CASE Stops(cur[t]) = {}
    <3>1. i = Len(handlers) + 1
      BY <2>1, <2>2 DEF IsAfterRescan
    <3>2. k <= Len(handlers)
      BY LenProperties DEF DInv, TypeOK
    <3> QED
      BY <1>2, <3>1, <3>2, LenProperties DEF DInv, TypeOK
  <2>3. CASE Stops(cur[t]) # {}
    <3>1. PICK n \in Stops(cur[t]) :
            /\ \A j \in Stops(cur[t]) : n <= j
            /\ i = IF Address[handlers[n]] = Address[cur[t]] \/ n = 1
                   THEN n + 1 ELSE n
      BY <2>1, <2>3 DEF IsAfterRescan
    <3>2. n \in DOMAIN handlers
      BY <3>1 DEF Stops
    <3>3. CASE handlers[n] > cur[t]
      <4>1. n = k \/ n < k
        BY <1>2, <3>1, <3>2
      <4>2. handlers[n] <= handlers[k]
        BY <1>2, <3>2, <4>1
      <4> QED
        BY <1>1, <1>2, <3>2, <3>3, <4>2
    <3>4. CASE ~(handlers[n] > cur[t])
      <4>1. Address[handlers[n]] = Address[cur[t]]
        BY <3>1, <3>4 DEF Stops
      <4>2. n < k
        BY <1>2, <3>1, <3>2, <4>1
      <4>3. handlers[n] < handlers[k]
        BY <1>2, <3>2, <4>2
      <4>4. handlers[n] \in Listed
        BY <3>2 DEF Listed
      <4>5. CASE handlers[n] = cur[t]
        BY <4>3, <4>5
      <4>6. CASE handlers[n] < cur[t]
        BY <4>1, <4>3, <4>4, <4>6
      <4> QED
        BY <1>1, <1>2, <3>2, <3>4, <4>5, <4>6
    <3> QED
      BY <3>3, <3>4
  <2> QED
    BY <2>2, <2>3
<1> QED
  BY <1>3, <1>4

\* What the search for the next handler keeps.
Calls ==
    /\ ListSorted /\ MarksCount /\ PlacesFit
    /\ NeverRunsUninstalled /\ AddressesDiffer /\ StayedFit
    /\ unsafe \in [Handlers -> Nat]
    /\ pc \in [Threads -> {"idle", "called", "relayed", "returned", "dispatched"}]
    /\ at \in [Threads -> Nat]
    /\ cur \in [Threads -> Handlers \cup {NoHandler}]
    /\ seen \in [Threads -> Nat]
    /\ called \in [Threads -> Seq(Handlers)]

\* Going to the next matching handler and running it keeps the invariant.
LEMMA AdvanceKeeps ==
    ASSUME DInv, NEW t \in Threads, NEW m, NEW from,
           pc[t] = "idle" \/ pc[t] = "returned",
           Advance(t, from, m), UNCHANGED <<handlers, changes, owner>>,
           \A u \in Threads : stayed'[u] \subseteq Listed,
           \A u \in Threads : u # t => stayed'[u] = stayed[u]
    PROVE  Calls'
<1>1. /\ handlers \in Seq(Handlers)
      /\ unsafe \in [Handlers -> Nat]
      /\ pc \in [Threads -> {"idle", "called", "relayed", "returned", "dispatched"}]
      /\ at \in [Threads -> Nat]
      /\ cur \in [Threads -> Handlers \cup {NoHandler}]
      /\ seen \in [Threads -> Nat] /\ changes \in Nat
      /\ called \in [Threads -> Seq(Handlers)]
  BY MaxChangesAssumption DEF DInv, TypeOK
<1>2. ListSorted'
  BY DEF DInv, ListSorted, Listed
<1>5. AddressesDiffer'
  BY DEF DInv, AddressesDiffer
<1>3. CASE Matching(from, m) = {} /\ pc' = [pc EXCEPT ![t] = "dispatched"]
           /\ UNCHANGED <<at, cur, seen, called, unsafe>>
  <2>1. MarksCount'
    BY <1>3, MarksStay DEF DInv
  <2>2. PlacesFit'
    BY <1>1, <1>3 DEF DInv, PlacesFit, Busy
  <2>3. NeverRunsUninstalled'
    BY <1>1, <1>3 DEF DInv, NeverRunsUninstalled
  <2>4. StayedFit'
    <3>1. /\ \A u \in Threads : u # t => pc'[u] = pc[u]
          /\ pc'[t] \notin Busy /\ cur' = cur
      BY <1>1, <1>3 DEF Busy
    <3>2. Listed' = Listed /\ Busy' = Busy
      BY DEF Listed, Busy
    <3> QED
      BY <3>1, <3>2 DEF DInv, StayedFit
  <2> QED
    BY <1>1, <1>2, <1>3, <1>5, <2>1, <2>2, <2>3, <2>4 DEF Calls
<1>4. ASSUME NEW i \in Matching(from, m), Call(t, i)
      PROVE  Calls'
  <2>1. i \in DOMAIN handlers /\ i >= from /\ i \in Nat
    BY <1>1, LenProperties DEF Matching
  <2>2. PICK g \in Handlers : g = handlers[i]
    BY <1>1, <2>1, ElementOfSeq, LenProperties
  <2>3. /\ pc' = [pc EXCEPT ![t] = "called"]
        /\ at' = [at EXCEPT ![t] = i]
        /\ cur' = [cur EXCEPT ![t] = g]
        /\ seen' = [seen EXCEPT ![t] = changes]
        /\ called' = [called EXCEPT ![t] = Append(called[t], g)]
        /\ unsafe' = [unsafe EXCEPT ![g] = @ + 1]
    BY <1>4, <2>2 DEF Call
  <2>4. PICK old \in Seq(Handlers) : old = called[t]
    BY <1>1
  <2>5. PICK new : new = Append(old, g)
    OBVIOUS
  <2>6. /\ new \in Seq(Handlers) /\ new # <<>> /\ Len(new) = Len(old) + 1
        /\ \A k \in 1 .. Len(old) : new[k] = old[k]
        /\ new[Len(old) + 1] = g
    BY <2>5, AppendProperties
  <2>7. called' = [called EXCEPT ![t] = new]
    BY <2>3, <2>4, <2>5
  <2>8. MarksCount' /\ unsafe' \in [Handlers -> Nat]
    BY <2>3, MarkedOnCall DEF DInv
  <2>9. PlacesFit'
    <3> SUFFICES ASSUME NEW u \in Threads
                 PROVE  /\ seen'[u] <= changes'
                        /\ pc'[u] = "idle" => called'[u] = <<>>
                        /\ pc'[u] \in Busy =>
                             /\ cur'[u] \in Handlers
                             /\ called'[u] # <<>>
                             /\ called'[u][Len(called'[u])] = cur'[u]
                             /\ seen'[u] = changes' =>
                                  /\ at'[u] \in DOMAIN handlers'
                                  /\ handlers'[at'[u]] = cur'[u]
      BY DEF PlacesFit, Busy
    <3>1. CASE u = t
      <4>1. pc'[t] = "called" /\ at'[t] = i /\ cur'[t] = g
        BY <1>1, <2>3
      <4>2. seen'[t] = changes /\ called'[t] = new
        BY <1>1, <2>3, <2>7
      <4> QED
        BY <1>1, <2>1, <2>2, <2>6, <3>1, <4>1, <4>2
    <3>2. CASE u # t
      BY <1>1, <2>3, <3>2 DEF DInv, PlacesFit
    <3> QED
      BY <3>1, <3>2
  <2>10. NeverRunsUninstalled'
    <3>1. owner[g] # "out"
      BY <2>1, <2>2 DEF DInv, ListSorted, Listed
    <3> QED
      BY <1>1, <2>3, <3>1 DEF DInv, NeverRunsUninstalled
  <2>11. StayedFit'
    <3> SUFFICES ASSUME NEW u \in Threads, NEW x \in stayed'[u],
                        pc'[u] \in Busy, Address[x] = Address[cur'[u]]
                 PROVE  x = cur'[u]
      BY DEF StayedFit, Listed, Busy
    <3>1. CASE u = t
      <4>1. cur'[u] = g
        BY <1>1, <2>3, <3>1
      <4>2. g \in Listed /\ x \in Listed
        BY <2>1, <2>2 DEF Listed
      <4>3. x \in Handlers
        BY <1>1, <4>2, ElementOfSeq, LenProperties DEF Listed
      <4>4. owner[g] = "in" /\ owner[x] = "in"
        BY <4>2, <4>3 DEF DInv, ListSorted
      <4> QED
        BY <4>1, <4>3, <4>4 DEF DInv, AddressesDiffer
    <3>2. CASE u # t
      BY <1>1, <2>3, <3>2 DEF DInv, StayedFit
    <3> QED
      BY <3>1, <3>2
  <2>12. /\ pc' \in [Threads -> {"idle", "called", "relayed", "returned", "dispatched"}]
         /\ at' \in [Threads -> Nat]
    BY <1>1, <2>1, <2>3
  <2>13. /\ cur' \in [Threads -> Handlers \cup {NoHandler}]
         /\ seen' \in [Threads -> Nat]
    BY <1>1, <2>3
  <2>14. called' \in [Threads -> Seq(Handlers)]
    BY <1>1, <2>6, <2>7
  <2> QED
    BY <1>2, <1>5, <2>8, <2>9, <2>10, <2>11, <2>12, <2>13, <2>14 DEF Calls
<1> QED
  BY <1>3, <1>4 DEF Advance

\* Once the list changed no place a thread remembers counts any more.
LEMMA PlacesAfterChange ==
    ASSUME DInv, changes' = changes + 1,
           UNCHANGED <<pc, at, cur, seen, called>>
    PROVE  PlacesFit'
<1>1. changes \in Nat /\ seen \in [Threads -> Nat]
  BY MaxChangesAssumption DEF DInv, TypeOK
<1>2. \A t \in Threads : seen[t] <= changes /\ seen[t] # changes + 1
  BY <1>1 DEF DInv, PlacesFit
<1> QED
  BY <1>1, <1>2 DEF DInv, PlacesFit, Busy

\* So does a handler put in at its place.
LEMMA InstallKeeps ==
    ASSUME DInv, NEW h \in Handlers, Install(h)
    PROVE  DInv'
<1>1. PICK i \in 1 .. Len(handlers) + 1 :
        IsPlace(i, h) /\ handlers' = InsertAt(handlers, i, h)
  BY DEF Install
<1>2. /\ handlers \in Seq(Handlers) /\ Ascending(handlers)
      /\ owner \in [Handlers -> {"out", "in", "leaving"}]
      /\ changes \in 0 .. MaxChanges
  BY DEF DInv, TypeOK, ListSorted
<1>3. /\ \A g \in Handlers : Address[g] = Address[h] => owner[g] = "out"
      /\ changes < MaxChanges /\ changes' = changes + 1
      /\ owner' = [owner EXCEPT ![h] = "in"]
      /\ UNCHANGED <<unsafe, pc, msg, at, cur, seen, retv, called, stayed>>
  BY DEF Install, threadVars
<1>4. /\ handlers' \in Seq(Handlers) /\ Ascending(handlers')
      /\ \A x : (\E k \in DOMAIN handlers' : handlers'[k] = x)
                   <=> x = h \/ \E k \in DOMAIN handlers : handlers[k] = x
  <2>1. /\ \A j \in 1 .. i - 1 : handlers[j] < h
        /\ i \in DOMAIN handlers => handlers[i] > h
    BY <1>1 DEF IsPlace
  <2>2. /\ InsertAt(handlers, i, h) \in Seq(Handlers)
        /\ Ascending(InsertAt(handlers, i, h))
        /\ \A x :
             (\E k \in DOMAIN InsertAt(handlers, i, h) :
                 InsertAt(handlers, i, h)[k] = x)
                <=> x = h \/ \E k \in DOMAIN handlers : handlers[k] = x
    BY <1>2, <2>1, InsertAscending
  <2> QED
    BY <1>1, <2>2
<1>5. TypeOK'
  <2>1. changes' \in 0 .. MaxChanges
    BY <1>2, <1>3, MaxChangesAssumption
  <2>2. owner' \in [Handlers -> {"out", "in", "leaving"}]
    BY <1>2, <1>3
  <2> QED
    BY <1>3, <1>4, <2>1, <2>2 DEF DInv, TypeOK
<1>6. ListSorted'
  <2>1. \A x : x \in Listed <=> \E k \in DOMAIN handlers : handlers[k] = x
    BY DEF Listed
  <2>2. \A x : x \in Listed' <=> \E k \in DOMAIN handlers' : handlers'[k] = x
    BY DEF Listed
  <2>3. \A x \in Handlers : x \in Listed <=> owner[x] = "in"
    BY DEF DInv, ListSorted
  <2>4. \A x \in Handlers : x \in Listed' <=> x = h \/ x \in Listed
    BY <1>4, <2>1, <2>2
  <2>5. \A x \in Handlers : owner'[x] = "in" <=> x = h \/ owner[x] = "in"
    BY <1>2, <1>3
  <2> QED
    BY <1>4, <2>3, <2>4, <2>5 DEF ListSorted
<1>7. MarksCount'
  BY <1>3 DEF DInv, MarksCount, Running
<1>8. NeverRunsUninstalled'
  BY <1>2, <1>3 DEF DInv, NeverRunsUninstalled
<1>9. AddressesDiffer'
  BY <1>2, <1>3 DEF DInv, AddressesDiffer
<1>10. StayedFit'
  <2>1. Listed \subseteq Listed'
    BY <1>4 DEF Listed
  <2> QED
    BY <1>3, <2>1 DEF DInv, StayedFit
<1> QED
  BY <1>3, <1>5, <1>6, <1>7, <1>8, <1>9, <1>10, PlacesAfterChange DEF DInv

\* So does a handler taken from the list; its owner waits if it is marked.
LEMMA UninstallKeeps ==
    ASSUME DInv, NEW h \in Handlers, Uninstall(h)
    PROVE  DInv'
<1>1. PICK i \in DOMAIN handlers :
        handlers[i] = h /\ handlers' = RemoveAt(handlers, i)
  BY DEF Uninstall
<1>2. /\ handlers \in Seq(Handlers) /\ Ascending(handlers)
      /\ owner \in [Handlers -> {"out", "in", "leaving"}]
      /\ unsafe \in [Handlers -> Nat]
      /\ changes \in 0 .. MaxChanges
  BY DEF DInv, TypeOK, ListSorted
<1>3. /\ owner[h] = "in" /\ changes < MaxChanges /\ changes' = changes + 1
      /\ owner' = [owner EXCEPT ![h] = IF unsafe[h] > 0 THEN "leaving" ELSE "out"]
      /\ UNCHANGED <<unsafe, pc, msg, at, cur, seen, retv, called>>
      /\ stayed' = [t \in Threads |-> stayed[t] \ {h}]
  BY DEF Uninstall, threadVars
<1>4. /\ handlers' \in Seq(Handlers) /\ Ascending(handlers')
      /\ \A x : (\E k \in DOMAIN handlers' : handlers'[k] = x)
                   <=> x # h /\ \E k \in DOMAIN handlers : handlers[k] = x
  <2>1. /\ RemoveAt(handlers, i) \in Seq(Handlers)
        /\ Ascending(RemoveAt(handlers, i))
        /\ \A x :
             (\E k \in DOMAIN RemoveAt(handlers, i) :
                 RemoveAt(handlers, i)[k] = x)
                <=> x # handlers[i] /\ \E k \in DOMAIN handlers : handlers[k] = x
    BY <1>2, RemoveAscending
  <2> QED
    BY <1>1, <2>1
<1>5. TypeOK'
  <2>1. changes' \in 0 .. MaxChanges
    BY <1>2, <1>3, MaxChangesAssumption
  <2>2. owner' \in [Handlers -> {"out", "in", "leaving"}]
    BY <1>2, <1>3
  <2>3. stayed' \in [Threads -> SUBSET Handlers]
    BY <1>3 DEF DInv, TypeOK
  <2> QED
    BY <1>3, <1>4, <2>1, <2>2, <2>3 DEF DInv, TypeOK
<1>6. ListSorted'
  <2>1. \A x : x \in Listed <=> \E k \in DOMAIN handlers : handlers[k] = x
    BY DEF Listed
  <2>2. \A x : x \in Listed' <=> \E k \in DOMAIN handlers' : handlers'[k] = x
    BY DEF Listed
  <2>3. \A x \in Handlers : x \in Listed <=> owner[x] = "in"
    BY DEF DInv, ListSorted
  <2>4. \A x \in Handlers : x \in Listed' <=> x # h /\ x \in Listed
    BY <1>4, <2>1, <2>2
  <2>5. \A x \in Handlers : owner'[x] = "in" <=> x # h /\ owner[x] = "in"
    BY <1>2, <1>3
  <2> QED
    BY <1>4, <2>3, <2>4, <2>5 DEF ListSorted
<1>7. MarksCount'
  BY <1>3 DEF DInv, MarksCount, Running
<1>8. NeverRunsUninstalled'
  <2> SUFFICES ASSUME NEW t \in Threads, pc[t] = "called"
               PROVE  owner'[cur[t]] # "out"
    BY <1>3 DEF NeverRunsUninstalled
  <2>1. cur[t] \in Handlers /\ owner[cur[t]] # "out"
    BY DEF DInv, PlacesFit, Busy, NeverRunsUninstalled
  <2>2. CASE cur[t] = h
    <3>1. unsafe[h] # 0
      BY <2>2, NobodyRuns DEF DInv
    <3>2. unsafe[h] > 0
      BY <1>2, <3>1
    <3> QED
      BY <1>2, <1>3, <2>2, <3>2
  <2>3. CASE cur[t] # h
    BY <1>2, <1>3, <2>1, <2>3
  <2> QED
    BY <2>2, <2>3
<1>9. AddressesDiffer'
  BY <1>2, <1>3 DEF DInv, AddressesDiffer
<1>10. StayedFit'
  <2>1. Listed \ {h} \subseteq Listed'
    BY <1>4 DEF Listed
  <2>2. \A t \in Threads : stayed'[t] = stayed[t] \ {h}
    BY <1>3
  <2> QED
    BY <1>3, <2>1, <2>2 DEF DInv, StayedFit
<1> QED
  BY <1>3, <1>5, <1>6, <1>7, <1>8, <1>9, <1>10, PlacesAfterChange DEF DInv

\* An owner that has waited leaves a handler that nobody runs.
LEMMA UninstalledKeeps ==
    ASSUME DInv, NEW h \in Handlers, Uninstalled(h)
    PROVE  DInv'
<1>1. /\ owner[h] = "leaving" /\ unsafe[h] = 0
      /\ owner' = [owner EXCEPT ![h] = "out"]
      /\ UNCHANGED <<handlers, changes, unsafe, pc, msg, at, cur, seen, retv,
                     called, stayed>>
  BY DEF Uninstalled, threadVars
<1>2. owner \in [Handlers -> {"out", "in", "leaving"}]
  BY DEF DInv, TypeOK
<1>3. TypeOK'
  BY <1>1, <1>2 DEF DInv, TypeOK
<1>4. ListSorted'
  BY <1>1, <1>2 DEF DInv, ListSorted, Listed
<1>5. MarksCount' /\ PlacesFit' /\ AddressesDiffer' /\ StayedFit'
  <2>1. MarksCount' /\ PlacesFit'
    BY <1>1 DEF DInv, MarksCount, Running, PlacesFit
  <2>2. AddressesDiffer'
    BY <1>1, <1>2 DEF DInv, AddressesDiffer
  <2>3. StayedFit'
    BY <1>1 DEF DInv, StayedFit, Listed
  <2> QED
    BY <2>1, <2>2, <2>3
<1>6. NeverRunsUninstalled'
  <2> SUFFICES ASSUME NEW t \in Threads, pc[t] = "called"
               PROVE  owner'[cur[t]] # "out"
    BY <1>1 DEF NeverRunsUninstalled
  <2>1. owner[cur[t]] # "out" /\ cur[t] # h
    BY <1>1, NobodyRuns DEF DInv, NeverRunsUninstalled
  <2> QED
    BY <1>1, <1>2, <2>1
<1> QED
  BY <1>3, <1>4, <1>5, <1>6 DEF DInv

\* A dispatch begins at the head of the list.
LEMMA DispatchKeeps ==
    ASSUME DInv, NEW t \in Threads, Dispatch(t)
    PROVE  DInv'
<1>1. pc[t] = "idle" /\ UNCHANGED <<handlers, changes, owner, retv>>
  BY DEF Dispatch
<1>2. PICK m \in Messages :
        /\ msg' = [msg EXCEPT ![t] = m]
        /\ stayed' = [stayed EXCEPT ![t] = Listed]
        /\ Advance(t, 1, m)
  BY DEF Dispatch
<1>3. \A u \in Threads :
        stayed'[u] \subseteq Listed /\ (u # t => stayed'[u] = stayed[u])
  BY <1>2 DEF DInv, TypeOK, StayedFit
<1>4. Calls'
  BY <1>1, <1>2, <1>3, AdvanceKeeps
<1>5. msg' \in [Threads -> Messages \cup {NoMessage}]
      /\ stayed' \in [Threads -> SUBSET Handlers]
  <2>1. Listed \subseteq Handlers
    BY ElementOfSeq, LenProperties DEF DInv, TypeOK, Listed
  <2> QED
    BY <1>2, <2>1 DEF DInv, TypeOK
<1>6. TypeOK'
  BY <1>1, <1>4, <1>5 DEF DInv, TypeOK, Calls
<1> QED
  BY <1>4, <1>6 DEF DInv, Calls

\* It goes on behind the handler it called last.
LEMMA GoOnKeeps ==
    ASSUME DInv, NEW t \in Threads, GoOn(t)
    PROVE  DInv'
<1>1. pc[t] = "returned" /\ UNCHANGED <<handlers, changes, owner, msg, retv, stayed>>
  BY DEF GoOn
<1>2. PICK from \in 1 .. Len(handlers) + 1 :
        IsNextPlace(t, from) /\ Advance(t, from, msg[t])
  BY DEF GoOn
<1>3. \A u \in Threads : stayed'[u] \subseteq Listed /\ stayed'[u] = stayed[u]
  BY <1>1 DEF DInv, StayedFit
<1>4. Calls'
  BY <1>1, <1>2, <1>3, AdvanceKeeps
<1>5. TypeOK'
  BY <1>1, <1>4 DEF DInv, TypeOK, Calls
<1> QED
  BY <1>4, <1>5 DEF DInv, Calls

\* Leaving a handler: received returned, or the relay dropped its mark.
LEMMA UnmarkKeeps ==
    ASSUME DInv, NEW t \in Threads, pc[t] = "called",
           NEW p \in {"relayed", "returned"},
           pc' = [pc EXCEPT ![t] = p],
           unsafe' = [unsafe EXCEPT ![cur[t]] = @ - 1],
           retv' \in [Threads -> BOOLEAN],
           UNCHANGED <<handlers, changes, owner, msg, at, cur, seen, called,
                       stayed>>
    PROVE  DInv'
<1>1. cur[t] \in Handlers
  BY DEF DInv, PlacesFit, Busy
<1>2. MarksCount' /\ unsafe' \in [Handlers -> Nat]
  BY <1>1, UnmarkedOnReturn DEF DInv
<1>3. TypeOK'
  BY <1>2 DEF DInv, TypeOK
<1>4. ListSorted' /\ AddressesDiffer'
  BY DEF DInv, ListSorted, Listed, AddressesDiffer
<1>7. StayedFit'
  BY DEF DInv, TypeOK, StayedFit, Listed, Busy
<1>5. PlacesFit'
  BY DEF DInv, TypeOK, PlacesFit, Busy
<1>6. NeverRunsUninstalled'
  BY DEF DInv, TypeOK, NeverRunsUninstalled
<1> QED
  BY <1>2, <1>3, <1>4, <1>5, <1>6, <1>7 DEF DInv

\* A plain handler is unmarked when its call has returned.
LEMMA ReceivedKeeps ==
    ASSUME DInv, NEW t \in Threads, Received(t)
    PROVE  DInv'
<1>1. retv' \in [Threads -> BOOLEAN]
  BY DEF Received, DInv, TypeOK
<1> QED
  BY <1>1, UnmarkKeeps DEF Received

\* A relay is unmarked before its receiver runs.
LEMMA SafeNowKeeps ==
    ASSUME DInv, NEW t \in Threads, SafeNow(t)
    PROVE  DInv'
<1>1. retv' \in [Threads -> BOOLEAN]
  BY DEF SafeNow, DInv, TypeOK
<1> QED
  BY <1>1, UnmarkKeeps DEF SafeNow

\* The receiver of a relay returns without a look at the list.
LEMMA RelayedKeeps ==
    ASSUME DInv, NEW t \in Threads, Relayed(t)
    PROVE  DInv'
<1>1. /\ pc[t] = "relayed" /\ pc' = [pc EXCEPT ![t] = "returned"]
      /\ UNCHANGED <<handlers, changes, unsafe, owner, msg, at, cur, seen,
                     called, stayed>>
  BY DEF Relayed
<1>2. TypeOK'
  BY <1>1 DEF Relayed, DInv, TypeOK
<1>3. MarksCount'
  BY <1>1, MarksStay DEF DInv
<1>4. ListSorted' /\ AddressesDiffer'
  BY <1>1 DEF DInv, ListSorted, Listed, AddressesDiffer
<1>5. PlacesFit' /\ NeverRunsUninstalled'
  BY <1>1 DEF DInv, TypeOK, PlacesFit, Busy, NeverRunsUninstalled
<1>6. StayedFit'
  BY <1>1 DEF DInv, TypeOK, StayedFit, Listed, Busy
<1> QED
  BY <1>2, <1>3, <1>4, <1>5, <1>6 DEF DInv

\* A handler that takes the message ends the walk.
LEMMA StopKeeps ==
    ASSUME DInv, NEW t \in Threads, Stop(t)
    PROVE  DInv'
<1>1. /\ pc[t] = "returned" /\ pc' = [pc EXCEPT ![t] = "dispatched"]
      /\ UNCHANGED <<handlers, changes, unsafe, owner, msg, at, cur, seen, retv,
                     called, stayed>>
  BY DEF Stop
<1>2. TypeOK'
  BY <1>1 DEF DInv, TypeOK
<1>3. MarksCount'
  BY <1>1, MarksStay DEF DInv
<1>4. ListSorted' /\ AddressesDiffer'
  BY <1>1 DEF DInv, ListSorted, Listed, AddressesDiffer
<1>5. PlacesFit' /\ NeverRunsUninstalled'
  BY <1>1 DEF DInv, TypeOK, PlacesFit, Busy, NeverRunsUninstalled
<1>6. StayedFit'
  BY <1>1 DEF DInv, TypeOK, StayedFit, Listed, Busy
<1> QED
  BY <1>2, <1>3, <1>4, <1>5, <1>6 DEF DInv

\* The end of a dispatch forgets what it called.
LEMMA ReturnKeeps ==
    ASSUME DInv, NEW t \in Threads, Return(t)
    PROVE  DInv'
<1>1. /\ pc[t] = "dispatched" /\ pc' = [pc EXCEPT ![t] = "idle"]
      /\ called' = [called EXCEPT ![t] = <<>>]
      /\ cur' = [cur EXCEPT ![t] = NoHandler]
      /\ at' = [at EXCEPT ![t] = 0] /\ seen' = [seen EXCEPT ![t] = 0]
      /\ retv' = [retv EXCEPT ![t] = FALSE]
      /\ stayed' = [stayed EXCEPT ![t] = {}]
      /\ msg' = [msg EXCEPT ![t] = NoMessage]
      /\ UNCHANGED <<handlers, changes, unsafe, owner>>
  BY DEF Return
<1>2. changes \in Nat
  BY MaxChangesAssumption DEF DInv, TypeOK
<1>3. TypeOK'
  <2>1. <<>> \in Seq(Handlers)
    BY EmptySeq
  <2> QED
    BY <1>1, <2>1 DEF DInv, TypeOK
<1>4. MarksCount'
  <2>1. \A h \in Handlers : Running(h)' = Running(h)
    BY <1>1 DEF DInv, TypeOK, Running
  <2> QED
    BY <1>1, <2>1 DEF DInv, MarksCount
<1>5. ListSorted'
  BY <1>1 DEF DInv, ListSorted, Listed
<1>6. PlacesFit'
  BY <1>1, <1>2 DEF DInv, TypeOK, PlacesFit, Busy
<1>7. NeverRunsUninstalled'
  BY <1>1 DEF DInv, TypeOK, NeverRunsUninstalled
<1>8. AddressesDiffer'
  BY <1>1 DEF DInv, AddressesDiffer
<1>9. StayedFit'
  BY <1>1 DEF DInv, TypeOK, StayedFit, Listed, Busy
<1> QED
  BY <1>3, <1>4, <1>5, <1>6, <1>7, <1>8, <1>9 DEF DInv

\* The invariant holds in the beginning.
LEMMA InitEstablishes ==
    ASSUME Init
    PROVE  DInv
<1>1. /\ handlers = Initial /\ changes = 0
      /\ unsafe = [h \in Handlers |-> 0]
      /\ owner = [h \in Handlers |-> IF h \in Listed THEN "in" ELSE "out"]
      /\ pc = [t \in Threads |-> "idle"]
      /\ seen = [t \in Threads |-> 0]
      /\ called = [t \in Threads |-> <<>>]
  BY DEF Init
<1>2. TypeOK
  <2>1. <<>> \in Seq(Handlers)
    BY EmptySeq
  <2> QED
    BY <1>1, <2>1, InitialAssumption, MaxChangesAssumption DEF Init, TypeOK
<1>3. ListSorted
  BY <1>1, InitialAssumption DEF ListSorted
<1>4. MarksCount
  <2>1. \A h \in Handlers : Running(h) = {}
    BY <1>1 DEF Running
  <2> QED
    BY <1>1, <2>1, FS_EmptySet DEF MarksCount
<1>5. PlacesFit /\ NeverRunsUninstalled
  BY <1>1 DEF PlacesFit, Busy, NeverRunsUninstalled
<1>6. AddressesDiffer
  <2>1. \A h \in Handlers :
          owner[h] # "out" => \E i \in DOMAIN Initial : Initial[i] = h
    BY <1>1 DEF Listed
  <2> QED
    BY <2>1, InitialAssumption DEF AddressesDiffer
<1>7. StayedFit
  BY <1>1 DEF Init, StayedFit, Busy
<1> QED
  BY <1>2, <1>3, <1>4, <1>5, <1>6, <1>7 DEF DInv

\* Every step keeps it.
LEMMA StepKeeps ==
    ASSUME DInv, [Next]_vars
    PROVE  DInv'
<1>1. CASE \E h \in Handlers : Owner(h)
  BY <1>1, InstallKeeps, UninstallKeeps, UninstalledKeeps DEF Owner
<1>2. CASE \E t \in Threads : Thread(t)
  BY <1>2, DispatchKeeps, ReceivedKeeps, SafeNowKeeps, RelayedKeeps, GoOnKeeps,
     StopKeeps, ReturnKeeps DEF Thread
<1>3. CASE UNCHANGED vars
  <2>1. UNCHANGED <<handlers, changes, unsafe, owner, pc, msg, at, cur, seen,
                    retv, called, stayed>>
    BY <1>3 DEF vars
  <2>2. TypeOK'
    BY <2>1 DEF DInv, TypeOK
  <2>3. ListSorted'
    BY <2>1 DEF DInv, ListSorted, Listed
  <2>4. MarksCount'
    BY <2>1 DEF DInv, MarksCount, Running
  <2>5. PlacesFit' /\ NeverRunsUninstalled' /\ AddressesDiffer'
    BY <2>1 DEF DInv, PlacesFit, NeverRunsUninstalled, AddressesDiffer
  <2>6. StayedFit'
    BY <2>1 DEF DInv, StayedFit, Listed
  <2> QED
    BY <2>2, <2>3, <2>4, <2>5, <2>6 DEF DInv
<1> QED
  BY <1>1, <1>2, <1>3 DEF Next

-----------------------------------------------------------------------------
\* A call that a dispatch goes on to is the one of a handler behind the last
\* one, or behind a new one at its address.
LEMMA GoOnResumes ==
    ASSUME DInv, NEW t \in Threads, GoOn(t), pc'[t] = "called"
    PROVE  \/ cur[t] < cur'[t]
           \/ \E g \in Listed \ stayed[t] :
                Address[g] = Address[cur[t]] /\ g < cur[t] /\ g < cur'[t]
<1>1. pc[t] = "returned" /\ cur[t] \in Nat
  BY HandlersAssumption DEF GoOn, DInv, PlacesFit, Busy
<1>2. PICK from \in 1 .. Len(handlers) + 1 :
        IsNextPlace(t, from) /\ Advance(t, from, msg[t])
  BY DEF GoOn
<1>3. PICK i \in Matching(from, msg[t]) : Call(t, i)
  BY <1>1, <1>2 DEF Advance, DInv, TypeOK
<1>4. cur'[t] = handlers[i] /\ i \in DOMAIN handlers /\ i >= from
  BY <1>3 DEF Call, Matching, DInv, TypeOK
<1>5. ASSUME NEW g \in Listed,
             Address[g] = Address[cur[t]], g < cur[t], g < handlers[i]
      PROVE  g \notin stayed[t]
  <2>1. g # cur[t]
    BY <1>1, <1>5
  <2> QED
    BY <1>1, <1>5, <2>1 DEF DInv, StayedFit, Busy
<1>6. \/ cur[t] < handlers[i]
      \/ \E g \in Listed :
           Address[g] = Address[cur[t]] /\ g < cur[t] /\ g < handlers[i]
  BY <1>1, <1>2, <1>4, NextPlaceAfter
<1> QED
  BY <1>4, <1>5, <1>6

\* So is every call of a thread that had called another handler.
LEMMA StepResumes ==
    ASSUME DInv, [Next]_vars
    PROVE  [\A t \in Threads :
               pc[t] = "returned" /\ pc'[t] = "called" =>
                  \/ cur[t] < cur'[t]
                  \/ \E g \in Listed \ stayed[t] :
                       Address[g] = Address[cur[t]] /\ g < cur'[t]]_vars
<1> SUFFICES ASSUME NEW t \in Threads, pc[t] = "returned", pc'[t] = "called"
             PROVE  \/ cur[t] < cur'[t]
                    \/ \E g \in Listed \ stayed[t] :
                         Address[g] = Address[cur[t]] /\ g < cur'[t]
  OBVIOUS
<1>1. pc \in [Threads -> {"idle", "called", "relayed", "returned", "dispatched"}]
  BY DEF DInv, TypeOK
<1>2. CASE UNCHANGED vars
  BY <1>2 DEF vars
<1>3. CASE \E h \in Handlers : Owner(h)
  BY <1>3 DEF Owner, Install, Uninstall, Uninstalled, threadVars
<1>4. ASSUME NEW u \in Threads, Thread(u)
      PROVE  u = t /\ GoOn(t)
  <2>1. ASSUME NEW from, NEW m, Advance(u, from, m), u # t
        PROVE  pc'[t] = pc[t]
    BY <1>1, <2>1 DEF Advance, Call
  <2>2. ~Dispatch(u)
    BY <1>1, <2>1 DEF Dispatch
  <2>3. GoOn(u) => u = t
    BY <1>1, <2>1 DEF GoOn
  <2>4. ~(Received(u) \/ SafeNow(u) \/ Relayed(u) \/ Stop(u) \/ Return(u))
    BY <1>1 DEF Received, SafeNow, Relayed, Stop, Return
  <2> QED
    BY <1>4, <2>2, <2>3, <2>4 DEF Thread
<1>5. CASE \E u \in Threads : Thread(u)
  BY <1>4, <1>5, GoOnResumes
<1> QED
  BY <1>2, <1>3, <1>5 DEF Next

\* A call appends its handler to those that were called.
LEMMA Appended ==
    ASSUME NEW old \in Seq(Handlers), Ascending(old), NEW g \in Handlers,
           \A k \in DOMAIN old : old[k] < g
    PROVE  Ascending(Append(old, g))
<1>1. PICK new : new = Append(old, g)
  OBVIOUS
<1>2. /\ new \in Seq(Handlers) /\ Len(new) = Len(old) + 1
      /\ \A k \in 1 .. Len(old) : new[k] = old[k]
      /\ new[Len(old) + 1] = g
  BY <1>1, AppendProperties
<1>3. /\ Len(old) \in Nat /\ DOMAIN old = 1 .. Len(old)
      /\ DOMAIN new = 1 .. Len(old) + 1
  BY <1>2, LenProperties
<1>4. \A j, k \in 1 .. Len(old) : j < k => old[j] < old[k]
  BY <1>3 DEF Ascending
<1>5. \A j, k \in 1 .. Len(old) + 1 : j < k => new[j] < new[k]
  BY <1>2, <1>3, <1>4
<1> QED
  BY <1>1, <1>3, <1>5 DEF Ascending

\* A search keeps the order if it calls behind all that was called.
LEMMA AdvanceInOrder ==
    ASSUME DInv, AtMostOnceInOrder, NEW t \in Threads, NEW from, NEW m,
           Advance(t, from, m),
           \A i \in Matching(from, m) :
              Call(t, i) => \A k \in DOMAIN called[t] : called[t][k] < handlers[i]
    PROVE  AtMostOnceInOrder'
<1>1. called \in [Threads -> Seq(Handlers)]
  BY DEF DInv, TypeOK
<1>2. CASE called' = called
  BY <1>2 DEF AtMostOnceInOrder
<1>3. ASSUME NEW i \in Matching(from, m), Call(t, i)
      PROVE  AtMostOnceInOrder'
  <2>1. handlers[i] \in Handlers
    BY ElementOfSeq, LenProperties DEF Matching, DInv, TypeOK
  <2>2. Ascending(Append(called[t], handlers[i]))
    BY <1>1, <1>3, <2>1, Appended DEF AtMostOnceInOrder
  <2>3. called' = [called EXCEPT ![t] = Append(called[t], handlers[i])]
    BY <1>3 DEF Call
  <2> QED
    BY <1>1, <2>2, <2>3 DEF AtMostOnceInOrder
<1> QED
  BY <1>2, <1>3 DEF Advance

\* A dispatch goes on in order as long as nobody takes the address of the
\* handler it called.
LEMMA GoOnInOrder ==
    ASSUME DInv, AddressKept, AtMostOnceInOrder, NEW t \in Threads, GoOn(t)
    PROVE  AtMostOnceInOrder'
<1>1. pc[t] = "returned"
  BY DEF GoOn
<1>2. PICK from \in 1 .. Len(handlers) + 1 :
        IsNextPlace(t, from) /\ Advance(t, from, msg[t])
  BY DEF GoOn
<1>3. PICK list \in Seq(Handlers) : list = called[t]
  BY DEF DInv, TypeOK
<1>4. /\ cur[t] \in Handlers /\ list # <<>> /\ list[Len(list)] = cur[t]
      /\ Ascending(list)
  BY <1>1, <1>3 DEF DInv, PlacesFit, Busy, AtMostOnceInOrder
<1>5. \A k \in DOMAIN list : list[k] \in Nat /\ list[k] <= cur[t]
  <2>1. Len(list) \in Nat /\ DOMAIN list = 1 .. Len(list) /\ Len(list) # 0
    BY <1>4, LenProperties, EmptySeq
  <2>2. \A k \in 1 .. Len(list) : list[k] \in Handlers /\ list[k] \in Nat
    BY HandlersAssumption, ElementOfSeq
  <2>3. \A k \in 1 .. Len(list) : k < Len(list) => list[k] < list[Len(list)]
    BY <1>4, <2>1 DEF Ascending
  <2> QED
    BY <1>4, <2>1, <2>2, <2>3
<1>6. ASSUME NEW i \in Matching(from, msg[t]), Call(t, i),
             NEW k \in DOMAIN called[t]
      PROVE  called[t][k] < handlers[i]
  <2>1. pc'[t] = "called" /\ cur'[t] = handlers[i]
    BY <1>6 DEF Call, DInv, TypeOK
  <2>2. handlers[i] \in Handlers
    BY ElementOfSeq, LenProperties DEF Matching, DInv, TypeOK
  <2>3. handlers[i] \in Nat /\ cur[t] \in Nat
    BY <1>4, <2>2, HandlersAssumption
  <2>4. \A g \in Listed : Address[g] = Address[cur[t]] => ~(g < cur[t])
    BY <1>1, <2>3 DEF AddressKept, Busy
  <2>5. cur[t] < handlers[i]
    BY <2>1, <2>4, GoOnResumes
  <2> QED
    BY <1>3, <1>5, <2>3, <2>5
<1> QED
  BY <1>2, <1>6, AdvanceInOrder

\* So does every step.
LEMMA OrderKept ==
    ASSUME DInv, AddressKept, AtMostOnceInOrder, [Next]_vars
    PROVE  AtMostOnceInOrder'
<1>1. CASE UNCHANGED called
  BY <1>1 DEF AtMostOnceInOrder
<1>2. ASSUME NEW t \in Threads, Dispatch(t)
      PROVE  AtMostOnceInOrder'
  <2>1. PICK m \in Messages : Advance(t, 1, m)
    BY <1>2 DEF Dispatch
  <2>2. called[t] = <<>>
    BY <1>2 DEF Dispatch, DInv, PlacesFit
  <2> QED
    BY <2>1, <2>2, AdvanceInOrder
<1>3. ASSUME NEW t \in Threads, Return(t)
      PROVE  AtMostOnceInOrder'
  <2>1. called' = [called EXCEPT ![t] = <<>>] /\ Ascending(<<>>)
    BY <1>3 DEF Return, Ascending
  <2> QED
    BY <2>1 DEF DInv, TypeOK, AtMostOnceInOrder
<1>4. CASE \E h \in Handlers : Owner(h)
  BY <1>1, <1>4 DEF Owner, Install, Uninstall, Uninstalled, threadVars
<1>5. ASSUME NEW t \in Threads, Received(t) \/ SafeNow(t) \/ Relayed(t) \/ Stop(t)
      PROVE  AtMostOnceInOrder'
  BY <1>1, <1>5 DEF Received, SafeNow, Relayed, Stop
<1>6. CASE UNCHANGED vars
  BY <1>1, <1>6 DEF vars
<1>7. CASE \E t \in Threads : Thread(t)
  BY <1>2, <1>3, <1>5, <1>7, GoOnInOrder DEF Thread
<1> QED
  BY <1>4, <1>6, <1>7 DEF Next

-----------------------------------------------------------------------------
\* The list as numbers: sorted, and every entry a handler.
LEMMA ListNumbers ==
    ASSUME DInv
    PROVE  /\ Len(handlers) \in Nat /\ DOMAIN handlers = 1 .. Len(handlers)
           /\ \A m \in DOMAIN handlers :
                 m \in Nat /\ handlers[m] \in Handlers /\ handlers[m] \in Nat
           /\ \A m, n \in DOMAIN handlers : m < n => handlers[m] < handlers[n]
<1>1. /\ handlers \in Seq(Handlers)
      /\ DOMAIN handlers = 1 .. Len(handlers) /\ Len(handlers) \in Nat
  BY LenProperties DEF DInv, TypeOK
<1>2. \A m \in 1 .. Len(handlers) : handlers[m] \in Handlers
  BY <1>1, ElementOfSeq
<1>3. \A m \in Handlers : m \in Nat
  BY HandlersAssumption
<1>4. \A m, n \in DOMAIN handlers : m < n => handlers[m] < handlers[n]
  BY DEF DInv, ListSorted, Ascending
<1> QED
  BY <1>1, <1>2, <1>3, <1>4

\* The handlers before the place where the search goes on do not sort after
\* the last one that was called, or came after the dispatch began: none that
\* stayed is passed over.
LEMMA NextPlaceUpTo ==
    ASSUME DInv, HeadStays, NEW t \in Threads, pc[t] = "returned",
           NEW i \in 1 .. Len(handlers) + 1, IsNextPlace(t, i),
           NEW j \in DOMAIN handlers, j < i, handlers[j] \in stayed[t]
    PROVE  handlers[j] <= cur[t]
<1>1. /\ cur[t] \in Nat
      /\ seen[t] = changes => at[t] \in DOMAIN handlers /\ handlers[at[t]] = cur[t]
  BY HandlersAssumption DEF DInv, PlacesFit, Busy
<1>2. /\ \A m \in DOMAIN handlers : m \in Nat /\ m >= 1 /\ handlers[m] \in Nat
      /\ \A m, n \in DOMAIN handlers : m < n => handlers[m] < handlers[n]
  BY ListNumbers
<1>3. CASE seen[t] = changes
  <2>1. /\ at[t] \in DOMAIN handlers /\ handlers[at[t]] = cur[t]
        /\ j <= at[t]
    BY <1>1, <1>2, <1>3 DEF IsNextPlace
  <2>2. CASE j = at[t]
    BY <1>1, <2>1, <2>2
  <2>3. CASE j < at[t]
    BY <1>1, <1>2, <2>1, <2>3
  <2> QED
    BY <1>2, <2>1, <2>2, <2>3
<1>4. CASE seen[t] # changes
  <2>1. IsAfterRescan(i, cur[t])
    BY <1>4 DEF IsNextPlace
  <2>2. CASE j \notin Stops(cur[t])
    BY <1>1, <1>2, <2>2 DEF Stops
  <2>3. CASE j \in Stops(cur[t])
    <3>1. PICK n \in Stops(cur[t]) :
            /\ \A k \in Stops(cur[t]) : n <= k
            /\ i = IF Address[handlers[n]] = Address[cur[t]] \/ n = 1
                   THEN n + 1 ELSE n
      BY <2>1, <2>3 DEF IsAfterRescan
    <3>2. n \in DOMAIN handlers /\ n <= j
      BY <2>3, <3>1 DEF Stops
    <3>3. j = n /\ (Address[handlers[n]] = Address[cur[t]] \/ n = 1)
      BY <1>2, <3>1, <3>2
    <3>4. PICK k \in DOMAIN handlers : handlers[k] <= cur[t]
      BY DEF HeadStays, Busy
    <3>5. CASE n = 1
      <4>1. n = k \/ n < k
        BY <1>2, <3>2, <3>5
      <4>2. handlers[n] <= handlers[k]
        BY <1>2, <3>2, <4>1
      <4> QED
        BY <1>1, <1>2, <3>2, <3>3, <3>4, <4>2
    <3>6. CASE Address[handlers[n]] = Address[cur[t]]
      <4>1. handlers[n] = cur[t]
        BY <3>3, <3>6 DEF DInv, StayedFit, Busy
      <4> QED
        BY <1>1, <3>3, <4>1
    <3> QED
      BY <3>3, <3>5, <3>6
  <2> QED
    BY <2>2, <2>3
<1> QED
  BY <1>3, <1>4

\* The handlers of a sequence with one more at its end.
LEMMA AppendedSet ==
    ASSUME NEW S, NEW s \in Seq(S), NEW x \in S
    PROVE  ToSet(s) \subseteq ToSet(Append(s, x)) /\ x \in ToSet(Append(s, x))
<1>1. /\ Append(s, x) \in Seq(S) /\ Len(Append(s, x)) = Len(s) + 1
      /\ \A k \in 1 .. Len(s) : Append(s, x)[k] = s[k]
      /\ Append(s, x)[Len(s) + 1] = x
  BY AppendProperties
<1>2. /\ Len(s) \in Nat /\ DOMAIN s = 1 .. Len(s)
      /\ DOMAIN Append(s, x) = 1 .. Len(s) + 1
  BY <1>1, LenProperties
<1>3. Len(s) + 1 \in DOMAIN Append(s, x)
  BY <1>2
<1>4. \A k \in DOMAIN s : k \in DOMAIN Append(s, x) /\ Append(s, x)[k] = s[k]
  BY <1>1, <1>2
<1> QED
  BY <1>1, <1>3, <1>4 DEF ToSet

\* The search serves its thread: if all that stayed and matches before its
\* start was called, all up to the next match was, or simply all.
LEMMA AdvanceServes ==
    ASSUME DInv, NEW t \in Threads, NEW m, NEW from \in Nat,
           NEW st, st \subseteq Listed,
           \A j \in DOMAIN handlers :
              j < from /\ handlers[j] \in st \cap m.matches
                 => handlers[j] \in ToSet(called[t]),
           Advance(t, from, m), handlers' = handlers,
           stayed'[t] = st, msg'[t] = m
    PROVE  ServesOf(t)'
<1>1. /\ pc \in [Threads -> {"idle", "called", "relayed", "returned", "dispatched"}]
      /\ cur \in [Threads -> Handlers \cup {NoHandler}]
      /\ called \in [Threads -> Seq(Handlers)]
  BY DEF DInv, TypeOK
<1>2. /\ \A k \in DOMAIN handlers :
            k \in Nat /\ handlers[k] \in Handlers /\ handlers[k] \in Nat
      /\ \A k, n \in DOMAIN handlers : k < n => handlers[k] < handlers[n]
  BY ListNumbers
<1>4. \A h \in st : \E j \in DOMAIN handlers : handlers[j] = h
  BY DEF Listed
<1>5. CASE Matching(from, m) = {} /\ pc' = [pc EXCEPT ![t] = "dispatched"]
           /\ UNCHANGED <<at, cur, seen, called, unsafe>>
  <2>1. pc'[t] = "dispatched" /\ called'[t] = called[t]
    BY <1>1, <1>5
  <2>2. ASSUME NEW h \in st \cap m.matches
        PROVE  h \in ToSet(called[t])
    <3>1. PICK j \in DOMAIN handlers : handlers[j] = h
      BY <1>4
    <3>2. j < from
      BY <1>2, <1>5, <3>1 DEF Matching
    <3> QED
      BY <3>1, <3>2
  <2> QED
    BY <2>1, <2>2 DEF ServesOf, Busy
<1>6. ASSUME NEW i \in Matching(from, m), \A j \in Matching(from, m) : i <= j,
             Call(t, i)
      PROVE  ServesOf(t)'
  <2>1. i \in DOMAIN handlers
    BY DEF Matching
  <2>2. /\ pc' = [pc EXCEPT ![t] = "called"]
        /\ cur' = [cur EXCEPT ![t] = handlers[i]]
        /\ called' = [called EXCEPT ![t] = Append(called[t], handlers[i])]
    BY <1>6 DEF Call
  <2>3. /\ pc'[t] = "called" /\ cur'[t] = handlers[i]
        /\ called'[t] = Append(called[t], handlers[i])
    BY <1>1, <2>2
  <2>4. ToSet(called[t]) \subseteq ToSet(called'[t]) /\ handlers[i] \in ToSet(called'[t])
    BY <1>1, <1>2, <2>1, <2>3, AppendedSet
  <2>5. ASSUME NEW h \in st \cap m.matches, h <= handlers[i]
        PROVE  h \in ToSet(called'[t])
    <3>1. PICK j \in DOMAIN handlers : handlers[j] = h
      BY <1>4
    <3>2. j <= i
      BY <1>2, <2>1, <2>5, <3>1
    <3>3. CASE j = i
      BY <2>4, <3>1, <3>3
    <3>4. CASE j < i
      <4>1. j \notin Matching(from, m)
        BY <1>2, <1>6, <2>1, <3>4
      <4>2. j < from
        BY <1>2, <3>1, <4>1 DEF Matching
      <4> QED
        BY <2>4, <3>1, <4>2
    <3> QED
      BY <1>2, <2>1, <3>2, <3>3, <3>4
  <2> QED
    BY <2>3, <2>5 DEF ServesOf
<1> QED
  BY <1>5, <1>6 DEF Advance

\* A thread is served as before when neither it nor the list was touched.
LEMMA OthersServed ==
    ASSUME NEW u \in Threads, ServesOf(u), handlers' = handlers,
           pc'[u] = pc[u], cur'[u] = cur[u], called'[u] = called[u],
           msg'[u] = msg[u], retv'[u] = retv[u], stayed'[u] = stayed[u]
    PROVE  ServesOf(u)'
BY DEF ServesOf, Accepted, Listed

\* A change of the list leaves each walk with what stayed.
LEMMA ChangeServes ==
    ASSUME Serves, NEW h \in Handlers,
           Install(h) \/ Uninstall(h) \/ Uninstalled(h)
    PROVE  Serves'
<1>1. /\ UNCHANGED <<pc, msg, cur, retv, called>>
      /\ stayed' = stayed \/ stayed' = [t \in Threads |-> stayed[t] \ {h}]
  BY DEF Install, Uninstall, Uninstalled, threadVars
<1> SUFFICES ASSUME NEW t \in Threads
             PROVE  ServesOf(t)'
  BY DEF Serves
<1>3. ServesOf(t)
  BY DEF Serves
<1>4. stayed'[t] \subseteq stayed[t]
  BY <1>1
<1> QED
  BY <1>1, <1>3, <1>4 DEF ServesOf, Accepted

\* Every step of a thread keeps its walk and the others' served.
LEMMA ThreadServes ==
    ASSUME DInv, HeadStays, Serves, NEW t \in Threads, Thread(t)
    PROVE  Serves'
<1>1. /\ pc \in [Threads -> {"idle", "called", "relayed", "returned", "dispatched"}]
      /\ msg \in [Threads -> Messages \cup {NoMessage}]
      /\ at \in [Threads -> Nat]
      /\ cur \in [Threads -> Handlers \cup {NoHandler}]
      /\ seen \in [Threads -> Nat]
      /\ retv \in [Threads -> BOOLEAN]
      /\ called \in [Threads -> Seq(Handlers)]
      /\ stayed \in [Threads -> SUBSET Handlers]
  BY DEF DInv, TypeOK
<1>2. handlers' = handlers
  BY DEF Thread, Dispatch, Received, SafeNow, Relayed, GoOn, Stop, Return
<1>3. ASSUME NEW u \in Threads, u # t
      PROVE  /\ pc'[u] = pc[u] /\ cur'[u] = cur[u] /\ called'[u] = called[u]
             /\ msg'[u] = msg[u] /\ retv'[u] = retv[u] /\ stayed'[u] = stayed[u]
  <2>1. ASSUME NEW from, NEW m, Advance(t, from, m)
        PROVE  pc'[u] = pc[u] /\ cur'[u] = cur[u] /\ called'[u] = called[u]
    BY <1>1, <1>3, <2>1 DEF Advance, Call
  <2>2. CASE Dispatch(t)
    BY <1>1, <1>3, <2>1, <2>2 DEF Dispatch
  <2>3. CASE GoOn(t)
    BY <1>1, <1>3, <2>1, <2>3 DEF GoOn
  <2>4. CASE Received(t) \/ SafeNow(t) \/ Relayed(t) \/ Stop(t)
    BY <1>1, <1>3, <2>4 DEF Received, SafeNow, Relayed, Stop
  <2>5. CASE Return(t)
    BY <1>1, <1>3, <2>5 DEF Return
  <2> QED
    BY <2>2, <2>3, <2>4, <2>5 DEF Thread
<1>4. \A u \in Threads : u # t => ServesOf(u)'
  BY <1>2, <1>3, OthersServed DEF Serves
<1>5. ServesOf(t)
  BY DEF Serves
<1>6. ServesOf(t)'
  <2>1. CASE Dispatch(t)
    <3>1. PICK m \in Messages :
            /\ msg' = [msg EXCEPT ![t] = m]
            /\ stayed' = [stayed EXCEPT ![t] = Listed]
            /\ Advance(t, 1, m)
      BY <2>1 DEF Dispatch
    <3>2. msg'[t] = m /\ stayed'[t] = Listed /\ 1 \in Nat
      BY <1>1, <3>1
    <3>3. \A j \in DOMAIN handlers : ~(j < 1)
      BY ListNumbers
    <3> QED
      BY <1>2, <3>1, <3>2, <3>3, AdvanceServes
  <2>2. CASE GoOn(t)
    <3>1. /\ pc[t] = "returned" /\ ~Accepted(t)
          /\ UNCHANGED <<handlers, changes, owner, msg, retv, stayed>>
      BY <2>2 DEF GoOn
    <3>2. PICK from \in 1 .. Len(handlers) + 1 :
            IsNextPlace(t, from) /\ Advance(t, from, msg[t])
      BY <2>2 DEF GoOn
    <3>3. from \in Nat
      BY <3>2, ListNumbers
    <3>4. ASSUME NEW j \in DOMAIN handlers, j < from,
                 handlers[j] \in stayed[t] \cap msg[t].matches
          PROVE  handlers[j] \in ToSet(called[t])
      <4>1. handlers[j] <= cur[t]
        BY <3>1, <3>2, <3>4, NextPlaceUpTo
      <4> QED
        BY <1>5, <3>1, <3>4, <4>1 DEF ServesOf, Busy
    <3>5. stayed[t] \subseteq Listed
      BY DEF DInv, StayedFit
    <3> QED
      BY <1>2, <3>1, <3>2, <3>3, <3>4, <3>5, AdvanceServes
  <2>3. CASE Received(t) \/ SafeNow(t) \/ Relayed(t)
    <3>1. /\ pc[t] \in Busy /\ pc'[t] \in Busy
          /\ UNCHANGED <<msg, cur, called, stayed>>
      BY <1>1, <2>3 DEF Received, SafeNow, Relayed, Busy
    <3> QED
      BY <1>2, <1>5, <3>1 DEF ServesOf, Busy, Listed
  <2>4. CASE Stop(t)
    <3>1. Accepted(t)' /\ pc'[t] = "dispatched" /\ stayed' = stayed
      BY <1>1, <2>4 DEF Stop, Accepted
    <3> QED
      BY <1>2, <1>5, <3>1 DEF ServesOf, Busy, Listed
  <2>5. CASE Return(t)
    <3>1. pc'[t] = "idle" /\ stayed'[t] = {}
      BY <1>1, <2>5 DEF Return
    <3> QED
      BY <3>1 DEF ServesOf, Busy
  <2> QED
    BY <2>1, <2>2, <2>3, <2>4, <2>5 DEF Thread
<1> QED
  BY <1>4, <1>6 DEF Serves

\* Every step keeps the walks served as long as none loses the head of the
\* list that it started behind.
LEMMA ServesKept ==
    ASSUME DInv, HeadStays, Serves, [Next]_vars
    PROVE  Serves'
<1>1. CASE \E h \in Handlers : Owner(h)
  BY <1>1, ChangeServes DEF Owner
<1>2. CASE \E t \in Threads : Thread(t)
  BY <1>2, ThreadServes
<1>3. CASE UNCHANGED vars
  BY <1>3 DEF vars, Serves, ServesOf, Accepted, Listed
<1> QED
  BY <1>1, <1>2, <1>3 DEF Next

\* Nobody walks in the beginning.
LEMMA InitServes ==
    ASSUME Init
    PROVE  Serves
BY DEF Init, Serves, ServesOf, Busy

\* A first handler that is never uninstalled stays in the list.
LEMMA FirstStays ==
    ASSUME FirstLasts, DInv, owner[Initial[1]] = "in", [Next]_vars
    PROVE  owner'[Initial[1]] = "in"
<1>1. owner \in [Handlers -> {"out", "in", "leaving"}]
  BY DEF DInv, TypeOK
<1>2. Initial[1] \in Lasting
  BY DEF FirstLasts
<1>3. ASSUME NEW h \in Handlers, Owner(h)
      PROVE  owner'[Initial[1]] = "in"
  <2>1. h # Initial[1]
    BY <1>2, <1>3 DEF Owner, Install, Uninstall, Uninstalled
  <2>2. \E new : owner' = [owner EXCEPT ![h] = new]
    BY <1>3 DEF Owner, Install, Uninstall, Uninstalled
  <2>3. Initial[1] \in Handlers
    BY <1>2, KindsAssumption
  <2> QED
    BY <1>1, <2>1, <2>2, <2>3
<1>4. ASSUME NEW t \in Threads, Thread(t)
      PROVE  owner' = owner
  BY <1>4 DEF Thread, Dispatch, Received, SafeNow, Relayed, GoOn, Stop, Return
<1>5. CASE UNCHANGED vars
  BY <1>5 DEF vars
<1> QED
  BY <1>3, <1>4, <1>5 DEF Next

\* With it in the list the rescan always finds a place to stop before.
LEMMA FirstIsHead ==
    ASSUME FirstLasts, DInv, owner[Initial[1]] = "in"
    PROVE  HeadStays
<1>1. Initial[1] \in Handlers
  BY KindsAssumption DEF FirstLasts
<1>2. PICK i \in DOMAIN handlers : handlers[i] = Initial[1]
  BY <1>1 DEF DInv, ListSorted, Listed
<1>3. \A t \in Threads : pc[t] \in Busy => cur[t] \in Handlers
  BY DEF DInv, PlacesFit
<1> QED
  BY <1>2, <1>3 DEF HeadStays, FirstLasts

-----------------------------------------------------------------------------
\* The hub's marks are right whatever comes, goes and runs: no thread runs a
\* handler that its owner was told is uninstalled.
THEOREM NeverRunsUninstalledHolds == Spec => []NeverRunsUninstalled
<1>1. Spec => []DInv
  BY InitEstablishes, StepKeeps, PTL DEF Spec
<1>2. DInv => NeverRunsUninstalled
  BY DEF DInv
<1> QED
  BY <1>1, <1>2, PTL

\* However the list changes under it, a dispatch goes on behind the handler
\* it called, or behind a new one that it takes for that one.
THEOREM ResumesInOrderHolds == Spec => ResumesInOrder
<1>1. Spec => []DInv
  BY InitEstablishes, StepKeeps, PTL DEF Spec
<1>2. DInv /\ [Next]_vars =>
         [\A t \in Threads :
             pc[t] = "returned" /\ pc'[t] = "called" =>
                \/ cur[t] < cur'[t]
                \/ \E g \in Listed \ stayed[t] :
                     Address[g] = Address[cur[t]] /\ g < cur'[t]]_vars
  BY StepResumes
<1> QED
  BY <1>1, <1>2, PTL DEF Spec, ResumesInOrder

\* As long as no other handler comes to the address of the one a thread
\* called, its dispatch calls handlers in their order and none twice.
THEOREM InOrderUnlessReused == Spec /\ []AddressKept => []AtMostOnceInOrder
<1>1. Spec => []DInv
  BY InitEstablishes, StepKeeps, PTL DEF Spec
<1>2. Init => AtMostOnceInOrder
  BY DEF Init, AtMostOnceInOrder, Ascending
<1>3. DInv /\ AddressKept /\ AtMostOnceInOrder /\ [Next]_vars
         => AtMostOnceInOrder'
  BY OrderKept
<1> QED
  BY <1>1, <1>2, <1>3, PTL DEF Spec

\* Every variable keeps its type.
THEOREM TypeOKHolds == Spec => []TypeOK
<1>1. Spec => []DInv
  BY InitEstablishes, StepKeeps, PTL DEF Spec
<1>2. DInv => TypeOK
  BY DEF DInv
<1> QED
  BY <1>1, <1>2, PTL

\* As long as each walk keeps a handler in the list that does not sort after
\* the one it called last, no rescan passes over a handler: a message that
\* nobody accepted was passed to every match that stayed.  The run
\* dispatch_head shows what happens without that condition.
THEOREM ServedBehindTheHead == Spec /\ []HeadStays => []StayedAreServed
<1>1. Spec => []DInv
  BY InitEstablishes, StepKeeps, PTL DEF Spec
<1>2. Init => Serves
  BY InitServes
<1>3. DInv /\ HeadStays /\ Serves /\ [Next]_vars => Serves'
  BY ServesKept
<1>4. Serves => StayedAreServed
  BY DEF Serves, ServesOf, StayedAreServed
<1> QED
  BY <1>1, <1>2, <1>3, <1>4, PTL DEF Spec

\* With a handler that sorts before all others and is never uninstalled, a
\* message that nobody accepted is passed to every match that was installed
\* all the time, whatever else comes and goes during the walk.
THEOREM StayedAreServedHolds ==
    ASSUME FirstLasts
    PROVE  Spec => []StayedAreServed
<1>1. Spec => []DInv
  BY InitEstablishes, StepKeeps, PTL DEF Spec
<1>2. Init => owner[Initial[1]] = "in"
  <2> SUFFICES ASSUME Init
               PROVE  owner[Initial[1]] = "in"
    OBVIOUS
  <2>1. Initial[1] \in Handlers /\ 1 \in DOMAIN Initial
    BY InitialAssumption, KindsAssumption, LenProperties, EmptySeq DEF FirstLasts
  <2>2. Initial[1] \in Listed
    BY <2>1 DEF Init, Listed
  <2> QED
    BY <2>1, <2>2 DEF Init
<1>3. DInv /\ owner[Initial[1]] = "in" /\ [Next]_vars => (owner[Initial[1]] = "in")'
  BY FirstStays
<1>4. DInv /\ owner[Initial[1]] = "in" => HeadStays
  BY FirstIsHead
<1> QED
  BY <1>1, <1>2, <1>3, <1>4, ServedBehindTheHead, PTL DEF Spec
=============================================================================
