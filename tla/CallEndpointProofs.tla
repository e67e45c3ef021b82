------------------------- MODULE CallEndpointProofs -------------------------
(* Theorems about CallEndpoint, for any endpoints and threads and however  *)
(* their connects, disconnects and releases interleave.                    *)
EXTENDS CallEndpoint, FiniteSetTheorems, FunctionTheorems, SequenceTheorems,
        TLAPS

(***************************************************************************)
(* Kinds of steps, as sets.                                                *)
(***************************************************************************)
HoldOf(e)     == {s \in Steps : Holds(s, e)}
FreeOf(e)     == {s \in Steps : s.at = "free" /\ s.e = e}
CoverOf(e)    == HoldOf(e) \cup FreeOf(e)
SetOf(a, b)   == {s \in Steps : s.at = "setpeer" /\ s.e = a /\ s.with = b}
TakenOf(a, b) == {s \in Steps : s.at = "clear" /\ s.e = a /\ s.with = b}

ConnectAt    == {"check", "peerref", "point", "setpeer"}
DisconnectAt == {"look", "lock", "clear"}

\* A step of two endpoints has two, another one has one.
Good == {s \in Steps : IF s.at \in ConnectAt \cup {"clear"} THEN s.with \in Endpoints \ {s.e}
                       ELSE s.with = Null}

\* The endpoints of which a step relies on a reference that is further down.
Needs(s) == IF s.at \in ConnectAt THEN {s.e, s.with}
            ELSE IF s.at \in DisconnectAt THEN {s.e} ELSE {}

\* What may wait under another step.
Below == {"peerref", "point", "deref", "free"}

(***************************************************************************)
(* Stacks of steps.                                                        *)
(***************************************************************************)
Cons(x, q)  == <<x>> \o q
Items(q)    == {q[k] : k \in DOMAIN q}

Rest(q) ==
    /\ q \in Seq(Steps)
    /\ \A k \in DOMAIN q :
         /\ q[k] \in Good /\ q[k].at \in Below
         /\ \A x \in Needs(q[k]) : \E j \in DOMAIN q : j > k /\ q[j] \in CoverOf(x)

OnTop(x, q) == x \in Good /\ \A y \in Needs(x) : Items(q) \cap CoverOf(y) # {}

Stack(s) ==
    /\ s \in Seq(Steps)
    /\ s # <<>> => Rest(Tail(s)) /\ OnTop(Head(s), Tail(s))

\* Where the steps of a kind are in the stacks f.
At(f, S) == UNION {{<<t, k>> : k \in {k \in DOMAIN f[t] : f[t][k] \in S}} : t \in Threads}
N(f, S)  == Cardinality(At(f, S))

One(x, S) == IF x \in S THEN 1 ELSE 0

\* The stacks g have one more step x than f, which counts as such.
OneMore(f, g, x, S) ==
    /\ IsFiniteSet(At(f, S)) <=> IsFiniteSet(At(g, S))
    /\ IsFiniteSet(At(f, S)) => N(g, S) = N(f, S) + One(x, S)

\* From f to g so many steps of the kind S go and so many come.
Recounted(f, g, S, gone, new) ==
    /\ IsFiniteSet(At(g, S)) /\ N(f, S) \in Nat /\ N(g, S) \in Nat
    /\ N(g, S) + gone = N(f, S) + new


(***************************************************************************)
(* The invariant.                                                          *)
(***************************************************************************)
PointsAt(p, e) == {x \in Endpoints : p[x] = e}

\* From p to r so many pointers at e go and so many come.
Repointed(p, r, e, gone, new) ==
    /\ IsFiniteSet(PointsAt(r, e))
    /\ Cardinality(PointsAt(r, e)) + gone = Cardinality(PointsAt(p, e)) + new

Types ==
    /\ peer \in [Endpoints -> Endpoints \cup {Null}] /\ \A e \in Endpoints : peer[e] # e
    /\ refs \in [Endpoints -> Nat]
    /\ owned \subseteq Endpoints /\ freed \subseteq Endpoints
    /\ mutex \in Threads \cup {Null}
    /\ todo \in [Threads -> Seq(Steps)] /\ IsFiniteSet(At(todo, Steps))
    /\ torn \in BOOLEAN

Stacks == \A t \in Threads : Stack(todo[t])

\* The counter of an endpoint is the number of its references.
CountedAt(e) ==
    /\ IsFiniteSet(PointsAt(peer, e))
    /\ refs[e] = One(e, owned) + Cardinality(PointsAt(peer, e)) + N(todo, HoldOf(e))

Counted == \A e \in Endpoints : CountedAt(e)

\* The pointer from a to b, and each time it was taken to be there by a
\* thread that has not come to the other pointer yet.
Owes(a, b) == One(peer[a], {b}) + N(todo, SetOf(b, a)) + N(todo, TakenOf(a, b))

Balanced == \A a, b \in Endpoints : a # b => Owes(a, b) = Owes(b, a)

\* A dead endpoint is deleted once: it is or it will be.
DiesOnce ==
    \A e \in Endpoints : N(todo, FreeOf(e)) + One(e, freed) = One(refs[e], {0})

MutexIsHeld == \A t \in Threads : mutex = t <=> AtStep(t, "clear")

EInv == /\ Types /\ Stacks /\ DiesOnce /\ MutexIsHeld
        /\ ~ torn => Counted /\ Balanced

-----------------------------------------------------------------------------
(***************************************************************************)
(* Sequences built from the front.                                         *)
(***************************************************************************)

\* A step on top of others.
LEMMA ConsIs ==
  ASSUME NEW S, NEW x \in S, NEW q \in Seq(S)
  PROVE  /\ Cons(x, q) \in Seq(S) /\ Cons(x, q) # <<>>
         /\ Head(Cons(x, q)) = x /\ Tail(Cons(x, q)) = q
         /\ DOMAIN q = 1 .. Len(q) /\ Len(q) \in Nat
         /\ DOMAIN Cons(x, q) = 1 .. Len(q) + 1
         /\ Cons(x, q)[1] = x
         /\ \A k \in 1 .. Len(q) : Cons(x, q)[k + 1] = q[k]
<1> DEFINE c == Cons(x, q)
<1>1. <<x>> \in Seq(S) /\ Len(<<x>>) = 1 /\ <<x>>[1] = x
  OBVIOUS
<1>2. Len(q) \in Nat /\ DOMAIN q = 1 .. Len(q)
  OBVIOUS
<1>3. /\ c \in Seq(S) /\ Len(c) = Len(q) + 1
      /\ \A i \in 1 .. Len(q) + 1 : c[i] = IF i <= 1 THEN <<x>>[i] ELSE q[i - 1]
  BY <1>1, <1>2 DEF Cons
<1> HIDE DEF c
<1>4. c[1] = x /\ \A k \in 1 .. Len(q) : c[k + 1] = q[k]
  BY <1>1, <1>2, <1>3
<1>5. c # <<>> /\ Head(c) = x /\ DOMAIN c = 1 .. Len(q) + 1
  BY <1>2, <1>3, <1>4
<1>6. Tail(c) = q
  <2>1. Tail(c) \in Seq(S) /\ Len(Tail(c)) = Len(q)
    BY <1>2, <1>3, <1>5
  <2>2. \A k \in 1 .. Len(q) : Tail(c)[k] = q[k]
    BY <1>2, <1>3, <1>4
  <2>3. QED
    BY <2>1, <2>2, <1>2
<1>7. QED
  BY <1>2, <1>3, <1>4, <1>5, <1>6 DEF c

\* A stack that is not empty is its first step on top of the others.
LEMMA ConsAll ==
  ASSUME NEW S, NEW s \in Seq(S), s # <<>>
  PROVE  Head(s) \in S /\ Tail(s) \in Seq(S) /\ s = Cons(Head(s), Tail(s))
<1>1. Len(s) \in Nat /\ Len(s) > 0
  OBVIOUS
<1>2. Head(s) \in S /\ Tail(s) \in Seq(S) /\ Len(Tail(s)) = Len(s) - 1
      /\ s[1] = Head(s) /\ \A k \in 1 .. Len(s) - 1 : Tail(s)[k] = s[k + 1]
  BY <1>1
<1> DEFINE h == Head(s)  q == Tail(s)  c == Cons(h, q)
<1>3. /\ c \in Seq(S) /\ DOMAIN c = 1 .. Len(q) + 1 /\ c[1] = h
      /\ \A k \in 1 .. Len(q) : c[k + 1] = q[k]
  <2>1. h \in S /\ q \in Seq(S)
    BY <1>2
  <2> HIDE DEF h, q
  <2>2. QED
    BY <2>1, ConsIs
<1> HIDE DEF c
<1>4. Len(c) = Len(s)
  BY <1>1, <1>2, <1>3
<1>5. \A k \in 1 .. Len(s) : c[k] = s[k]
  <2>1. SUFFICES ASSUME NEW k \in 1 .. Len(s) PROVE c[k] = s[k]
    OBVIOUS
  <2>2. CASE k = 1
    BY <1>2, <1>3, <2>2
  <2>3. CASE k # 1
    <3> DEFINE j == k - 1
    <3>1. j \in 1 .. Len(s) - 1 /\ k = j + 1
      BY <1>1, <2>3
    <3> HIDE DEF j
    <3>2. QED
      BY <1>1, <1>2, <1>3, <3>1
  <2>4. QED
    BY <2>2, <2>3
<1>6. c = s
  BY <1>3, <1>4, <1>5
<1>7. QED
  BY <1>2, <1>6 DEF c

\* Two and three steps one by one.
LEMMA PairsAre ==
  ASSUME NEW S, NEW x \in S, NEW y \in S, NEW z \in S
  PROVE  <<x>> \o <<y>> = <<x, y>> /\ <<x>> \o <<y, z>> = <<x, y, z>>
<1>1. ASSUME NEW s \in Seq(S), Len(s) = 2, s[1] = x, s[2] = y PROVE s = <<x, y>>
  BY <1>1
<1>2. ASSUME NEW s \in Seq(S), Len(s) = 3, s[1] = x, s[2] = y, s[3] = z PROVE s = <<x, y, z>>
  BY <1>2
<1>3. /\ <<x>> \in Seq(S) /\ <<y>> \in Seq(S) /\ <<y, z>> \in Seq(S)
      /\ Len(<<x>>) = 1 /\ Len(<<y>>) = 1 /\ Len(<<y, z>>) = 2
      /\ <<x>>[1] = x /\ <<y>>[1] = y /\ <<y, z>>[1] = y /\ <<y, z>>[2] = z
  OBVIOUS
<1>4. <<x>> \o <<y>> = <<x, y>>
  <2> DEFINE s == <<x>> \o <<y>>
  <2>1. s \in Seq(S) /\ Len(s) = 2 /\ s[1] = x /\ s[2] = y
    BY <1>3, ConcatProperties
  <2>2. QED
    BY <1>1, <2>1
<1>5. <<x>> \o <<y, z>> = <<x, y, z>>
  <2> DEFINE s == <<x>> \o <<y, z>>
  <2>1. s \in Seq(S) /\ Len(s) = 3 /\ s[1] = x /\ s[2] = y /\ s[3] = z
    BY <1>3, ConcatProperties
  <2>2. QED
    BY <1>2, <2>1
<1>6. QED
  BY <1>4, <1>5

\* The steps of an operation go on top one after the other.
LEMMA Pushed ==
  ASSUME NEW S, NEW q \in Seq(S), NEW x \in S, NEW y \in S
  PROVE  /\ <<>> \o q = q
         /\ <<x>> \o q = Cons(x, q)
         /\ <<x, y>> \o q = Cons(x, Cons(y, q))
<1>1. <<>> \o q = q /\ <<x>> \o q = Cons(x, q)
  BY DEF Cons
<1>2. <<x, y>> \o q = Cons(x, Cons(y, q))
  <2>1. /\ <<x>> \in Seq(S) /\ <<y>> \in Seq(S) /\ <<x>> \o <<y>> = <<x, y>>
    <3>1. <<x>> \in Seq(S) /\ <<y>> \in Seq(S)
      OBVIOUS
    <3>2. <<x>> \o <<y>> = <<x, y>>
      BY PairsAre
    <3>3. QED
      BY <3>1, <3>2
  <2>2. (<<x>> \o <<y>>) \o q = <<x>> \o (<<y>> \o q)
    BY <2>1, ConcatAssociative
  <2>3. QED
    BY <2>1, <2>2 DEF Cons
<1>3. QED
  BY <1>1, <1>2

\* A few steps are a stack.
LEMMA Listed ==
  ASSUME NEW S, NEW x \in S, NEW y \in S, NEW z \in S
  PROVE  /\ <<x>> = Cons(x, <<>>)
         /\ <<x, y>> = Cons(x, Cons(y, <<>>))
         /\ <<x, y, z>> = Cons(x, Cons(y, Cons(z, <<>>)))
<1>1. <<>> \in Seq(S)
  OBVIOUS
<1>2. <<x>> = Cons(x, <<>>) /\ <<y>> \in Seq(S) /\ <<y>> = Cons(y, <<>>) /\ <<z>> = Cons(z, <<>>)
  BY DEF Cons
<1>3. <<x, y>> = Cons(x, <<y>>) /\ <<y, z>> = Cons(y, <<z>>)
  BY PairsAre DEF Cons
<1>4. <<x, y, z>> = Cons(x, <<y, z>>)
  BY PairsAre DEF Cons
<1>5. QED
  BY <1>2, <1>3, <1>4

\* The steps in a stack.
LEMMA ItemsAre ==
  /\ Items(<<>>) = {}
  /\ \A S : \A x \in S, q \in Seq(S) :
       Items(Cons(x, q)) = {x} \cup Items(q) /\ Items(q) \subseteq S
<1>1. Items(<<>>) = {}
  BY DEF Items
<1>2. ASSUME NEW S, NEW x \in S, NEW q \in Seq(S)
      PROVE  Items(Cons(x, q)) = {x} \cup Items(q) /\ Items(q) \subseteq S
  <2> DEFINE c == Cons(x, q)
  <2>1. /\ DOMAIN q = 1 .. Len(q) /\ Len(q) \in Nat /\ DOMAIN c = 1 .. Len(q) + 1
        /\ c[1] = x /\ \A k \in 1 .. Len(q) : c[k + 1] = q[k]
    BY ConsIs
  <2> HIDE DEF c
  <2>2. Items(q) \subseteq S
    BY DEF Items
  <2>3. ASSUME NEW i \in Items(c) PROVE i \in {x} \cup Items(q)
    <3>1. PICK k \in 1 .. Len(q) + 1 : i = c[k]
      BY <2>1, <2>3 DEF Items
    <3>2. CASE k = 1
      BY <2>1, <3>1, <3>2
    <3>3. CASE k # 1
      <4> DEFINE j == k - 1
      <4>1. j \in 1 .. Len(q) /\ k = j + 1
        BY <2>1, <3>3
      <4> HIDE DEF j
      <4>2. QED
        BY <2>1, <3>1, <4>1 DEF Items
    <3>4. QED
      BY <3>2, <3>3
  <2>4. ASSUME NEW i \in {x} \cup Items(q) PROVE i \in Items(c)
    <3>1. CASE i = x
      <4>1. 1 \in DOMAIN c
        BY <2>1
      <4>2. QED
        BY <2>1, <3>1, <4>1 DEF Items
    <3>2. CASE i \in Items(q)
      <4>1. PICK k \in 1 .. Len(q) : i = q[k]
        BY <2>1, <3>2 DEF Items
      <4>2. k + 1 \in DOMAIN c /\ c[k + 1] = i
        BY <2>1, <4>1
      <4>3. QED
        BY <4>2 DEF Items
    <3>3. QED
      BY <2>4, <3>1, <3>2
  <2>5. Items(c) = {x} \cup Items(q)
    BY <2>3, <2>4
  <2>6. QED
    BY <2>2, <2>5 DEF c
<1>3. QED
  BY <1>1, <1>2

\* A step may wait when what it needs is held below.
LEMMA RestCons ==
  ASSUME NEW q, Rest(q), NEW x, OnTop(x, q), x.at \in Below
  PROVE  Rest(Cons(x, q))
<1> DEFINE c == Cons(x, q)
<1>1. q \in Seq(Steps) /\ x \in Steps /\ x \in Good
  BY DEF Rest, OnTop, Good
<1>2. /\ c \in Seq(Steps) /\ DOMAIN q = 1 .. Len(q) /\ Len(q) \in Nat
      /\ DOMAIN c = 1 .. Len(q) + 1
      /\ c[1] = x /\ \A k \in 1 .. Len(q) : c[k + 1] = q[k]
  BY <1>1, ConsIs
<1> HIDE DEF c
<1>3. ASSUME NEW k \in DOMAIN c
      PROVE  /\ c[k] \in Good /\ c[k].at \in Below
             /\ \A y \in Needs(c[k]) : \E j \in DOMAIN c : j > k /\ c[j] \in CoverOf(y)
  <2>1. CASE k = 1
    <3>1. ASSUME NEW y \in Needs(x)
          PROVE  \E j \in DOMAIN c : j > 1 /\ c[j] \in CoverOf(y)
      <4>1. PICK i \in 1 .. Len(q) : q[i] \in CoverOf(y)
        BY <1>2, <3>1 DEF OnTop, Items
      <4>2. i + 1 \in DOMAIN c /\ i + 1 > 1 /\ c[i + 1] = q[i]
        BY <1>2
      <4>3. QED
        BY <4>1, <4>2
    <3>2. QED
      BY <1>1, <1>2, <2>1, <3>1
  <2>2. CASE k # 1
    <3> DEFINE i == k - 1
    <3>1. i \in DOMAIN q /\ k = i + 1 /\ c[k] = q[i] /\ i \in 1 .. Len(q)
      <4>1. i \in 1 .. Len(q) /\ k = i + 1
        BY <1>2, <2>2
      <4>2. QED
        BY <1>2, <4>1
    <3> HIDE DEF i
    <3>2. q[i] \in Good /\ q[i].at \in Below
      BY <3>1 DEF Rest
    <3>3. ASSUME NEW y \in Needs(q[i])
          PROVE  \E j \in DOMAIN c : j > k /\ c[j] \in CoverOf(y)
      <4>1. PICK j \in DOMAIN q : j > i /\ q[j] \in CoverOf(y)
        BY <3>1, <3>3 DEF Rest
      <4>2. j + 1 \in DOMAIN c /\ j + 1 > k /\ c[j + 1] = q[j]
        BY <1>2, <3>1, <4>1
      <4>3. QED
        BY <4>1, <4>2
    <3>4. QED
      BY <3>1, <3>2, <3>3
  <2>3. QED
    BY <2>1, <2>2
<1>4. Rest(c)
  BY <1>2, <1>3 DEF Rest
<1>5. QED
  BY <1>4 DEF c

\* A step put on a stack.
LEMMA ConsOfSteps ==
  ASSUME NEW x \in Steps, NEW q \in Seq(Steps)
  PROVE  /\ Cons(x, q) \in Seq(Steps) /\ Cons(x, q) # <<>>
         /\ Head(Cons(x, q)) = x /\ Tail(Cons(x, q)) = q
BY ConsIs

\* A step on top of what may wait makes a stack.
LEMMA StackCons ==
  ASSUME NEW q, Rest(q), NEW x, OnTop(x, q)
  PROVE  Stack(Cons(x, q))
<1>1. q \in Seq(Steps) /\ x \in Steps
  BY DEF Rest, OnTop, Good
<1>2. /\ Cons(x, q) \in Seq(Steps)
      /\ Head(Cons(x, q)) = x /\ Tail(Cons(x, q)) = q
  BY <1>1, ConsOfSteps
<1>3. QED
  BY <1>2, Zenon DEF Stack

\* What may wait is a stack when its turn comes.
LEMMA RestIsStack ==
  ASSUME NEW s, Rest(s)
  PROVE  Stack(s)
<1>1. s \in Seq(Steps)
  BY DEF Rest
<1>2. SUFFICES ASSUME s # <<>> PROVE Rest(Tail(s)) /\ OnTop(Head(s), Tail(s))
  BY <1>1 DEF Stack
<1> DEFINE q == Tail(s)  x == Head(s)
<1>3. x \in Steps /\ q \in Seq(Steps) /\ s = Cons(x, q)
  BY <1>1, <1>2, ConsAll
<1> HIDE DEF q, x
<1>4. /\ DOMAIN q = 1 .. Len(q) /\ Len(q) \in Nat
      /\ DOMAIN s = 1 .. Len(q) + 1
      /\ s[1] = x /\ \A k \in 1 .. Len(q) : s[k + 1] = q[k]
  <2> DEFINE c == Cons(x, q)
  <2>1. /\ DOMAIN q = 1 .. Len(q) /\ Len(q) \in Nat
        /\ DOMAIN c = 1 .. Len(q) + 1
        /\ c[1] = x /\ \A k \in 1 .. Len(q) : c[k + 1] = q[k]
    <3>1. x \in Steps /\ q \in Seq(Steps)
      BY <1>3
    <3>2. QED
      BY <3>1, ConsIs
  <2> HIDE DEF c
  <2>2. s = c
    BY <1>3 DEF c
  <2>3. QED
    BY <2>1, <2>2
<1>5. ASSUME NEW i \in DOMAIN s, NEW y \in Needs(s[i])
      PROVE  \E j \in DOMAIN q : j + 1 > i /\ q[j] \in CoverOf(y)
  <2>1. PICK k \in DOMAIN s : k > i /\ s[k] \in CoverOf(y)
    BY <1>5 DEF Rest
  <2> DEFINE j == k - 1
  <2>2. j \in 1 .. Len(q) /\ k = j + 1
    BY <1>4, <2>1
  <2> HIDE DEF j
  <2>3. j \in DOMAIN q /\ s[k] = q[j]
    BY <1>4, <2>2
  <2>4. QED
    BY <2>1, <2>2, <2>3
<1>6. Rest(q)
  <2>1. ASSUME NEW k \in DOMAIN q
        PROVE  /\ q[k] \in Good /\ q[k].at \in Below
               /\ \A y \in Needs(q[k]) : \E j \in DOMAIN q : j > k /\ q[j] \in CoverOf(y)
    <3>1. k + 1 \in DOMAIN s /\ s[k + 1] = q[k]
      BY <1>4
    <3>2. q[k] \in Good /\ q[k].at \in Below
      BY <3>1 DEF Rest
    <3>3. ASSUME NEW y \in Needs(q[k]) PROVE \E j \in DOMAIN q : j > k /\ q[j] \in CoverOf(y)
      <4>1. PICK j \in DOMAIN q : j + 1 > k + 1 /\ q[j] \in CoverOf(y)
        BY <1>5, <3>1, <3>3
      <4>2. j > k
        BY <1>4, <4>1
      <4>3. QED
        BY <4>1, <4>2
    <3>4. QED
      BY <3>2, <3>3
  <2>2. QED
    BY <1>3, <2>1 DEF Rest
<1>7. OnTop(x, q)
  <2>1. 1 \in DOMAIN s
    BY <1>4
  <2>2. x \in Good
    BY <1>4, <2>1 DEF Rest
  <2>3. ASSUME NEW y \in Needs(x) PROVE Items(q) \cap CoverOf(y) # {}
    BY <1>4, <1>5, <2>1, <2>3 DEF Items
  <2>4. QED
    BY <2>2, <2>3 DEF OnTop
<1>8. QED
  BY <1>6, <1>7 DEF q, x

(***************************************************************************)
(* Counting the steps of a kind.                                           *)
(***************************************************************************)

\* Where the steps of a kind are.
LEMMA AtIs ==
  ASSUME NEW f, NEW S, NEW z
  PROVE  z \in At(f, S) <=>
           \E t \in Threads : \E k \in DOMAIN f[t] : z = <<t, k>> /\ f[t][k] \in S
  BY DEF At

\* Another step on top moves those below it and counts itself.
LEMMA AtPush ==
  ASSUME NEW f \in [Threads -> Seq(Steps)], NEW t \in Threads, NEW x \in Steps, NEW S
  PROVE  OneMore(f, [f EXCEPT ![t] = Cons(x, f[t])], x, S)
<1> DEFINE q == f[t]
           c == Cons(x, q)
           g == [f EXCEPT ![t] = c]
           A == At(f, S)
           move == [z \in A |-> IF z[1] = t THEN <<t, z[2] + 1>> ELSE z]
           M == {move[z] : z \in A}
<1>1. /\ q \in Seq(Steps) /\ DOMAIN q = 1 .. Len(q) /\ Len(q) \in Nat
      /\ DOMAIN c = 1 .. Len(q) + 1 /\ c[1] = x
      /\ \A k \in 1 .. Len(q) : c[k + 1] = q[k]
  <2>1. q \in Seq(Steps)
    OBVIOUS
  <2> HIDE DEF q
  <2>2. QED
    BY <2>1, ConsIs
<1>2. g[t] = c /\ \A u \in Threads \ {t} : g[u] = f[u]
  OBVIOUS
<1> HIDE DEF c, g
<1>3. ASSUME NEW z \in A
      PROVE  \/ \E k \in 1 .. Len(q) : z = <<t, k>> /\ q[k] \in S /\ move[z] = <<t, k + 1>>
             \/ \E u \in Threads \ {t} : \E k \in DOMAIN f[u] :
                  z = <<u, k>> /\ f[u][k] \in S /\ move[z] = z
  <2>a. PICK u \in Threads : \E k \in DOMAIN f[u] : z = <<u, k>> /\ f[u][k] \in S
    BY AtIs
  <2>1. PICK k \in DOMAIN f[u] : z = <<u, k>> /\ f[u][k] \in S
    BY <2>a
  <2>2. move[z] = IF z[1] = t THEN <<t, z[2] + 1>> ELSE z
    OBVIOUS
  <2>3. z[1] = u /\ z[2] = k
    BY <2>1
  <2> HIDE DEF move, A
  <2>4. CASE u = t
    <3>1. k \in 1 .. Len(q) /\ z = <<t, k>> /\ q[k] \in S
      BY <1>1, <2>1, <2>4
    <3>2. move[z] = <<t, k + 1>>
      BY <2>2, <2>3, <2>4
    <3>3. QED
      BY <3>1, <3>2
  <2>5. CASE u # t
    BY <2>1, <2>2, <2>3, <2>5
  <2>6. QED
    BY <2>4, <2>5
<1>4. \A z \in A : move[z] \in At(g, S) /\ move[z] # <<t, 1>>
  <2> SUFFICES ASSUME NEW z \in A PROVE move[z] \in At(g, S) /\ move[z] # <<t, 1>>
    OBVIOUS
  <2>1. CASE \E k \in 1 .. Len(q) : z = <<t, k>> /\ q[k] \in S /\ move[z] = <<t, k + 1>>
    <3>1. PICK k \in 1 .. Len(q) : q[k] \in S /\ move[z] = <<t, k + 1>>
      BY <2>1
    <3> HIDE DEF move, A, q
    <3>2. k + 1 \in DOMAIN g[t] /\ g[t][k + 1] \in S /\ k + 1 # 1
      BY <1>1, <1>2, <3>1
    <3>3. move[z] \in At(g, S)
      BY <3>1, <3>2, AtIs
    <3>4. QED
      BY <3>1, <3>2, <3>3
  <2>2. CASE \E u \in Threads \ {t} : \E k \in DOMAIN f[u] :
               z = <<u, k>> /\ f[u][k] \in S /\ move[z] = z
    <3>a. PICK u \in Threads \ {t} : \E k \in DOMAIN f[u] :
               z = <<u, k>> /\ f[u][k] \in S /\ move[z] = z
      BY <2>2
    <3>1. PICK k \in DOMAIN f[u] : z = <<u, k>> /\ f[u][k] \in S /\ move[z] = z
      BY <3>a
    <3> HIDE DEF move, A, q
    <3>2. k \in DOMAIN g[u] /\ g[u][k] \in S
      BY <1>2, <3>1
    <3>3. move[z] \in At(g, S)
      BY <3>1, <3>2, AtIs
    <3>4. QED
      BY <3>1, <3>3
  <2>3. QED
    BY <1>3, <2>1, <2>2
<1>5. At(g, S) = M \cup (IF x \in S THEN {<<t, 1>>} ELSE {})
  <2>1. ASSUME NEW z \in At(g, S) PROVE z \in M \/ (x \in S /\ z = <<t, 1>>)
    <3>a. PICK u \in Threads : \E k \in DOMAIN g[u] : z = <<u, k>> /\ g[u][k] \in S
      BY AtIs
    <3>1. PICK k \in DOMAIN g[u] : z = <<u, k>> /\ g[u][k] \in S
      BY <3>a
    <3>2. CASE u # t
      <4>1. z \in A
        <5>1. k \in DOMAIN f[u] /\ f[u][k] \in S
          BY <1>2, <3>1, <3>2
        <5>2. QED
          BY <3>1, <5>1, AtIs
      <4>2. move[z] = z
        BY <3>1, <3>2, <4>1
      <4>3. QED
        BY <4>1, <4>2
    <3>3. CASE u = t /\ k = 1
      BY <1>1, <1>2, <3>1, <3>3
    <3>4. CASE u = t /\ k # 1
      <4> DEFINE j == k - 1  y == <<t, j>>
      <4>1. j \in 1 .. Len(q) /\ k = j + 1
        BY <1>1, <1>2, <3>1, <3>4
      <4>2. j \in DOMAIN f[t] /\ f[t][j] \in S
        BY <1>1, <1>2, <3>1, <3>4, <4>1
      <4>3. y \in A
        BY <4>2, AtIs
      <4>4. move[y] = z
        BY <3>1, <3>4, <4>1, <4>3
      <4>5. QED
        BY <4>3, <4>4
    <3>5. QED
      BY <3>2, <3>3, <3>4
  <2>2. x \in S => <<t, 1>> \in At(g, S)
    <3>1. 1 \in DOMAIN g[t] /\ g[t][1] = x
      BY <1>1, <1>2
    <3>2. QED
      BY <3>1, AtIs
  <2>3. \A z \in M : z \in At(g, S)
    BY <1>4
  <2> HIDE DEF M
  <2>4. QED
    BY <2>1, <2>2, <2>3
<1>6. <<t, 1>> \notin M
  BY <1>4
<1>7. move \in Bijection(A, M)
  <2>1. ASSUME NEW y \in A, NEW z \in A, move[y] = move[z] PROVE y = z
    <3>1. CASE \E k \in 1 .. Len(q) : y = <<t, k>> /\ q[k] \in S /\ move[y] = <<t, k + 1>>
      <4>1. PICK k \in 1 .. Len(q) : y = <<t, k>> /\ move[y] = <<t, k + 1>>
        BY <3>1
      <4>2. CASE \E i \in 1 .. Len(q) : z = <<t, i>> /\ q[i] \in S /\ move[z] = <<t, i + 1>>
        <5>1. PICK i \in 1 .. Len(q) : z = <<t, i>> /\ move[z] = <<t, i + 1>>
          BY <4>2
        <5> HIDE DEF move, A
        <5>2. k + 1 = i + 1
          BY <2>1, <4>1, <5>1
        <5>3. QED
          BY <4>1, <5>1, <5>2
      <4>3. CASE \E u \in Threads \ {t} : \E i \in DOMAIN f[u] :
                   z = <<u, i>> /\ f[u][i] \in S /\ move[z] = z
        <5> HIDE DEF move, A
        <5>1. QED
          BY <2>1, <4>1, <4>3
      <4>4. QED
        BY <1>3, <4>2, <4>3
    <3>2. CASE \E u \in Threads \ {t} : \E i \in DOMAIN f[u] :
                 y = <<u, i>> /\ f[u][i] \in S /\ move[y] = y
      <4>1. CASE \E i \in 1 .. Len(q) : z = <<t, i>> /\ q[i] \in S /\ move[z] = <<t, i + 1>>
        <5> HIDE DEF move, A
        <5>1. QED
          BY <2>1, <3>2, <4>1
      <4>2. CASE \E u \in Threads \ {t} : \E i \in DOMAIN f[u] :
                   z = <<u, i>> /\ f[u][i] \in S /\ move[z] = z
        <5> HIDE DEF move, A
        <5>1. QED
          BY <2>1, <3>2, <4>2
      <4>3. QED
        BY <1>3, <4>1, <4>2
    <3>3. QED
      BY <1>3, <3>1, <3>2
  <2>2. move \in [A -> M]
    OBVIOUS
  <2>3. \A z \in M : \E y \in A : move[y] = z
    OBVIOUS
  <2> HIDE DEF move, M, A
  <2>4. QED
    BY <2>1, <2>2, <2>3, Fun_IsBij
<1>8. /\ IsFiniteSet(A) <=> IsFiniteSet(M)
      /\ IsFiniteSet(A) => Cardinality(A) = Cardinality(M)
  <2> HIDE DEF A, M, move
  <2>1. ExistsBijection(A, M)
    BY <1>7 DEF ExistsBijection
  <2>2. ExistsBijection(M, A)
    BY <2>1, Fun_ExistsBijSymmetric
  <2>3. QED
    BY <2>1, <2>2, FS_Bijection
<1> HIDE DEF A, M, move
<1>9. CASE x \in S
  <2>1. At(g, S) = M \cup {<<t, 1>>}
    BY <1>5, <1>9
  <2>2. IsFiniteSet(At(g, S)) => IsFiniteSet(M)
    <3>1. M \in SUBSET At(g, S)
      BY <2>1
    <3>2. QED
      BY <3>1, FS_Subset
  <2>3. IsFiniteSet(M) => /\ IsFiniteSet(At(g, S))
                          /\ Cardinality(At(g, S)) = Cardinality(M) + 1
    BY <1>6, <2>1, FS_AddElement
  <2>4. QED
    BY <1>8, <1>9, <2>2, <2>3 DEF A, g, c, q, OneMore, N, One
<1>10. CASE x \notin S
  <2>1. At(g, S) = M
    BY <1>5, <1>10
  <2>2. IsFiniteSet(A) => Cardinality(A) \in Nat
    BY FS_CardinalityType
  <2>3. QED
    BY <1>8, <1>10, <2>1, <2>2 DEF A, g, c, q, OneMore, N, One
<1>11. QED
  BY <1>9, <1>10

\* One for a step of the kind S, zero for another one.
LEMMA OneIs ==
  ASSUME NEW x, NEW S
  PROVE  /\ One(x, S) \in {0, 1}
         /\ x \in S => One(x, S) = 1
         /\ x \notin S => One(x, S) = 0
  BY DEF One

\* The count of a kind of steps when thread t does the first of its steps and
\* goes on with others.
LEMMA Counts ==
  ASSUME NEW f \in [Threads -> Seq(Steps)], NEW t \in Threads, NEW q \in Seq(Steps),
         NEW h \in Steps, f[t] = Cons(h, q),
         NEW S, IsFiniteSet(At(f, S)), NEW x \in Steps, NEW y \in Steps
  PROVE  /\ Recounted(f, [f EXCEPT ![t] = q], S, One(h, S), 0)
         /\ Recounted(f, [f EXCEPT ![t] = Cons(x, q)], S, One(h, S), One(x, S))
         /\ Recounted(f, [f EXCEPT ![t] = Cons(x, Cons(y, q))], S,
                      One(h, S), One(x, S) + One(y, S))
<1> DEFINE g == [f EXCEPT ![t] = q]
<1>1. g \in [Threads -> Seq(Steps)] /\ g[t] = q
  OBVIOUS
<1>2. /\ [g EXCEPT ![t] = Cons(h, g[t])] = f
      /\ [g EXCEPT ![t] = Cons(y, g[t])] = [f EXCEPT ![t] = Cons(y, q)]
      /\ [g EXCEPT ![t] = Cons(x, g[t])] = [f EXCEPT ![t] = Cons(x, q)]
  OBVIOUS
<1> DEFINE k == [f EXCEPT ![t] = Cons(y, q)]
<1>3. Cons(y, q) \in Seq(Steps)
  BY ConsIs
<1>4. /\ k \in [Threads -> Seq(Steps)] /\ k[t] = Cons(y, q)
      /\ [k EXCEPT ![t] = Cons(x, k[t])] = [f EXCEPT ![t] = Cons(x, Cons(y, q))]
  BY <1>3
<1> HIDE DEF g, k
<1>5. IsFiniteSet(At(g, S)) /\ N(f, S) = N(g, S) + One(h, S)
  <2>1. OneMore(g, f, h, S)
    BY <1>1, <1>2, AtPush
  <2>2. QED
    BY <2>1 DEF OneMore
<1>6. IsFiniteSet(At(k, S)) /\ N(k, S) = N(g, S) + One(y, S)
  <2>1. OneMore(g, k, y, S)
    BY <1>1, <1>2, AtPush DEF k
  <2>2. QED
    BY <1>5, <2>1 DEF OneMore
<1>7. /\ IsFiniteSet(At([f EXCEPT ![t] = Cons(x, q)], S))
      /\ N([f EXCEPT ![t] = Cons(x, q)], S) = N(g, S) + One(x, S)
  <2>1. OneMore(g, [f EXCEPT ![t] = Cons(x, q)], x, S)
    BY <1>1, <1>2, AtPush
  <2>2. QED
    BY <1>5, <2>1 DEF OneMore
<1>8. /\ IsFiniteSet(At([f EXCEPT ![t] = Cons(x, Cons(y, q))], S))
      /\ N([f EXCEPT ![t] = Cons(x, Cons(y, q))], S) = N(k, S) + One(x, S)
  <2>1. OneMore(k, [f EXCEPT ![t] = Cons(x, Cons(y, q))], x, S)
    BY <1>4, AtPush
  <2>2. QED
    BY <1>6, <2>1 DEF OneMore
<1>9. /\ N(f, S) \in Nat /\ N(g, S) \in Nat
      /\ One(h, S) \in Nat /\ One(x, S) \in Nat /\ One(y, S) \in Nat
  BY <1>5, FS_CardinalityType DEF N, One
<1>10. Recounted(f, g, S, One(h, S), 0)
  BY <1>5, <1>9 DEF Recounted
<1>11. Recounted(f, [f EXCEPT ![t] = Cons(x, q)], S, One(h, S), One(x, S))
  BY <1>5, <1>7, <1>9 DEF Recounted
<1>12. Recounted(f, [f EXCEPT ![t] = Cons(x, Cons(y, q))], S, One(h, S), One(x, S) + One(y, S))
  BY <1>5, <1>6, <1>8, <1>9 DEF Recounted
<1>13. QED
  BY <1>10, <1>11, <1>12 DEF g

\* The count of a kind of steps when thread t, which had nothing to do, is
\* called.
LEMMA CountsOfCall ==
  ASSUME NEW f \in [Threads -> Seq(Steps)], NEW t \in Threads, f[t] = <<>>,
         NEW S, IsFiniteSet(At(f, S)),
         NEW x \in Steps, NEW y \in Steps, NEW z \in Steps
  PROVE  /\ Recounted(f, [f EXCEPT ![t] = <<x>>], S, 0, One(x, S))
         /\ Recounted(f, [f EXCEPT ![t] = <<x, y>>], S, 0, One(x, S) + One(y, S))
         /\ Recounted(f, [f EXCEPT ![t] = <<x, y, z>>], S, 0,
                      One(x, S) + One(y, S) + One(z, S))
<1>1. ASSUME NEW v \in Steps
      PROVE  LET g == [f EXCEPT ![t] = <<v>>]
             IN  /\ g \in [Threads -> Seq(Steps)] /\ g[t] = Cons(v, <<>>)
                 /\ IsFiniteSet(At(g, S)) /\ N(g, S) = N(f, S) + One(v, S)
  <2>1. <<v>> \in Seq(Steps) /\ <<v>> = Cons(v, <<>>)
    BY Listed
  <2>2. [f EXCEPT ![t] = <<v>>] = [f EXCEPT ![t] = Cons(v, f[t])]
    BY <2>1
  <2>3. OneMore(f, [f EXCEPT ![t] = <<v>>], v, S)
    BY <2>2, AtPush
  <2>4. QED
    BY <2>1, <2>3 DEF OneMore
<1> DEFINE g == [f EXCEPT ![t] = <<z>>]
<1>2. /\ <<>> \in Seq(Steps)
      /\ <<x, y>> = Cons(x, Cons(y, <<>>))
      /\ <<x, y, z>> = Cons(x, Cons(y, Cons(z, <<>>)))
  BY Listed
<1>3. N(f, S) \in Nat /\ One(x, S) \in Nat /\ One(y, S) \in Nat /\ One(z, S) \in Nat
  BY FS_CardinalityType DEF N, One
<1>4. /\ IsFiniteSet(At([f EXCEPT ![t] = <<x, y>>], S))
      /\ N([f EXCEPT ![t] = <<x, y>>], S) = N(f, S) + One(x, S) + One(y, S)
  <2> DEFINE k == [f EXCEPT ![t] = <<y>>]
  <2>1. /\ k \in [Threads -> Seq(Steps)] /\ k[t] = Cons(y, <<>>)
        /\ IsFiniteSet(At(k, S)) /\ N(k, S) = N(f, S) + One(y, S)
    BY <1>1
  <2>2. [k EXCEPT ![t] = Cons(x, k[t])] = [f EXCEPT ![t] = <<x, y>>]
    BY <1>2, <2>1
  <2> HIDE DEF k
  <2>3. /\ IsFiniteSet(At([f EXCEPT ![t] = <<x, y>>], S))
        /\ N([f EXCEPT ![t] = <<x, y>>], S) = N(k, S) + One(x, S)
    <3>1. OneMore(k, [f EXCEPT ![t] = <<x, y>>], x, S)
      BY <2>1, <2>2, AtPush
    <3>2. QED
      BY <2>1, <3>1 DEF OneMore
  <2>4. QED
    BY <1>3, <2>1, <2>3
<1>5. /\ IsFiniteSet(At([f EXCEPT ![t] = <<x, y, z>>], S))
      /\ N([f EXCEPT ![t] = <<x, y, z>>], S)
           = N(f, S) + One(x, S) + One(y, S) + One(z, S)
  <2> DEFINE k == [f EXCEPT ![t] = <<z>>]
             j == [f EXCEPT ![t] = Cons(y, Cons(z, <<>>))]
  <2>1. /\ k \in [Threads -> Seq(Steps)] /\ k[t] = Cons(z, <<>>)
        /\ IsFiniteSet(At(k, S)) /\ N(k, S) = N(f, S) + One(z, S)
    BY <1>1
  <2>2. Cons(z, <<>>) \in Seq(Steps) /\ Cons(y, Cons(z, <<>>)) \in Seq(Steps)
    BY <1>2, ConsIs
  <2>3. /\ [k EXCEPT ![t] = Cons(y, k[t])] = j
        /\ j \in [Threads -> Seq(Steps)]
        /\ [j EXCEPT ![t] = Cons(x, j[t])] = [f EXCEPT ![t] = <<x, y, z>>]
    BY <1>2, <2>1, <2>2
  <2> HIDE DEF k, j
  <2>4. IsFiniteSet(At(j, S)) /\ N(j, S) = N(k, S) + One(y, S)
    <3>1. OneMore(k, j, y, S)
      BY <2>1, <2>3, AtPush
    <3>2. QED
      BY <2>1, <3>1 DEF OneMore
  <2>5. /\ IsFiniteSet(At([f EXCEPT ![t] = <<x, y, z>>], S))
        /\ N([f EXCEPT ![t] = <<x, y, z>>], S) = N(j, S) + One(x, S)
    <3>1. OneMore(j, [f EXCEPT ![t] = <<x, y, z>>], x, S)
      BY <2>3, AtPush
    <3>2. QED
      BY <2>4, <3>1 DEF OneMore
  <2>6. QED
    BY <1>3, <2>1, <2>4, <2>5
<1>6. Recounted(f, [f EXCEPT ![t] = <<x>>], S, 0, One(x, S))
  <2>1. /\ IsFiniteSet(At([f EXCEPT ![t] = <<x>>], S))
        /\ N([f EXCEPT ![t] = <<x>>], S) = N(f, S) + One(x, S)
    BY <1>1
  <2> DEFINE k == [f EXCEPT ![t] = <<x>>]
  <2>2. IsFiniteSet(At(k, S)) /\ N(k, S) = N(f, S) + One(x, S)
    BY <2>1
  <2> HIDE DEF k
  <2>3. Recounted(f, k, S, 0, One(x, S))
    BY <1>3, <2>2 DEF Recounted
  <2>4. QED
    BY <2>3 DEF k
<1>7. Recounted(f, [f EXCEPT ![t] = <<x, y>>], S, 0, One(x, S) + One(y, S))
  BY <1>3, <1>4 DEF Recounted
<1>8. Recounted(f, [f EXCEPT ![t] = <<x, y, z>>], S, 0, One(x, S) + One(y, S) + One(z, S))
  BY <1>3, <1>5 DEF Recounted
<1>9. QED
  BY <1>6, <1>7, <1>8

\* A step that is somewhere is counted.
LEMMA CountedOnce ==
  ASSUME NEW f, NEW S, IsFiniteSet(At(f, S)), NEW t \in Threads, NEW k \in DOMAIN f[t],
         f[t][k] \in S
  PROVE  /\ N(f, S) \in Nat /\ N(f, S) >= 1
         /\ \A u \in Threads : \A j \in DOMAIN f[u] :
              f[u][j] \in S /\ N(f, S) <= 1 => u = t /\ j = k
<1>1. <<t, k>> \in At(f, S)
  BY AtIs
<1>2. N(f, S) \in Nat /\ N(f, S) # 0
  BY <1>1, FS_EmptySet, FS_CardinalityType DEF N
<1>3. ASSUME NEW u \in Threads, NEW j \in DOMAIN f[u], f[u][j] \in S, N(f, S) <= 1
      PROVE  u = t /\ j = k
  <2>1. <<u, j>> \in At(f, S)
    BY <1>3, AtIs
  <2>2. N(f, S) = 1
    BY <1>2, <1>3
  <2>3. \E z : At(f, S) = {z}
    BY <2>2, FS_Singleton DEF N
  <2>4. <<u, j>> = <<t, k>>
    BY <1>1, <2>1, <2>3
  <2>5. QED
    BY <2>4
<1>4. QED
  BY <1>2, <1>3

\* The pointers at an endpoint when one of them is set.
LEMMA PointsMove ==
  ASSUME NEW p \in [Endpoints -> Endpoints \cup {Null}], NEW a \in Endpoints,
         NEW v, NEW e, IsFiniteSet(PointsAt(p, e))
  PROVE  Repointed(p, [p EXCEPT ![a] = v], e, One(p[a], {e}), One(v, {e}))
<1> USE DEF Repointed
<1> DEFINE r == [p EXCEPT ![a] = v]
<1>1. Cardinality(PointsAt(p, e)) \in Nat
  BY FS_CardinalityType
<1>2. CASE p[a] = e /\ v = e
  <2>1. PointsAt(r, e) = PointsAt(p, e)
    BY <1>2 DEF PointsAt
  <2>2. QED
    BY <1>2, <2>1
<1>3. CASE p[a] # e /\ v # e
  <2>1. PointsAt(r, e) = PointsAt(p, e)
    BY <1>3 DEF PointsAt
  <2>2. QED
    BY <1>1, <1>3, <2>1 DEF One
<1>4. CASE p[a] = e /\ v # e
  <2>1. PointsAt(r, e) = PointsAt(p, e) \ {a} /\ a \in PointsAt(p, e)
    BY <1>4 DEF PointsAt
  <2>2. /\ IsFiniteSet(PointsAt(r, e))
        /\ Cardinality(PointsAt(r, e)) = Cardinality(PointsAt(p, e)) - 1
    BY <2>1, FS_RemoveElement
  <2>3. QED
    BY <1>1, <1>4, <2>2 DEF One
<1>5. CASE p[a] # e /\ v = e
  <2>1. PointsAt(r, e) = PointsAt(p, e) \cup {a} /\ a \notin PointsAt(p, e)
    BY <1>5 DEF PointsAt
  <2>2. /\ IsFiniteSet(PointsAt(r, e))
        /\ Cardinality(PointsAt(r, e)) = Cardinality(PointsAt(p, e)) + 1
    <3> DEFINE P == PointsAt(p, e)
    <3>1. a \notin P /\ IsFiniteSet(P) /\ PointsAt(r, e) = P \cup {a}
      BY <2>1
    <3> HIDE DEF P
    <3>2. IsFiniteSet(P \cup {a}) /\ Cardinality(P \cup {a}) = Cardinality(P) + 1
      BY <3>1, FS_AddElement
    <3>3. QED
      BY <3>1, <3>2 DEF P
  <2>3. QED
    BY <1>1, <1>5, <2>2 DEF One
<1>6. QED
  BY <1>2, <1>3, <1>4, <1>5

\* Of which kinds a step is.
LEMMA KindsAre ==
  ASSUME NEW s \in Steps, NEW e \in Endpoints
  PROVE  /\ s \in HoldOf(e) <=> Holds(s, e)
         /\ s \in FreeOf(e) <=> s.at = "free" /\ s.e = e
  BY DEF HoldOf, FreeOf

\* The steps on a stack, with those that are pushed.
LEMMA StepsPushed ==
  /\ \A q \in Seq(Steps) : <<>> \o q = q
  /\ \A x \in Steps : \A q \in Seq(Steps) :
        <<x>> \o q = Cons(x, q) /\ Items(Cons(x, q)) = {x} \cup Items(q)
  /\ \A x \in Steps : \A y \in Steps : \A q \in Seq(Steps) :
        <<x, y>> \o q = Cons(x, Cons(y, q))
<1>1. ASSUME NEW q \in Seq(Steps), NEW x \in Steps, NEW y \in Steps
      PROVE  <<>> \o q = q /\ <<x>> \o q = Cons(x, q) /\ <<x, y>> \o q = Cons(x, Cons(y, q))
  BY Pushed
<1>2. ASSUME NEW q \in Seq(Steps), NEW x \in Steps
      PROVE  Items(Cons(x, q)) = {x} \cup Items(q)
  BY ItemsAre
<1>3. \A q \in Seq(Steps) : <<>> \o q = q
  OBVIOUS
<1>4. QED
  BY <1>1, <1>2, <1>3

(***************************************************************************)
(* The step of a thread.                                                   *)
(***************************************************************************)

\* The step a thread is at and those that wait.
LEMMA TurnOf ==
  ASSUME Types, Stacks, NEW t \in Threads, todo[t] # <<>>,
         NEW h, h = Head(todo[t]), NEW q, q = Tail(todo[t])
  PROVE  /\ h \in Steps /\ h \in Good /\ OnTop(h, q) /\ Rest(q) /\ q \in Seq(Steps)
         /\ todo[t] = Cons(h, q) /\ Items(todo[t]) = {h} \cup Items(q)
         /\ \A y \in Items(q) : y \in Steps /\ y \in Good /\ y.at \in Below
<1>1. todo[t] \in Seq(Steps)
  BY DEF Types
<1>2. h \in Steps /\ q \in Seq(Steps) /\ todo[t] = Cons(h, q)
  BY <1>1, ConsAll
<1>3. OnTop(h, q) /\ Rest(q)
  BY DEF Stacks, Stack
<1>4. Items(todo[t]) = {h} \cup Items(q)
  <2>1. Items(Cons(h, q)) = {h} \cup Items(q)
    BY <1>2, StepsPushed
  <2>2. QED
    BY <1>2, <2>1
<1>5. \A y \in Items(q) : y \in Good /\ y.at \in Below
  BY <1>3 DEF Rest, Items
<1>6. h \in Good
  BY <1>3 DEF OnTop
<1>7. QED
  BY <1>2, <1>3, <1>4, <1>5, <1>6 DEF Good

\* The stacks of all threads when one of them has a new one.
LEMMA StacksKept ==
  ASSUME Types, Stacks, NEW t \in Threads, NEW s, Stack(s),
         todo' = [todo EXCEPT ![t] = s]
  PROVE  /\ Stacks' /\ todo' \in [Threads -> Seq(Steps)]
         /\ todo'[t] = s /\ \A u \in Threads \ {t} : todo'[u] = todo[u]
<1>1. s \in Seq(Steps)
  BY DEF Stack
<1>2. /\ todo' \in [Threads -> Seq(Steps)]
      /\ todo'[t] = s /\ \A u \in Threads \ {t} : todo'[u] = todo[u]
  BY <1>1 DEF Types
<1>3. \A u \in Threads : Stack(todo'[u])
  BY <1>2 DEF Stacks
<1>4. QED
  BY <1>2, <1>3 DEF Stacks


(***************************************************************************)
(* What an action does to the counts: the step h is done and up to three   *)
(* others come, where Nil is no step.                                      *)
(***************************************************************************)
Nil == CHOOSE n : n \notin Steps

Sum(S, x, y, z) == One(x, S) + One(y, S) + One(z, S)

Moved(h, x, y, z) ==
    \A S \in SUBSET Steps : Recounted(todo, todo', S, One(h, S), Sum(S, x, y, z))

\* How much a step adds to what a owes b.
Weight(s, a, b) == One(s, SetOf(b, a)) + One(s, TakenOf(a, b))

\* Nil is no step.
LEMMA NilIs ==
  /\ Nil \notin Steps
  /\ \A S \in SUBSET Steps : One(Nil, S) = 0
<1>1. \E n : n \notin Steps
  BY NoSetContainsEverything
<1>2. Nil \notin Steps
  BY <1>1 DEF Nil
<1>3. QED
  BY <1>2 DEF One

\* The kinds are sets of steps.
LEMMA KindsOfSteps ==
  ASSUME NEW a, NEW b
  PROVE  /\ HoldOf(a) \in SUBSET Steps /\ FreeOf(a) \in SUBSET Steps
         /\ SetOf(a, b) \in SUBSET Steps /\ TakenOf(a, b) \in SUBSET Steps
BY DEF HoldOf, FreeOf, SetOf, TakenOf

\* There are finitely many steps of a kind.
LEMMA FewSteps ==
  ASSUME Types, NEW S \in SUBSET Steps
  PROVE  IsFiniteSet(At(todo, S)) /\ N(todo, S) \in Nat
<1>1. At(todo, S) \subseteq At(todo, Steps)
  BY DEF At
<1>2. IsFiniteSet(At(todo, S))
  BY <1>1, FS_Subset DEF Types
<1>3. QED
  BY <1>2, FS_CardinalityType DEF N

\* How a step counts, by what it does.
LEMMA KindOnes ==
  ASSUME NEW s \in Steps, NEW e \in Endpoints
  PROVE  /\ s.at \in {"check", "look", "lock", "free"} => One(s, HoldOf(e)) = 0
         /\ s.at \in {"peerref", "setpeer", "deref"} => One(s, HoldOf(e)) = One(s.e, {e})
         /\ s.at = "clear" => One(s, HoldOf(e)) = One(s.with, {e})
         /\ s.at = "point" /\ s.e # s.with
              => One(s, HoldOf(e)) = One(s.e, {e}) + One(s.with, {e})
         /\ s.at # "free" => One(s, FreeOf(e)) = 0
         /\ s.at = "free" => One(s, FreeOf(e)) = One(s.e, {e})
<1>1. /\ s \in HoldOf(e) <=> Holds(s, e)
      /\ s \in FreeOf(e) <=> s.at = "free" /\ s.e = e
  BY KindsAre
<1>2. QED
  BY <1>1 DEF One, Holds

\* Only the halves of a connect and of a disconnect stand for a pointer.
LEMMA Weights ==
  ASSUME NEW a \in Endpoints, NEW b \in Endpoints
  PROVE  /\ Weight(Nil, a, b) = 0
         /\ \A s \in Steps :
              /\ Weight(s, a, b) \in Nat
              /\ s.at \notin {"setpeer", "clear"} => Weight(s, a, b) = 0
              /\ s.at = "setpeer" =>
                   Weight(s, a, b) = IF s.e = b /\ s.with = a THEN 1 ELSE 0
              /\ s.at = "clear" =>
                   Weight(s, a, b) = IF s.e = a /\ s.with = b THEN 1 ELSE 0
<1>1. One(Nil, SetOf(b, a)) = 0 /\ One(Nil, TakenOf(a, b)) = 0
  BY NilIs, KindsOfSteps
<1>2. ASSUME NEW s \in Steps
      PROVE  /\ s \in SetOf(b, a) <=> s.at = "setpeer" /\ s.e = b /\ s.with = a
             /\ s \in TakenOf(a, b) <=> s.at = "clear" /\ s.e = a /\ s.with = b
  BY DEF SetOf, TakenOf
<1>3. QED
  BY <1>1, <1>2 DEF Weight, One

\* The steps go as a thread goes on.
LEMMA TurnMoves ==
  ASSUME Types, Stacks, NEW t \in Threads, todo[t] # <<>>, NEW h, h = Head(todo[t]),
         NEW q, q = Tail(todo[t]), NEW x \in Steps, NEW y \in Steps
  PROVE  /\ todo' = [todo EXCEPT ![t] = q] => Moved(h, Nil, Nil, Nil)
         /\ todo' = [todo EXCEPT ![t] = Cons(x, q)] => Moved(h, x, Nil, Nil)
         /\ todo' = [todo EXCEPT ![t] = Cons(x, Cons(y, q))] => Moved(h, x, y, Nil)
<1> DEFINE f0 == [todo EXCEPT ![t] = q]
           f1 == [todo EXCEPT ![t] = Cons(x, q)]
           f2 == [todo EXCEPT ![t] = Cons(x, Cons(y, q))]
<1>1. ASSUME NEW S \in SUBSET Steps
      PROVE  /\ Recounted(todo, f0, S, One(h, S), Sum(S, Nil, Nil, Nil))
             /\ Recounted(todo, f1, S, One(h, S), Sum(S, x, Nil, Nil))
             /\ Recounted(todo, f2, S, One(h, S), Sum(S, x, y, Nil))
  <2>1. IsFiniteSet(At(todo, S))
    BY FewSteps
  <2>2. /\ todo \in [Threads -> Seq(Steps)] /\ h \in Steps /\ q \in Seq(Steps)
        /\ todo[t] = Cons(h, q)
    BY TurnOf DEF Types
  <2>3. /\ Recounted(todo, f0, S, One(h, S), 0)
        /\ Recounted(todo, f1, S, One(h, S), One(x, S))
        /\ Recounted(todo, f2, S, One(h, S), One(x, S) + One(y, S))
    BY <2>1, <2>2, Counts
  <2>4. /\ Sum(S, Nil, Nil, Nil) = 0 /\ Sum(S, x, Nil, Nil) = One(x, S)
        /\ Sum(S, x, y, Nil) = One(x, S) + One(y, S)
    BY NilIs, OneIs DEF Sum
  <2> HIDE DEF f0, f1, f2
  <2>5. QED
    BY <2>3, <2>4
<1> HIDE DEF f0, f1, f2
<1>2. /\ todo' = f0 => Moved(h, Nil, Nil, Nil)
      /\ todo' = f1 => Moved(h, x, Nil, Nil)
      /\ todo' = f2 => Moved(h, x, y, Nil)
  BY <1>1 DEF Moved
<1>3. QED
  BY <1>2 DEF f0, f1, f2

\* The steps of a call come.
LEMMA CallMoves ==
  ASSUME Types, NEW t \in Threads, todo[t] = <<>>,
         NEW x \in Steps, NEW y \in Steps, NEW z \in Steps
  PROVE  /\ todo' = [todo EXCEPT ![t] = <<x>>] => Moved(Nil, x, Nil, Nil)
         /\ todo' = [todo EXCEPT ![t] = <<x, y>>] => Moved(Nil, x, y, Nil)
         /\ todo' = [todo EXCEPT ![t] = <<x, y, z>>] => Moved(Nil, x, y, z)
<1> DEFINE f1 == [todo EXCEPT ![t] = <<x>>]
           f2 == [todo EXCEPT ![t] = <<x, y>>]
           f3 == [todo EXCEPT ![t] = <<x, y, z>>]
<1>1. ASSUME NEW S \in SUBSET Steps
      PROVE  /\ Recounted(todo, f1, S, One(Nil, S), Sum(S, x, Nil, Nil))
             /\ Recounted(todo, f2, S, One(Nil, S), Sum(S, x, y, Nil))
             /\ Recounted(todo, f3, S, One(Nil, S), Sum(S, x, y, z))
  <2>1. IsFiniteSet(At(todo, S)) /\ todo \in [Threads -> Seq(Steps)]
    BY FewSteps DEF Types
  <2>2. /\ Recounted(todo, f1, S, 0, One(x, S))
        /\ Recounted(todo, f2, S, 0, One(x, S) + One(y, S))
        /\ Recounted(todo, f3, S, 0, One(x, S) + One(y, S) + One(z, S))
    BY <2>1, CountsOfCall
  <2>3. /\ One(Nil, S) = 0 /\ Sum(S, x, Nil, Nil) = One(x, S)
        /\ Sum(S, x, y, Nil) = One(x, S) + One(y, S)
        /\ Sum(S, x, y, z) = One(x, S) + One(y, S) + One(z, S)
    BY NilIs, OneIs DEF Sum
  <2> HIDE DEF f1, f2, f3
  <2>4. QED
    BY <2>2, <2>3
<1> HIDE DEF f1, f2, f3
<1>2. /\ todo' = f1 => Moved(Nil, x, Nil, Nil)
      /\ todo' = f2 => Moved(Nil, x, y, Nil)
      /\ todo' = f3 => Moved(Nil, x, y, z)
  BY <1>1 DEF Moved
<1>3. QED
  BY <1>2 DEF f1, f2, f3

(***************************************************************************)
(* Each part of the invariant after an action, from the change of the      *)
(* counts.                                                                 *)
(***************************************************************************)

\* The counter of d changes as its references do, of which so many are pointers
\* that go and that come.
Accounts(d, h, x, y, z, gone, come) ==
    refs'[d] + One(d, owned) + One(h, HoldOf(d)) + gone
      = refs[d] + One(d, owned') + Sum(HoldOf(d), x, y, z) + come

\* d dies as its deletion comes, and is deleted as that goes.
Buries(d, h, x, y, z) ==
    One(refs'[d], {0}) + One(d, freed) + One(h, FreeOf(d))
      = One(refs[d], {0}) + One(d, freed') + Sum(FreeOf(d), x, y, z)

\* What a owes b changes as what b owes a.
Evens(a, b, h, x, y, z) ==
    One(peer'[a], {b}) + One(peer[b], {a})
        + Weight(x, a, b) + Weight(y, a, b) + Weight(z, a, b) + Weight(h, b, a)
      = One(peer'[b], {a}) + One(peer[a], {b})
        + Weight(x, b, a) + Weight(y, b, a) + Weight(z, b, a) + Weight(h, a, b)

\* The counter of an endpoint still is the number of its references.
LEMMA CountedKept ==
  ASSUME Types, NEW d \in Endpoints, CountedAt(d), NEW h, NEW x, NEW y, NEW z,
         Moved(h, x, y, z), NEW gone \in Nat, NEW come \in Nat,
         Repointed(peer, peer', d, gone, come),
         refs'[d] \in Nat, Accounts(d, h, x, y, z, gone, come)
  PROVE  CountedAt(d)'
<1> DEFINE S == HoldOf(d)
           o == One(d, owned)  o1 == One(d, owned')  r == refs[d]  k == refs'[d]
           p == Cardinality(PointsAt(peer, d))  p1 == Cardinality(PointsAt(peer', d))
           n == N(todo, S)  n1 == N(todo', S)  g == One(h, S)  m == Sum(S, x, y, z)
<1>1. n \in Nat /\ n1 \in Nat /\ n1 + g = n + m
  <2>1. S \in SUBSET Steps
    BY KindsOfSteps
  <2>2. QED
    BY <2>1 DEF Moved, Recounted
<1>2. IsFiniteSet(PointsAt(peer, d)) /\ r = o + p + n
  BY DEF CountedAt
<1>3. IsFiniteSet(PointsAt(peer', d)) /\ p1 + gone = p + come
  BY DEF Repointed
<1>4. /\ o \in Nat /\ o1 \in Nat /\ r \in Nat /\ k \in Nat /\ p \in Nat /\ p1 \in Nat
      /\ g \in Nat /\ m \in Nat
  BY <1>2, <1>3, FS_CardinalityType DEF Types, One, Sum
<1>5. k + o + g + gone = r + o1 + m + come
  BY DEF Accounts
<1> HIDE DEF o, o1, r, k, p, p1, n, n1, g, m
<1>6. k = o1 + p1 + n1
  BY <1>1, <1>2, <1>3, <1>4, <1>5
<1>7. QED
  BY <1>3, <1>6 DEF CountedAt, S, k, o1, p1, n1

\* Of two endpoints none owes the other one more.
LEMMA BalanceKept ==
  ASSUME Types, NEW a \in Endpoints, NEW b \in Endpoints, Owes(a, b) = Owes(b, a),
         NEW h, NEW x, NEW y, NEW z, Moved(h, x, y, z), Evens(a, b, h, x, y, z)
  PROVE  (Owes(a, b) = Owes(b, a))'
<1>1. ASSUME NEW c \in Endpoints, NEW d \in Endpoints
      PROVE  Owes(c, d)' + One(peer[c], {d}) + Weight(h, c, d)
               = Owes(c, d) + One(peer'[c], {d})
                 + Weight(x, c, d) + Weight(y, c, d) + Weight(z, c, d)
  <2> DEFINE S == SetOf(d, c)  C == TakenOf(c, d)
             s == N(todo, S)  s1 == N(todo', S)  k == N(todo, C)  k1 == N(todo', C)
             p == One(peer[c], {d})  p1 == One(peer'[c], {d})
             sh == One(h, S)  sx == One(x, S)  sy == One(y, S)  sz == One(z, S)
             kh == One(h, C)  kx == One(x, C)  ky == One(y, C)  kz == One(z, C)
  <2>1. /\ s \in Nat /\ s1 \in Nat /\ s1 + sh = s + (sx + sy + sz)
        /\ k \in Nat /\ k1 \in Nat /\ k1 + kh = k + (kx + ky + kz)
    <3>1. S \in SUBSET Steps /\ C \in SUBSET Steps
      BY KindsOfSteps
    <3>2. QED
      BY <3>1 DEF Moved, Recounted, Sum
  <2>2. /\ p \in Nat /\ p1 \in Nat /\ sh \in Nat /\ sx \in Nat /\ sy \in Nat /\ sz \in Nat
        /\ kh \in Nat /\ kx \in Nat /\ ky \in Nat /\ kz \in Nat
    BY DEF One
  <2>3. /\ Owes(c, d) = p + s + k /\ Owes(c, d)' = p1 + s1 + k1
        /\ Weight(h, c, d) = sh + kh /\ Weight(x, c, d) = sx + kx
        /\ Weight(y, c, d) = sy + ky /\ Weight(z, c, d) = sz + kz
    BY DEF Owes, Weight
  <2> HIDE DEF s, s1, k, k1, p, p1, sh, sx, sy, sz, kh, kx, ky, kz
  <2>4. p1 + s1 + k1 + p + (sh + kh)
          = p + s + k + p1 + (sx + kx) + (sy + ky) + (sz + kz)
    BY <2>1, <2>2
  <2>5. QED
    BY <2>3, <2>4 DEF p, p1
<1>2. ASSUME NEW c \in Endpoints, NEW d \in Endpoints
      PROVE  Owes(c, d) \in Nat /\ Owes(c, d)' \in Nat
  <2>1. SetOf(d, c) \in SUBSET Steps /\ TakenOf(c, d) \in SUBSET Steps
    BY KindsOfSteps
  <2>2. /\ N(todo, SetOf(d, c)) \in Nat /\ N(todo', SetOf(d, c)) \in Nat
        /\ N(todo, TakenOf(c, d)) \in Nat /\ N(todo', TakenOf(c, d)) \in Nat
    BY <2>1 DEF Moved, Recounted
  <2>3. One(peer[c], {d}) \in Nat /\ One(peer'[c], {d}) \in Nat
    BY DEF One
  <2>4. QED
    BY <2>2, <2>3 DEF Owes
<1>3. ASSUME NEW c, NEW d, NEW s PROVE Weight(s, c, d) \in Nat /\ One(s, c) \in Nat
  BY DEF Weight, One
<1> DEFINE u == Owes(a, b)  v == Owes(b, a)  u1 == Owes(a, b)'  v1 == Owes(b, a)'
           p == One(peer[a], {b})  r == One(peer[b], {a})
           p1 == One(peer'[a], {b})  r1 == One(peer'[b], {a})
           ha == Weight(h, a, b)  xa == Weight(x, a, b)
           ya == Weight(y, a, b)  za == Weight(z, a, b)
           hb == Weight(h, b, a)  xb == Weight(x, b, a)
           yb == Weight(y, b, a)  zb == Weight(z, b, a)
<1>4. /\ u \in Nat /\ v \in Nat /\ u1 \in Nat /\ v1 \in Nat
      /\ p \in Nat /\ r \in Nat /\ p1 \in Nat /\ r1 \in Nat
      /\ ha \in Nat /\ xa \in Nat /\ ya \in Nat /\ za \in Nat
      /\ hb \in Nat /\ xb \in Nat /\ yb \in Nat /\ zb \in Nat
  BY <1>2, <1>3
<1>5. u1 + p + ha = u + p1 + xa + ya + za /\ v1 + r + hb = v + r1 + xb + yb + zb
  BY <1>1
<1>6. u = v /\ p1 + r + xa + ya + za + hb = r1 + p + xb + yb + zb + ha
  BY DEF Evens
<1> HIDE DEF u, v, u1, v1, p, r, p1, r1, ha, xa, ya, za, hb, xb, yb, zb
<1>7. u1 = v1
  BY <1>4, <1>5, <1>6
<1>8. QED
  BY <1>7 DEF u1, v1

\* A dead endpoint is deleted once.
LEMMA DiesKept ==
  ASSUME Types, DiesOnce, NEW h, NEW x, NEW y, NEW z, Moved(h, x, y, z),
         \A d \in Endpoints : Buries(d, h, x, y, z)
  PROVE  DiesOnce'
<1>1. SUFFICES ASSUME NEW d \in Endpoints
               PROVE  N(todo', FreeOf(d)) + One(d, freed') = One(refs'[d], {0})
  BY DEF DiesOnce
<1> DEFINE S == FreeOf(d)
           n == N(todo, S)  n1 == N(todo', S)  f == One(d, freed)  f1 == One(d, freed')
           r == One(refs[d], {0})  r1 == One(refs'[d], {0})
           g == One(h, S)  m == Sum(S, x, y, z)
<1>2. n \in Nat /\ n1 \in Nat /\ n1 + g = n + m
  <2>1. S \in SUBSET Steps
    BY KindsOfSteps
  <2>2. QED
    BY <2>1 DEF Moved, Recounted
<1>3. /\ f \in Nat /\ f1 \in Nat /\ r \in Nat /\ r1 \in Nat /\ g \in Nat /\ m \in Nat
  BY DEF One, Sum
<1>4. n + f = r /\ r1 + f + g = r + f1 + m
  BY DEF DiesOnce, Buries
<1> HIDE DEF n, n1, f, f1, r, r1, g, m
<1>5. n1 + f1 = r1
  BY <1>2, <1>3, <1>4
<1>6. QED
  BY <1>5 DEF n1, f1, r1, S

\* The mutex stays with its thread.
LEMMA MutexKept ==
  ASSUME Types, Stacks, MutexIsHeld, NEW t \in Threads, NEW s, Stack(s),
         todo' = [todo EXCEPT ![t] = s],
         mutex' = mutex, todo[t] # <<>> => Head(todo[t]).at # "clear",
         s # <<>> => Head(s).at # "clear"
  PROVE  MutexIsHeld'
<1>1. todo'[t] = s /\ \A u \in Threads \ {t} : todo'[u] = todo[u]
  BY StacksKept
<1>2. ASSUME NEW u \in Threads
      PROVE  (mutex' = u) <=> (todo'[u] # <<>> /\ Head(todo'[u]).at = "clear")
  <2>1. mutex = u <=> (todo[u] # <<>> /\ Head(todo[u]).at = "clear")
    BY DEF MutexIsHeld, AtStep
  <2>2. CASE u = t
    BY <1>1, <2>1, <2>2
  <2>3. CASE u # t
    BY <1>1, <2>1, <2>3
  <2>4. QED
    BY <2>2, <2>3
<1>3. QED
  BY <1>2 DEF MutexIsHeld, AtStep

\* The steps h, x, y and z account for what else an action does, which moves no
\* pointer and leaves the mutex alone.
Fair(h, x, y, z) ==
    /\ UNCHANGED <<peer, mutex, torn>>
    /\ refs' \in [Endpoints -> Nat] /\ owned' \subseteq Endpoints /\ freed' \subseteq Endpoints
    /\ ~ torn => \A d \in Endpoints : Accounts(d, h, x, y, z, 0, 0)
    /\ \A d \in Endpoints : Buries(d, h, x, y, z)

\* The step does not stand for a pointer.
Pairless(k) == \A a, b \in Endpoints : Weight(k, a, b) = 0

\* What an action keeps that moves no pointer and leaves the mutex alone.
LEMMA QuietKeeps ==
  ASSUME EInv, NEW t \in Threads, NEW s, Stack(s), todo' = [todo EXCEPT ![t] = s],
         todo[t] # <<>> => Head(todo[t]).at # "clear",
         s # <<>> => Head(s).at # "clear",
         NEW h, NEW x, NEW y, NEW z, Moved(h, x, y, z), Fair(h, x, y, z),
         Pairless(h), Pairless(x), Pairless(y), Pairless(z)
  PROVE  EInv'
<1>1. /\ Types /\ Stacks /\ DiesOnce /\ MutexIsHeld
      /\ peer' = peer /\ mutex' = mutex /\ torn' = torn
  BY DEF EInv, Fair
<1>2. /\ refs' \in [Endpoints -> Nat] /\ owned' \subseteq Endpoints /\ freed' \subseteq Endpoints
      /\ ~ torn => \A d \in Endpoints : Accounts(d, h, x, y, z, 0, 0)
      /\ \A d \in Endpoints : Buries(d, h, x, y, z)
  BY DEF Fair
<1>3. Stacks' /\ todo' \in [Threads -> Seq(Steps)]
  BY <1>1, StacksKept
<1>4. IsFiniteSet(At(todo', Steps))
  BY DEF Moved, Recounted
<1>5. Types'
  BY <1>2, <1>1, <1>3, <1>4 DEF Types
<1>6. DiesOnce'
  BY <1>2, <1>1, DiesKept
<1>7. MutexIsHeld'
  BY <1>1, MutexKept
<1>8. ASSUME ~ torn' PROVE Counted' /\ Balanced'
  <2>1. ~ torn /\ Counted /\ Balanced
    BY <1>1, <1>8 DEF EInv
  <2>2. ASSUME NEW d \in Endpoints PROVE CountedAt(d)'
    <3>1. CountedAt(d)
      BY <2>1 DEF Counted
    <3>2. Repointed(peer, peer', d, 0, 0)
      BY <1>1, <3>1 DEF Repointed, CountedAt
    <3>3. refs'[d] \in Nat /\ 0 \in Nat
      BY <1>2
    <3>4. Accounts(d, h, x, y, z, 0, 0)
      BY <1>2, <2>1
    <3>5. QED
      BY <1>1, <3>1, <3>2, <3>3, <3>4, CountedKept
  <2>3. ASSUME NEW a \in Endpoints, NEW b \in Endpoints, a # b
        PROVE  (Owes(a, b) = Owes(b, a))'
    <3>1. Owes(a, b) = Owes(b, a)
      BY <2>1, <2>3 DEF Balanced
    <3>2. /\ Weight(h, a, b) = 0 /\ Weight(x, a, b) = 0
          /\ Weight(y, a, b) = 0 /\ Weight(z, a, b) = 0
          /\ Weight(h, b, a) = 0 /\ Weight(x, b, a) = 0
          /\ Weight(y, b, a) = 0 /\ Weight(z, b, a) = 0
      BY DEF Pairless
    <3>3. One(peer[a], {b}) \in Nat /\ One(peer[b], {a}) \in Nat
      BY DEF One
    <3>4. Evens(a, b, h, x, y, z)
      BY <1>1, <3>2, <3>3 DEF Evens
    <3>5. QED
      BY <1>1, <3>1, <3>4, BalanceKept
  <2>4. Counted'
    BY <2>2 DEF Counted
  <2>5. Balanced'
    BY <2>3 DEF Balanced
  <2>6. QED
    BY <2>4, <2>5
<1>9. QED
  BY <1>3, <1>5, <1>6, <1>7, <1>8 DEF EInv

(***************************************************************************)
(* The actions that move no pointer.                                       *)
(***************************************************************************)

\* What thread t is at.
LEMMA StepsOf ==
  ASSUME NEW s \in Good
  PROVE  /\ s \in Steps /\ s.e \in Endpoints
         /\ s.at \in ConnectAt \cup {"clear"} => s.with \in Endpoints /\ s.with # s.e
         /\ s.at \in ConnectAt => Needs(s) = {s.e, s.with}
         /\ s.at \in DisconnectAt => Needs(s) = {s.e}
         /\ s.at \notin ConnectAt \cup DisconnectAt => Needs(s) = {}
<1>1. ConnectAt \cap DisconnectAt = {}
  BY DEF ConnectAt, DisconnectAt
<1>2. QED
  BY <1>1 DEF Good, Steps, Needs

\* A step of each kind.
LEMMA StepIs ==
  ASSUME NEW e \in Endpoints
  PROVE  /\ \A at \in {"look", "lock", "deref", "free"} :
              LET s == Step(at, e, Null)
              IN  s \in Steps /\ s \in Good /\ s.at = at /\ s.e = e /\ s.with = Null
         /\ \A at \in {"check", "peerref", "point", "setpeer", "clear"} :
              \A p \in Endpoints \ {e} :
                LET s == Step(at, e, p)
                IN  s \in Steps /\ s \in Good /\ s.at = at /\ s.e = e /\ s.with = p
<1>1. ASSUME NEW at \in {"look", "lock", "deref", "free"}
      PROVE  LET s == Step(at, e, Null)
             IN  s \in Steps /\ s \in Good /\ s.at = at /\ s.e = e /\ s.with = Null
  <2> DEFINE s == Step(at, e, Null)
  <2>1. s \in Steps /\ s.at = at /\ s.e = e /\ s.with = Null
    BY DEF Step, Steps
  <2>2. s.at \notin ConnectAt \cup {"clear"}
    BY <2>1 DEF ConnectAt
  <2> HIDE DEF s
  <2>3. s \in Good
    BY <2>1, <2>2 DEF Good
  <2>4. QED
    BY <2>1, <2>3 DEF s
<1>2. ASSUME NEW at \in {"check", "peerref", "point", "setpeer", "clear"},
             NEW p \in Endpoints \ {e}
      PROVE  LET s == Step(at, e, p)
             IN  s \in Steps /\ s \in Good /\ s.at = at /\ s.e = e /\ s.with = p
  <2> DEFINE s == Step(at, e, p)
  <2>1. s \in Steps /\ s.at = at /\ s.e = e /\ s.with = p
    BY DEF Step, Steps
  <2> HIDE DEF s
  <2>2. s \in Good
    BY <2>1 DEF Good, ConnectAt
  <2>3. QED
    BY <2>1, <2>2 DEF s
<1>3. QED
  BY <1>1, <1>2

\* What waits becomes the stack when the step on top is done.
LEMMA OnRest ==
  ASSUME NEW q, Rest(q)
  PROVE  /\ Stack(q) /\ (q # <<>> => Head(q).at # "clear")
         /\ \A x : OnTop(x, q) =>
              /\ x \in Steps /\ Stack(Cons(x, q)) /\ Cons(x, q) # <<>> /\ Head(Cons(x, q)) = x
              /\ x.at \in Below => Rest(Cons(x, q)) /\ Items(Cons(x, q)) = {x} \cup Items(q)
<1>1. Stack(q)
  BY RestIsStack
<1>2. ASSUME q # <<>> PROVE Head(q).at # "clear"
  <2>1. q \in Seq(Steps) /\ 1 \in DOMAIN q /\ q[1] = Head(q)
    BY <1>2 DEF Rest
  <2>2. QED
    BY <2>1 DEF Rest, Below
<1>3. ASSUME NEW x, OnTop(x, q)
      PROVE  /\ x \in Steps /\ Stack(Cons(x, q)) /\ Cons(x, q) # <<>> /\ Head(Cons(x, q)) = x
             /\ x.at \in Below => Rest(Cons(x, q)) /\ Items(Cons(x, q)) = {x} \cup Items(q)
  <2>1. x \in Steps /\ q \in Seq(Steps)
    BY <1>3 DEF OnTop, Good, Rest
  <2>2. Stack(Cons(x, q))
    BY <1>3, StackCons
  <2>3. Cons(x, q) # <<>> /\ Head(Cons(x, q)) = x
    BY <2>1, ConsOfSteps
  <2>4. x.at \in Below => Rest(Cons(x, q))
    BY <1>3, RestCons
  <2>5. Items(Cons(x, q)) = {x} \cup Items(q)
    BY <2>1, StepsPushed
  <2>6. QED
    BY <2>1, <2>2, <2>3, <2>4, <2>5
<1>4. QED
  BY <1>1, <1>2, <1>3

\* A thread goes on with what waited.
LEMMA PopKeeps ==
  ASSUME EInv, NEW t \in Threads, todo[t] # <<>>, NEW h, h = Head(todo[t]),
         h.at \notin {"setpeer", "clear"}, Goes(t, <<>>), Fair(h, Nil, Nil, Nil)
  PROVE  EInv'
<1> DEFINE q == Tail(todo[t])
<1>1. Types /\ Stacks
  BY DEF EInv
<1>2. h \in Steps /\ Rest(q)
  BY <1>1, TurnOf
<1>3. todo' = [todo EXCEPT ![t] = q]
  <2>1. q \in Seq(Steps)
    BY <1>2 DEF Rest
  <2> HIDE DEF q
  <2>2. <<>> \o q = q
    BY <2>1, StepsPushed
  <2>3. QED
    BY <2>2 DEF Goes, q
<1>4. Moved(h, Nil, Nil, Nil)
  BY <1>1, <1>2, <1>3, TurnMoves
<1>5. Stack(q) /\ (q # <<>> => Head(q).at # "clear")
  BY <1>2, OnRest
<1>6. Pairless(h) /\ Pairless(Nil)
  BY <1>2, Weights DEF Pairless
<1> HIDE DEF q
<1>7. QED
  BY <1>3, <1>4, <1>5, <1>6, QuietKeeps

\* A thread goes on with x in place of h.
LEMMA SwapKeeps ==
  ASSUME EInv, NEW t \in Threads, todo[t] # <<>>, NEW h, h = Head(todo[t]),
         NEW x, OnTop(x, Tail(todo[t])),
         {h.at, x.at} \cap {"setpeer", "clear"} = {}, Goes(t, <<x>>), Fair(h, x, Nil, Nil)
  PROVE  EInv'
<1> DEFINE q == Tail(todo[t])  s == Cons(x, q)
<1>1. Types /\ Stacks
  BY DEF EInv
<1>2. h \in Steps /\ Rest(q)
  BY <1>1, TurnOf
<1>3. OnTop(x, q)
  OBVIOUS
<1> HIDE DEF q
<1>4. x \in Steps /\ Stack(s) /\ s # <<>> /\ Head(s) = x
  BY <1>2, <1>3, OnRest
<1>5. todo' = [todo EXCEPT ![t] = s]
  <2>1. q \in Seq(Steps)
    BY <1>2 DEF Rest
  <2>2. <<x>> \o q = s
    BY <1>4, <2>1, StepsPushed
  <2>3. QED
    BY <2>2 DEF Goes, q
<1>6. Moved(h, x, Nil, Nil)
  BY <1>1, <1>4, <1>5, TurnMoves DEF q
<1>7. Pairless(h) /\ Pairless(x) /\ Pairless(Nil)
  BY <1>2, <1>4, Weights DEF Pairless
<1>8. h.at # "clear" /\ Head(s).at # "clear"
  BY <1>4
<1> HIDE DEF s
<1>9. QED
  BY <1>4, <1>5, <1>6, <1>7, <1>8, QuietKeeps

\* A thread goes on with a disconnect of e on top of y, which keeps e.
LEMMA LookAboveKeeps ==
  ASSUME EInv, NEW t \in Threads, todo[t] # <<>>, NEW h, h = Head(todo[t]),
         NEW e \in Endpoints, NEW x, x = Step("look", e, Null),
         NEW y, OnTop(y, Tail(todo[t])), y.at \in Below, y \in CoverOf(e),
         h.at \notin {"setpeer", "clear"}, Goes(t, <<x, y>>), Fair(h, x, y, Nil)
  PROVE  EInv'
<1> DEFINE q == Tail(todo[t])  r == Cons(y, q)  s == Cons(x, r)
<1>1. Types /\ Stacks
  BY DEF EInv
<1>2. h \in Steps /\ Rest(q)
  BY <1>1, TurnOf
<1>3. OnTop(y, q)
  OBVIOUS
<1> HIDE DEF q
<1>4. y \in Steps /\ Rest(r) /\ Items(r) = {y} \cup Items(q)
  BY <1>2, <1>3, OnRest
<1>5. x \in Steps /\ x \in Good /\ x.at = "look" /\ x.e = e
  BY StepIs
<1>6. OnTop(x, r)
  <2>1. Needs(x) = {e}
    BY <1>5, StepsOf DEF DisconnectAt
  <2>2. Items(r) \cap CoverOf(e) # {}
    BY <1>4
  <2>3. QED
    BY <1>5, <2>1, <2>2 DEF OnTop
<1>7. Stack(s) /\ s # <<>> /\ Head(s) = x
  <2> HIDE DEF r
  <2>1. QED
    BY <1>4, <1>6, OnRest
<1>8. todo' = [todo EXCEPT ![t] = s]
  <2>1. q \in Seq(Steps)
    BY <1>2 DEF Rest
  <2>2. <<x, y>> \o q = s
    BY <1>4, <1>5, <2>1, StepsPushed
  <2>3. QED
    BY <2>2 DEF Goes, q
<1>9. Moved(h, x, y, Nil)
  BY <1>1, <1>4, <1>5, <1>8, TurnMoves DEF q
<1>10. Pairless(h) /\ Pairless(x) /\ Pairless(y) /\ Pairless(Nil)
  <2>1. y.at \notin {"setpeer", "clear"} /\ x.at \notin {"setpeer", "clear"}
    BY <1>5 DEF Below
  <2> HIDE DEF r
  <2>2. QED
    BY <1>2, <1>4, <1>5, <2>1, Weights DEF Pairless
<1>11. h.at # "clear" /\ Head(s).at # "clear"
  BY <1>5, <1>7
<1> HIDE DEF s
<1>12. QED
  BY <1>7, <1>8, <1>9, <1>10, <1>11, QuietKeeps

\* Only an endpoint that is alive is referenced.
LEMMA RefAdds ==
  ASSUME Types, NEW a \in Endpoints, Alive(a), Ref(a)
  PROVE  /\ refs' \in [Endpoints -> Nat]
         /\ \A e \in Endpoints : /\ refs'[e] = refs[e] + One(a, {e})
                                 /\ One(refs'[e], {0}) = One(refs[e], {0})
<1>1. refs' \in [Endpoints -> Nat]
  BY DEF Types, Ref
<1>2. ASSUME NEW e \in Endpoints
      PROVE  refs'[e] = refs[e] + One(a, {e}) /\ One(refs'[e], {0}) = One(refs[e], {0})
  <2>1. CASE e = a
    <3>1. refs'[e] = refs[e] + 1 /\ refs[e] \in Nat /\ refs[e] > 0
      BY <2>1 DEF Types, Ref, Alive
    <3>2. One(a, {e}) = 1
      BY <2>1 DEF One
    <3>3. QED
      BY <3>1, <3>2 DEF One
  <2>2. CASE e # a
    <3>1. refs'[e] = refs[e] /\ refs[e] \in Nat
      BY <2>2 DEF Types, Ref
    <3>2. One(a, {e}) = 0
      BY <2>2 DEF One
    <3>3. QED
      BY <3>1, <3>2
  <2>3. QED
    BY <2>1, <2>2
<1>3. QED
  BY <1>1, <1>2

\* The numbers the counts of an endpoint are made of.
LEMMA Numbers ==
  ASSUME Types, NEW d \in Endpoints, NEW h, NEW x \in Steps, NEW y \in Steps
  PROVE  /\ \A S \in {HoldOf(d), FreeOf(d)} :
              /\ Sum(S, Nil, Nil, Nil) = 0
              /\ Sum(S, x, Nil, Nil) = One(x, S)
              /\ Sum(S, x, y, Nil) = One(x, S) + One(y, S)
              /\ One(h, S) \in Nat /\ One(x, S) \in Nat /\ One(y, S) \in Nat
         /\ One(d, owned) \in Nat /\ One(d, freed) \in Nat
         /\ One(refs[d], {0}) \in Nat /\ refs[d] \in Nat
<1>1. ASSUME NEW S \in {HoldOf(d), FreeOf(d)}
      PROVE  /\ Sum(S, Nil, Nil, Nil) = 0
             /\ Sum(S, x, Nil, Nil) = One(x, S)
             /\ Sum(S, x, y, Nil) = One(x, S) + One(y, S)
             /\ One(h, S) \in Nat /\ One(x, S) \in Nat /\ One(y, S) \in Nat
  <2>1. One(Nil, S) = 0
    BY NilIs, KindsOfSteps
  <2>2. One(h, S) \in Nat /\ One(x, S) \in Nat /\ One(y, S) \in Nat
    BY DEF One
  <2>3. QED
    BY <2>1, <2>2 DEF Sum
<1>2. /\ One(d, owned) \in Nat /\ One(d, freed) \in Nat
      /\ One(refs[d], {0}) \in Nat /\ refs[d] \in Nat
  BY DEF Types, One
<1>3. QED
  BY <1>1, <1>2

\* The first check of connect keeps the invariant.
LEMMA CheckKeeps ==
  ASSUME EInv, NEW t \in Threads, Check(t)
  PROVE  EInv'
<1> DEFINE h == Head(todo[t])  q == Tail(todo[t])  a == h.e  b == h.with
           x == Step("look", a, Null)  y == Step("peerref", a, b)
<1>1. todo[t] # <<>> /\ h.at = "check"
  BY DEF Check, AtStep
<1>2. /\ IF peer[a] = b \/ ~ Alive(a) THEN Goes(t, <<>>) /\ refs' = refs
         ELSE Goes(t, <<x, y>>) /\ Ref(a)
      /\ UNCHANGED <<peer, owned, freed, mutex, torn>>
  BY DEF Check
<1>3. Types
  BY DEF EInv
<1>4. h \in Steps /\ h \in Good /\ OnTop(h, q) /\ Rest(q)
  BY <1>1, <1>3, TurnOf DEF EInv
<1> HIDE DEF h, q
<1>5. a \in Endpoints /\ b \in Endpoints \ {a} /\ Needs(h) = {a, b}
  BY <1>1, <1>4, StepsOf DEF ConnectAt
<1> HIDE DEF a, b
<1>6. /\ x \in Steps /\ x.at = "look" /\ y \in Steps /\ y \in Good
      /\ y.at = "peerref" /\ y.e = a /\ y.with = b
  BY <1>5, StepIs
<1>7. \A d \in Endpoints :
        /\ One(h, HoldOf(d)) = 0 /\ One(h, FreeOf(d)) = 0
        /\ One(x, HoldOf(d)) = 0 /\ One(x, FreeOf(d)) = 0
        /\ One(y, HoldOf(d)) = One(a, {d}) /\ One(y, FreeOf(d)) = 0
  BY <1>1, <1>4, <1>6, KindOnes
<1>8. x = Step("look", a, Null)
  OBVIOUS
<1> HIDE DEF x, y
<1>9. ASSUME NEW d \in Endpoints
      PROVE  /\ Sum(HoldOf(d), Nil, Nil, Nil) = 0 /\ Sum(FreeOf(d), Nil, Nil, Nil) = 0
             /\ Sum(HoldOf(d), x, y, Nil) = One(a, {d}) /\ Sum(FreeOf(d), x, y, Nil) = 0
             /\ One(d, owned) \in Nat /\ One(d, freed) \in Nat
             /\ One(refs[d], {0}) \in Nat /\ refs[d] \in Nat /\ One(a, {d}) \in Nat
  <2>1. One(a, {d}) \in Nat
    BY DEF One
  <2>2. QED
    BY <1>3, <1>6, <1>7, <2>1, Numbers
<1>10. CASE peer[a] = b \/ ~ Alive(a)
  <2>1. Goes(t, <<>>) /\ UNCHANGED <<peer, refs, owned, freed, mutex, torn>>
    BY <1>2, <1>10
  <2>2. Fair(h, Nil, Nil, Nil)
    <3>1. ASSUME NEW d \in Endpoints
          PROVE  Accounts(d, h, Nil, Nil, Nil, 0, 0) /\ Buries(d, h, Nil, Nil, Nil)
      BY <1>7, <1>9, <2>1 DEF Accounts, Buries
    <3>2. QED
      BY <1>3, <2>1, <3>1 DEF Fair, Types
  <2>3. QED
    BY <1>1, <2>1, <2>2, PopKeeps DEF h
<1>11. CASE ~ (peer[a] = b \/ ~ Alive(a))
  <2>1. Goes(t, <<x, y>>) /\ Ref(a) /\ Alive(a) /\ UNCHANGED <<peer, owned, freed, mutex, torn>>
    BY <1>2, <1>11
  <2>2. /\ refs' \in [Endpoints -> Nat]
        /\ \A d \in Endpoints : /\ refs'[d] = refs[d] + One(a, {d})
                                /\ One(refs'[d], {0}) = One(refs[d], {0})
    BY <1>3, <1>5, <2>1, RefAdds
  <2>3. Fair(h, x, y, Nil)
    <3>1. ASSUME NEW d \in Endpoints
          PROVE  Accounts(d, h, x, y, Nil, 0, 0) /\ Buries(d, h, x, y, Nil)
      <4>1. owned' = owned /\ freed' = freed
        BY <2>1
      <4>2. refs'[d] = refs[d] + One(a, {d}) /\ One(refs'[d], {0}) = One(refs[d], {0})
        BY <2>2
      <4>3. Accounts(d, h, x, y, Nil, 0, 0)
        BY <1>7, <1>9, <4>1, <4>2 DEF Accounts
      <4>4. Buries(d, h, x, y, Nil)
        BY <1>7, <1>9, <4>1, <4>2 DEF Buries
      <4>5. QED
        BY <4>3, <4>4
    <3>2. QED
      BY <1>3, <2>1, <2>2, <3>1 DEF Fair, Types
  <2>4. OnTop(y, q) /\ y.at \in Below /\ y \in CoverOf(a)
    <3>1. Needs(y) = Needs(h)
      BY <1>5, <1>6, StepsOf DEF ConnectAt
    <3>2. QED
      BY <1>4, <1>6, <3>1 DEF OnTop, Below, CoverOf, HoldOf, Holds
  <2>5. QED
    BY <1>1, <1>5, <1>8, <2>1, <2>3, <2>4, LookAboveKeeps DEF h, q
<1>12. QED
  BY <1>10, <1>11

\* Taking the new peer keeps the invariant.
LEMMA PeerRefKeeps ==
  ASSUME EInv, NEW t \in Threads, PeerRef(t)
  PROVE  EInv'
<1> DEFINE h == Head(todo[t])  q == Tail(todo[t])  a == h.e  b == h.with
           x == Step("look", b, Null)  y == Step("point", a, b)  z == Step("deref", a, Null)
<1>1. todo[t] # <<>> /\ h.at = "peerref"
  BY DEF PeerRef, AtStep
<1>2. /\ IF Alive(b) THEN Goes(t, <<x, y>>) /\ Ref(b) ELSE Goes(t, <<z>>) /\ refs' = refs
      /\ UNCHANGED <<peer, owned, freed, mutex, torn>>
  BY DEF PeerRef
<1>3. Types
  BY DEF EInv
<1>4. h \in Steps /\ h \in Good /\ OnTop(h, q) /\ Rest(q)
  BY <1>1, <1>3, TurnOf DEF EInv
<1> HIDE DEF h, q
<1>5. a \in Endpoints /\ b \in Endpoints \ {a} /\ Needs(h) = {a, b}
  BY <1>1, <1>4, StepsOf DEF ConnectAt
<1>6. \A d \in Endpoints : One(h, HoldOf(d)) = One(a, {d}) /\ One(h, FreeOf(d)) = 0
  BY <1>1, <1>4, KindOnes
<1> HIDE DEF a, b
<1>7. /\ x \in Steps /\ x.at = "look" /\ y \in Steps /\ y \in Good
      /\ y.at = "point" /\ y.e = a /\ y.with = b
      /\ z \in Steps /\ z \in Good /\ z.at = "deref" /\ z.e = a
  BY <1>5, StepIs
<1>8. \A d \in Endpoints :
        /\ One(x, HoldOf(d)) = 0 /\ One(x, FreeOf(d)) = 0
        /\ One(y, HoldOf(d)) = One(a, {d}) + One(b, {d}) /\ One(y, FreeOf(d)) = 0
        /\ One(z, HoldOf(d)) = One(a, {d}) /\ One(z, FreeOf(d)) = 0
  <2> HIDE DEF x, y, z
  <2>1. y.e # y.with
    BY <1>5, <1>7
  <2>2. QED
    BY <1>7, <2>1, KindOnes
<1>9. x = Step("look", b, Null)
  OBVIOUS
<1> HIDE DEF x, y, z
<1>10. ASSUME NEW d \in Endpoints
       PROVE  /\ Sum(HoldOf(d), z, Nil, Nil) = One(a, {d}) /\ Sum(FreeOf(d), z, Nil, Nil) = 0
              /\ Sum(HoldOf(d), x, y, Nil) = One(a, {d}) + One(b, {d})
              /\ Sum(FreeOf(d), x, y, Nil) = 0
              /\ One(d, owned) \in Nat /\ One(d, freed) \in Nat
              /\ One(refs[d], {0}) \in Nat /\ refs[d] \in Nat
              /\ One(a, {d}) \in Nat /\ One(b, {d}) \in Nat
  <2>1. One(a, {d}) \in Nat /\ One(b, {d}) \in Nat
    BY DEF One
  <2>2. QED
    BY <1>3, <1>7, <1>8, <2>1, Numbers
<1>11. CASE ~ Alive(b)
  <2>1. Goes(t, <<z>>) /\ UNCHANGED <<peer, refs, owned, freed, mutex, torn>>
    BY <1>2, <1>11
  <2>2. Fair(h, z, Nil, Nil)
    <3>1. ASSUME NEW d \in Endpoints
          PROVE  Accounts(d, h, z, Nil, Nil, 0, 0) /\ Buries(d, h, z, Nil, Nil)
      BY <1>6, <1>10, <2>1 DEF Accounts, Buries
    <3>2. QED
      BY <1>3, <2>1, <3>1 DEF Fair, Types
  <2>3. OnTop(z, q) /\ {h.at, z.at} \cap {"setpeer", "clear"} = {}
    <3>1. z.at \notin ConnectAt \cup DisconnectAt
      BY <1>7 DEF ConnectAt, DisconnectAt
    <3>2. Needs(z) = {}
      BY <1>7, <3>1, StepsOf
    <3>3. QED
      BY <1>1, <1>7, <3>2 DEF OnTop
  <2>4. QED
    BY <1>1, <2>1, <2>2, <2>3, SwapKeeps DEF h, q
<1>12. CASE Alive(b)
  <2>1. Goes(t, <<x, y>>) /\ Ref(b) /\ UNCHANGED <<peer, owned, freed, mutex, torn>>
    BY <1>2, <1>12
  <2>2. /\ refs' \in [Endpoints -> Nat]
        /\ \A d \in Endpoints : /\ refs'[d] = refs[d] + One(b, {d})
                                /\ One(refs'[d], {0}) = One(refs[d], {0})
    BY <1>3, <1>5, <1>12, <2>1, RefAdds
  <2>3. Fair(h, x, y, Nil)
    <3>1. ASSUME NEW d \in Endpoints
          PROVE  Accounts(d, h, x, y, Nil, 0, 0) /\ Buries(d, h, x, y, Nil)
      <4>1. owned' = owned /\ freed' = freed
        BY <2>1
      <4>2. refs'[d] = refs[d] + One(b, {d}) /\ One(refs'[d], {0}) = One(refs[d], {0})
        BY <2>2
      <4>3. Accounts(d, h, x, y, Nil, 0, 0)
        BY <1>6, <1>10, <4>1, <4>2 DEF Accounts
      <4>4. Buries(d, h, x, y, Nil)
        BY <1>6, <1>10, <4>1, <4>2 DEF Buries
      <4>5. QED
        BY <4>3, <4>4
    <3>2. QED
      BY <1>3, <2>1, <2>2, <3>1 DEF Fair, Types
  <2>4. OnTop(y, q) /\ y.at \in Below /\ y \in CoverOf(b)
    <3>1. Needs(y) = Needs(h)
      BY <1>5, <1>7, StepsOf DEF ConnectAt
    <3>2. QED
      BY <1>4, <1>7, <3>1 DEF OnTop, Below, CoverOf, HoldOf, Holds
  <2>5. QED
    BY <1>1, <1>5, <1>9, <2>1, <2>3, <2>4, LookAboveKeeps DEF h, q
<1>13. QED
  BY <1>11, <1>12

\* Steps that count for nothing come and go without a change.
LEMMA IdleIsFair ==
  ASSUME Types, UNCHANGED <<peer, refs, owned, freed, mutex, torn>>,
         NEW h \in Steps, h.at \in {"check", "look", "lock"},
         NEW x, x = Nil \/ (x \in Steps /\ x.at \in {"check", "look", "lock"})
  PROVE  Fair(h, x, Nil, Nil)
<1>1. ASSUME NEW d \in Endpoints
      PROVE  Accounts(d, h, x, Nil, Nil, 0, 0) /\ Buries(d, h, x, Nil, Nil)
  <2>1. One(h, HoldOf(d)) = 0 /\ One(h, FreeOf(d)) = 0
    BY KindOnes
  <2>2. One(x, HoldOf(d)) = 0 /\ One(x, FreeOf(d)) = 0
    BY KindOnes, NilIs, KindsOfSteps
  <2>3. One(Nil, HoldOf(d)) = 0 /\ One(Nil, FreeOf(d)) = 0
    BY NilIs, KindsOfSteps
  <2>4. Sum(HoldOf(d), x, Nil, Nil) = 0 /\ Sum(FreeOf(d), x, Nil, Nil) = 0
    BY <2>2, <2>3 DEF Sum
  <2>5. /\ One(d, owned) \in Nat /\ One(d, freed) \in Nat
        /\ One(refs[d], {0}) \in Nat /\ refs[d] \in Nat
    BY DEF One, Types
  <2>6. QED
    BY <2>1, <2>4, <2>5 DEF Accounts, Buries
<1>2. QED
  BY <1>1 DEF Fair, Types

\* The look of a disconnect keeps the invariant.
LEMMA LookKeeps ==
  ASSUME EInv, NEW t \in Threads, Look(t)
  PROVE  EInv'
<1> DEFINE h == Head(todo[t])  q == Tail(todo[t])  x == Step("lock", h.e, Null)
<1>1. todo[t] # <<>> /\ h.at = "look"
  BY DEF Look, AtStep
<1>2. /\ Goes(t, IF peer[h.e] = Null THEN <<>> ELSE <<x>>)
      /\ UNCHANGED <<peer, refs, owned, freed, mutex, torn>>
  BY DEF Look
<1>3. Types
  BY DEF EInv
<1>4. h \in Steps /\ h \in Good /\ OnTop(h, q) /\ h.e \in Endpoints
  BY <1>1, <1>3, TurnOf, StepsOf DEF EInv
<1> HIDE DEF h, q
<1>5. x \in Steps /\ x \in Good /\ x.at = "lock" /\ x.e = h.e
  BY <1>4, StepIs
<1> HIDE DEF x
<1>6. CASE peer[h.e] = Null
  <2>1. Goes(t, <<>>) /\ Fair(h, Nil, Nil, Nil)
    BY <1>1, <1>2, <1>3, <1>4, <1>6, IdleIsFair
  <2>2. QED
    BY <1>1, <2>1, PopKeeps DEF h
<1>7. CASE peer[h.e] # Null
  <2>1. Goes(t, <<x>>) /\ Fair(h, x, Nil, Nil)
    BY <1>1, <1>2, <1>3, <1>4, <1>5, <1>7, IdleIsFair
  <2>2. OnTop(x, q) /\ {h.at, x.at} \cap {"setpeer", "clear"} = {}
    <3>1. Needs(x) = Needs(h)
      BY <1>1, <1>4, <1>5, StepsOf DEF DisconnectAt
    <3>2. QED
      BY <1>1, <1>4, <1>5, <3>1 DEF OnTop
  <2>3. QED
    BY <1>1, <2>1, <2>2, SwapKeeps DEF h, q
<1>8. QED
  BY <1>6, <1>7

\* A step that holds a reference keeps the counter up.
LEMMA HoldCounts ==
  ASSUME EInv, ~ torn, NEW t \in Threads, NEW e \in Endpoints,
         NEW s \in Items(todo[t]), s \in HoldOf(e)
  PROVE  refs[e] \in Nat /\ refs[e] >= 1
<1>1. PICK k \in DOMAIN todo[t] : s = todo[t][k]
  BY DEF Items
<1>2. IsFiniteSet(At(todo, HoldOf(e)))
  BY FewSteps, KindsOfSteps DEF EInv
<1>3. /\ IsFiniteSet(PointsAt(peer, e))
      /\ refs[e] = One(e, owned) + Cardinality(PointsAt(peer, e)) + N(todo, HoldOf(e))
  BY DEF EInv, Counted, CountedAt
<1>4. N(todo, HoldOf(e)) \in Nat /\ N(todo, HoldOf(e)) >= 1
  BY <1>1, <1>2, CountedOnce
<1>5. One(e, owned) \in Nat /\ Cardinality(PointsAt(peer, e)) \in Nat
  BY <1>3, FS_CardinalityType DEF One
<1>6. QED
  BY <1>3, <1>4, <1>5

\* A deletion that waits is of a dead endpoint that is not deleted yet.
LEMMA FreeCounts ==
  ASSUME EInv, NEW t \in Threads, NEW e \in Endpoints,
         NEW s \in Items(todo[t]), s \in FreeOf(e)
  PROVE  refs[e] = 0 /\ e \notin freed
<1>1. PICK k \in DOMAIN todo[t] : s = todo[t][k]
  BY DEF Items
<1>2. IsFiniteSet(At(todo, FreeOf(e)))
  BY FewSteps, KindsOfSteps DEF EInv
<1>3. N(todo, FreeOf(e)) + One(e, freed) = One(refs[e], {0})
  BY DEF EInv, DiesOnce
<1>4. N(todo, FreeOf(e)) \in Nat /\ N(todo, FreeOf(e)) >= 1
  BY <1>1, <1>2, CountedOnce
<1>5. One(e, freed) = 0 /\ One(refs[e], {0}) = 1
  BY <1>3, <1>4 DEF One
<1>6. QED
  BY <1>5 DEF One

\* The first step of a thread is one of its steps.
LEMMA HeadIsItem ==
  ASSUME Types, NEW t \in Threads, todo[t] # <<>>
  PROVE  Head(todo[t]) \in Items(todo[t]) /\ Head(todo[t]) \in Steps
<1>1. todo[t] \in Seq(Steps)
  BY DEF Types
<1>2. 1 \in DOMAIN todo[t] /\ todo[t][1] = Head(todo[t]) /\ todo[t][1] \in Steps
  BY <1>1
<1>3. QED
  BY <1>2 DEF Items

\* Giving back a reference keeps the invariant.
LEMMA DerefKeeps ==
  ASSUME EInv, NEW t \in Threads, Deref(t)
  PROVE  EInv'
<1> DEFINE h == Head(todo[t])  q == Tail(todo[t])  e == h.e
           x == Step("look", e, Null)  y == Step("free", e, Null)
<1>1. todo[t] # <<>> /\ h.at = "deref"
  BY DEF Deref, AtStep
<1>2. /\ refs' = [refs EXCEPT ![e] = IF @ > 0 THEN @ - 1 ELSE 0]
      /\ Goes(t, IF refs[e] = 1 THEN <<x, y>> ELSE <<>>)
      /\ UNCHANGED <<peer, owned, freed, mutex, torn>>
  BY DEF Deref
<1>3. Types
  BY DEF EInv
<1>4. h \in Steps /\ h \in Good /\ Rest(q) /\ h \in Items(todo[t])
  BY <1>1, <1>3, TurnOf, HeadIsItem DEF EInv
<1> HIDE DEF h, q
<1>5. e \in Endpoints
  BY <1>4, StepsOf
<1>6. \A d \in Endpoints : One(h, HoldOf(d)) = One(e, {d}) /\ One(h, FreeOf(d)) = 0
  BY <1>1, <1>4, KindOnes
<1>7. ~ torn => refs[e] >= 1
  <2>1. h \in HoldOf(e)
    BY <1>1, <1>4 DEF HoldOf, Holds
  <2>2. QED
    BY <1>4, <1>5, <2>1, HoldCounts
<1> HIDE DEF e
<1>8. /\ x \in Steps /\ x.at = "look" /\ y \in Steps /\ y \in Good
      /\ y.at = "free" /\ y.e = e /\ y.with = Null
  BY <1>5, StepIs
<1>9. \A d \in Endpoints :
        /\ One(x, HoldOf(d)) = 0 /\ One(x, FreeOf(d)) = 0
        /\ One(y, HoldOf(d)) = 0 /\ One(y, FreeOf(d)) = One(e, {d})
  <2> HIDE DEF x, y
  <2>1. QED
    BY <1>8, KindOnes
<1>10. x = Step("look", e, Null)
  OBVIOUS
<1> HIDE DEF x, y
<1>11. /\ refs' \in [Endpoints -> Nat]
       /\ refs'[e] = IF refs[e] > 0 THEN refs[e] - 1 ELSE 0
       /\ \A d \in Endpoints \ {e} : refs'[d] = refs[d]
  BY <1>2, <1>3, <1>5 DEF Types
<1>12. ASSUME NEW d \in Endpoints
       PROVE  /\ Sum(HoldOf(d), Nil, Nil, Nil) = 0 /\ Sum(FreeOf(d), Nil, Nil, Nil) = 0
              /\ Sum(HoldOf(d), x, y, Nil) = 0 /\ Sum(FreeOf(d), x, y, Nil) = One(e, {d})
              /\ One(d, owned) \in Nat /\ One(d, freed) \in Nat
              /\ One(refs[d], {0}) \in Nat /\ refs[d] \in Nat /\ One(e, {d}) \in Nat
  <2>1. One(e, {d}) \in Nat
    BY DEF One
  <2>2. QED
    BY <1>3, <1>8, <1>9, <2>1, Numbers
<1>13. ASSUME NEW d \in Endpoints, ~ torn PROVE refs'[d] + One(e, {d}) = refs[d]
  <2>1. refs[d] \in Nat
    BY <1>12
  <2>2. CASE d = e
    BY <1>7, <1>11, <1>13, <2>1, <2>2 DEF One
  <2>3. CASE d # e
    BY <1>11, <2>1, <2>3 DEF One
  <2>4. QED
    BY <2>2, <2>3
<1>14. owned' = owned /\ freed' = freed
  BY <1>2
<1>15. ASSUME NEW d \in Endpoints, ~ torn
       PROVE  Accounts(d, h, x, y, Nil, 0, 0) /\ Accounts(d, h, Nil, Nil, Nil, 0, 0)
  <2>1. refs'[d] \in Nat /\ refs'[d] + One(e, {d}) = refs[d]
    BY <1>11, <1>13, <1>15
  <2>2. /\ One(h, HoldOf(d)) = One(e, {d}) /\ One(d, owned') = One(d, owned)
        /\ Sum(HoldOf(d), x, y, Nil) = 0 /\ Sum(HoldOf(d), Nil, Nil, Nil) = 0
        /\ One(d, owned) \in Nat /\ One(e, {d}) \in Nat
    BY <1>6, <1>12, <1>14
  <2>3. QED
    BY <2>1, <2>2 DEF Accounts
<1>16. CASE refs[e] = 1
  <2>1. Goes(t, <<x, y>>)
    BY <1>2, <1>16
  <2>2. ASSUME NEW d \in Endpoints PROVE Buries(d, h, x, y, Nil)
    <3>1. One(refs'[d], {0}) = One(refs[d], {0}) + One(e, {d})
      <4>1. CASE d = e
        <5>1. refs'[d] = 0 /\ refs[d] = 1
          BY <1>11, <1>16, <4>1
        <5>2. QED
          BY <4>1, <5>1 DEF One
      <4>2. CASE d # e
        <5>1. refs'[d] = refs[d] /\ One(e, {d}) = 0
          BY <1>11, <4>2 DEF One
        <5>2. QED
          BY <1>12, <5>1
      <4>3. QED
        BY <4>1, <4>2
    <3>2. QED
      BY <1>6, <1>12, <1>14, <3>1 DEF Buries
  <2>3. Fair(h, x, y, Nil)
    BY <1>2, <1>3, <1>11, <1>15, <2>2 DEF Fair, Types
  <2>4. OnTop(y, q) /\ y.at \in Below /\ y \in CoverOf(e)
    <3>1. y.at \notin ConnectAt \cup DisconnectAt
      BY <1>8 DEF ConnectAt, DisconnectAt
    <3>2. Needs(y) = {}
      BY <1>8, <3>1, StepsOf
    <3>3. QED
      BY <1>8, <3>2 DEF OnTop, Below, CoverOf, FreeOf
  <2>5. QED
    BY <1>1, <1>5, <1>10, <2>1, <2>3, <2>4, LookAboveKeeps DEF h, q
<1>17. CASE refs[e] # 1
  <2>1. Goes(t, <<>>)
    BY <1>2, <1>17
  <2>2. ASSUME NEW d \in Endpoints PROVE Buries(d, h, Nil, Nil, Nil)
    <3>1. One(refs'[d], {0}) = One(refs[d], {0})
      <4>1. CASE d = e
        <5> DEFINE r == refs[e]  k == refs'[e]
        <5>1. r \in Nat /\ r # 1 /\ k = IF r > 0 THEN r - 1 ELSE 0
          BY <1>5, <1>11, <1>12, <1>17
        <5> HIDE DEF r, k
        <5>2. k = 0 <=> r = 0
          BY <5>1
        <5>3. QED
          BY <4>1, <5>2 DEF One, r, k
      <4>2. CASE d # e
        BY <1>11, <4>2
      <4>3. QED
        BY <4>1, <4>2
    <3>2. QED
      BY <1>6, <1>12, <1>14, <3>1 DEF Buries
  <2>3. Fair(h, Nil, Nil, Nil)
    BY <1>2, <1>3, <1>11, <1>15, <2>2 DEF Fair, Types
  <2>4. QED
    BY <1>1, <2>1, <2>3, PopKeeps DEF h
<1>18. QED
  BY <1>16, <1>17

\* A deletion keeps the invariant.
LEMMA FreeKeeps ==
  ASSUME EInv, NEW t \in Threads, Free(t)
  PROVE  EInv'
<1> DEFINE h == Head(todo[t])  e == h.e
<1>1. todo[t] # <<>> /\ h.at = "free"
  BY DEF Free, AtStep
<1>2. freed' = freed \cup {e} /\ Goes(t, <<>>) /\ UNCHANGED <<peer, refs, owned, mutex, torn>>
  BY DEF Free
<1>3. Types
  BY DEF EInv
<1>4. h \in Steps /\ h \in Good /\ h \in Items(todo[t])
  BY <1>1, <1>3, TurnOf, HeadIsItem DEF EInv
<1> HIDE DEF h
<1>5. e \in Endpoints
  BY <1>4, StepsOf
<1>6. e \notin freed
  <2>1. h \in FreeOf(e)
    BY <1>1, <1>4 DEF FreeOf
  <2>2. QED
    BY <1>4, <1>5, <2>1, FreeCounts
<1>7. ASSUME NEW d \in Endpoints
      PROVE  Accounts(d, h, Nil, Nil, Nil, 0, 0) /\ Buries(d, h, Nil, Nil, Nil)
  <2>1. One(h, HoldOf(d)) = 0 /\ One(h, FreeOf(d)) = One(e, {d})
    BY <1>1, <1>4, KindOnes
  <2>2. /\ Sum(HoldOf(d), Nil, Nil, Nil) = 0 /\ Sum(FreeOf(d), Nil, Nil, Nil) = 0
        /\ One(d, owned) \in Nat /\ One(d, freed) \in Nat
        /\ One(refs[d], {0}) \in Nat /\ refs[d] \in Nat
    BY <1>3, <1>4, Numbers
  <2>3. One(d, freed) + One(e, {d}) = One(d, freed')
    <3>1. CASE d = e
      BY <1>2, <1>6, <3>1 DEF One
    <3>2. CASE d # e
      BY <1>2, <3>2 DEF One
    <3>3. QED
      BY <3>1, <3>2
  <2>4. One(e, {d}) \in Nat /\ One(d, freed') \in Nat /\ refs' = refs /\ owned' = owned
    BY <1>2 DEF One
  <2>5. QED
    BY <2>1, <2>2, <2>3, <2>4 DEF Accounts, Buries
<1>8. Fair(h, Nil, Nil, Nil)
  BY <1>2, <1>3, <1>5, <1>7 DEF Fair, Types
<1>9. QED
  BY <1>1, <1>2, <1>8, PopKeeps DEF h

\* Nothing waits under the only step.
LEMMA EmptyRest ==
  Rest(<<>>)
  BY DEF Rest

\* A step that is not a half of a connect or a disconnect stands for no pointer.
LEMMA PairlessIs ==
  /\ Pairless(Nil)
  /\ \A s \in Steps : s.at \notin {"setpeer", "clear"} => Pairless(s)
BY Weights DEF Pairless

\* A release keeps the invariant.
LEMMA ReleaseKeeps ==
  ASSUME EInv, NEW t \in Threads, NEW e \in Endpoints, Release(t, e)
  PROVE  EInv'
<1> DEFINE x == Step("deref", e, Null)
<1>1. /\ todo[t] = <<>> /\ e \in owned /\ owned' = owned \ {e}
      /\ todo' = [todo EXCEPT ![t] = <<x>>]
      /\ UNCHANGED <<peer, refs, freed, mutex, torn>>
  BY DEF Release
<1>2. Types
  BY DEF EInv
<1>3. x \in Steps /\ x \in Good /\ x.at = "deref" /\ x.e = e
  BY StepIs
<1> HIDE DEF x
<1>4. OnTop(x, <<>>)
  <2>1. x.at \notin ConnectAt \cup DisconnectAt
    BY <1>3 DEF ConnectAt, DisconnectAt
  <2>2. QED
    BY <1>3, <2>1, StepsOf DEF OnTop
<1>5. Stack(<<x>>) /\ Head(<<x>>).at # "clear"
  <2>1. <<x>> = Cons(x, <<>>)
    BY <1>3, Listed
  <2>2. Stack(Cons(x, <<>>)) /\ Head(Cons(x, <<>>)) = x
    BY <1>4, EmptyRest, OnRest
  <2>3. QED
    BY <1>3, <2>1, <2>2
<1>6. Moved(Nil, x, Nil, Nil)
  BY <1>1, <1>2, <1>3, CallMoves
<1>7. ASSUME NEW d \in Endpoints
      PROVE  Accounts(d, Nil, x, Nil, Nil, 0, 0) /\ Buries(d, Nil, x, Nil, Nil)
  <2>1. One(x, HoldOf(d)) = One(e, {d}) /\ One(x, FreeOf(d)) = 0
    BY <1>3, KindOnes
  <2>2. /\ Sum(HoldOf(d), x, Nil, Nil) = One(e, {d}) /\ Sum(FreeOf(d), x, Nil, Nil) = 0
        /\ One(d, owned) \in Nat /\ One(d, freed) \in Nat
        /\ One(refs[d], {0}) \in Nat /\ refs[d] \in Nat
    BY <1>2, <1>3, <2>1, Numbers
  <2>3. One(Nil, HoldOf(d)) = 0 /\ One(Nil, FreeOf(d)) = 0
    BY NilIs, KindsOfSteps
  <2>4. One(d, owned) = One(d, owned') + One(e, {d})
    <3>1. CASE d = e
      BY <1>1, <3>1 DEF One
    <3>2. CASE d # e
      BY <1>1, <3>2 DEF One
    <3>3. QED
      BY <3>1, <3>2
  <2>5. One(e, {d}) \in Nat /\ One(d, owned') \in Nat /\ refs' = refs /\ freed' = freed
    BY <1>1 DEF One
  <2>6. QED
    BY <2>2, <2>3, <2>4, <2>5 DEF Accounts, Buries
<1>8. Fair(Nil, x, Nil, Nil)
  BY <1>1, <1>2, <1>7 DEF Fair, Types
<1>9. Pairless(x) /\ Pairless(Nil)
  BY <1>3, PairlessIs
<1>10. QED
  BY <1>1, <1>5, <1>6, <1>8, <1>9, QuietKeeps

\* A call of disconnect keeps the invariant.
LEMMA DisconnectKeeps ==
  ASSUME EInv, NEW t \in Threads, NEW e \in Endpoints, Disconnect(t, e)
  PROVE  EInv'
<1> DEFINE x == Step("look", e, Null)  y == Step("deref", e, Null)
<1>1. /\ todo[t] = <<>> /\ Alive(e) /\ Ref(e)
      /\ todo' = [todo EXCEPT ![t] = <<x, y>>]
      /\ UNCHANGED <<peer, owned, freed, mutex, torn>>
  BY DEF Disconnect
<1>2. Types
  BY DEF EInv
<1>3. /\ x \in Steps /\ x \in Good /\ x.at = "look" /\ x.e = e
      /\ y \in Steps /\ y \in Good /\ y.at = "deref" /\ y.e = e
  BY StepIs
<1> HIDE DEF x, y
<1>4. Stack(<<x, y>>) /\ Head(<<x, y>>).at # "clear"
  <2> DEFINE r == Cons(y, <<>>)
  <2>1. OnTop(y, <<>>) /\ y.at \in Below
    <3>1. y.at \notin ConnectAt \cup DisconnectAt
      BY <1>3 DEF ConnectAt, DisconnectAt
    <3>2. QED
      BY <1>3, <3>1, StepsOf DEF OnTop, Below
  <2>2. Rest(r) /\ y \in Items(r)
    BY <2>1, EmptyRest, OnRest
  <2> HIDE DEF r
  <2>3. OnTop(x, r)
    <3>1. Needs(x) = {e} /\ y \in CoverOf(e)
      BY <1>3, StepsOf DEF DisconnectAt, CoverOf, HoldOf, Holds
    <3>2. QED
      BY <1>3, <2>2, <3>1 DEF OnTop
  <2>4. Stack(Cons(x, r)) /\ Head(Cons(x, r)) = x
    BY <2>2, <2>3, OnRest
  <2>5. <<x, y>> = Cons(x, r)
    BY <1>3, Listed DEF r
  <2>6. QED
    BY <1>3, <2>4, <2>5
<1>5. Moved(Nil, x, y, Nil)
  BY <1>1, <1>2, <1>3, CallMoves
<1>6. /\ refs' \in [Endpoints -> Nat]
      /\ \A d \in Endpoints : /\ refs'[d] = refs[d] + One(e, {d})
                              /\ One(refs'[d], {0}) = One(refs[d], {0})
  BY <1>1, <1>2, RefAdds
<1>7. ASSUME NEW d \in Endpoints
      PROVE  Accounts(d, Nil, x, y, Nil, 0, 0) /\ Buries(d, Nil, x, y, Nil)
  <2>1. /\ One(x, HoldOf(d)) = 0 /\ One(x, FreeOf(d)) = 0
        /\ One(y, HoldOf(d)) = One(e, {d}) /\ One(y, FreeOf(d)) = 0
    BY <1>3, KindOnes
  <2>2. One(e, {d}) \in Nat
    BY DEF One
  <2>3. /\ Sum(HoldOf(d), x, y, Nil) = One(e, {d}) /\ Sum(FreeOf(d), x, y, Nil) = 0
        /\ One(d, owned) \in Nat /\ One(d, freed) \in Nat
        /\ One(refs[d], {0}) \in Nat /\ refs[d] \in Nat
    BY <1>2, <1>3, <2>1, <2>2, Numbers
  <2>4. One(Nil, HoldOf(d)) = 0 /\ One(Nil, FreeOf(d)) = 0
    BY NilIs, KindsOfSteps
  <2>5. /\ refs'[d] = refs[d] + One(e, {d}) /\ One(refs'[d], {0}) = One(refs[d], {0})
        /\ One(d, owned') = One(d, owned) /\ One(d, freed') = One(d, freed)
    BY <1>1, <1>6
  <2>6. QED
    BY <2>2, <2>3, <2>4, <2>5 DEF Accounts, Buries
<1>8. Fair(Nil, x, y, Nil)
  BY <1>1, <1>2, <1>6, <1>7 DEF Fair, Types
<1>9. Pairless(x) /\ Pairless(y) /\ Pairless(Nil)
  BY <1>3, PairlessIs
<1>10. QED
  BY <1>1, <1>4, <1>5, <1>8, <1>9, QuietKeeps

\* A call of connect keeps the invariant.
LEMMA ConnectKeeps ==
  ASSUME EInv, NEW t \in Threads, NEW a \in Endpoints, NEW b \in Endpoints, Connect(t, a, b)
  PROVE  EInv'
<1> DEFINE x == Step("check", a, b)  y == Step("deref", a, Null)  z == Step("deref", b, Null)
<1>1. /\ todo[t] = <<>> /\ a # b /\ Alive(a) /\ Alive(b)
      /\ refs' = [refs EXCEPT ![a] = @ + 1, ![b] = @ + 1]
      /\ todo' = [todo EXCEPT ![t] = <<x, y, z>>]
      /\ UNCHANGED <<peer, owned, freed, mutex, torn>>
  BY DEF Connect
<1>2. Types
  BY DEF EInv
<1>3. /\ x \in Steps /\ x \in Good /\ x.at = "check" /\ x.e = a /\ x.with = b
      /\ y \in Steps /\ y \in Good /\ y.at = "deref" /\ y.e = a
      /\ z \in Steps /\ z \in Good /\ z.at = "deref" /\ z.e = b
  BY <1>1, StepIs
<1> HIDE DEF x, y, z
<1>4. Stack(<<x, y, z>>) /\ Head(<<x, y, z>>).at # "clear"
  <2> DEFINE r == Cons(z, <<>>)  p == Cons(y, r)
  <2>1. \A s \in {y, z} : s.at \in Below /\ \A q : OnTop(s, q)
    <3>1. \A s \in {y, z} : s.at \notin ConnectAt \cup DisconnectAt
      BY <1>3 DEF ConnectAt, DisconnectAt
    <3>2. \A s \in {y, z} : Needs(s) = {} /\ s \in Good
      BY <1>3, <3>1, StepsOf
    <3>3. QED
      BY <1>3, <3>2 DEF OnTop, Below
  <2>2. Rest(r) /\ z \in Items(r)
    BY <2>1, EmptyRest, OnRest
  <2>3. Rest(p) /\ y \in Items(p) /\ z \in Items(p)
    <3> HIDE DEF r
    <3>1. QED
      BY <2>1, <2>2, OnRest
  <2>4. <<x, y, z>> = Cons(x, p)
    BY <1>3, Listed
  <2> HIDE DEF r, p
  <2>5. OnTop(x, p)
    <3>1. Needs(x) = {a, b}
      BY <1>3, StepsOf DEF ConnectAt
    <3>2. y \in CoverOf(a) /\ z \in CoverOf(b)
      BY <1>3 DEF CoverOf, HoldOf, Holds
    <3>3. QED
      BY <1>3, <2>3, <3>1, <3>2 DEF OnTop
  <2>6. Stack(Cons(x, p)) /\ Head(Cons(x, p)) = x
    BY <2>3, <2>5, OnRest
  <2>7. QED
    BY <1>3, <2>4, <2>6
<1>5. Moved(Nil, x, y, z)
  BY <1>1, <1>2, <1>3, CallMoves
<1>6. /\ refs' \in [Endpoints -> Nat]
      /\ refs'[a] = refs[a] + 1 /\ refs'[b] = refs[b] + 1
      /\ \A d \in Endpoints \ {a, b} : refs'[d] = refs[d]
  <2> DEFINE f == [refs EXCEPT ![a] = @ + 1]
  <2>1. /\ f \in [Endpoints -> Nat] /\ f[a] = refs[a] + 1
        /\ \A d \in Endpoints \ {a} : f[d] = refs[d]
    BY <1>2 DEF Types
  <2>2. refs' = [f EXCEPT ![b] = @ + 1]
    BY <1>1
  <2> HIDE DEF f
  <2>3. QED
    BY <1>1, <2>1, <2>2
<1>7. ASSUME NEW d \in Endpoints
      PROVE  /\ refs'[d] = refs[d] + One(a, {d}) + One(b, {d})
             /\ One(refs'[d], {0}) = One(refs[d], {0})
  <2>1. refs[d] \in Nat
    BY <1>2 DEF Types
  <2>2. CASE d = a
    BY <1>1, <1>6, <2>1, <2>2 DEF One, Alive
  <2>3. CASE d = b
    BY <1>1, <1>6, <2>1, <2>3 DEF One, Alive
  <2>4. CASE d # a /\ d # b
    BY <1>6, <2>1, <2>4 DEF One
  <2>5. QED
    BY <2>2, <2>3, <2>4
<1>8. ASSUME NEW d \in Endpoints
      PROVE  Accounts(d, Nil, x, y, z, 0, 0) /\ Buries(d, Nil, x, y, z)
  <2>1. /\ One(x, HoldOf(d)) = 0 /\ One(x, FreeOf(d)) = 0
        /\ One(y, HoldOf(d)) = One(a, {d}) /\ One(y, FreeOf(d)) = 0
        /\ One(z, HoldOf(d)) = One(b, {d}) /\ One(z, FreeOf(d)) = 0
    BY <1>3, KindOnes
  <2>2. /\ One(a, {d}) \in Nat /\ One(b, {d}) \in Nat
        /\ One(d, owned) \in Nat /\ One(d, freed) \in Nat
        /\ One(refs[d], {0}) \in Nat /\ refs[d] \in Nat
    BY <1>2 DEF One, Types
  <2>3. Sum(HoldOf(d), x, y, z) = One(a, {d}) + One(b, {d}) /\ Sum(FreeOf(d), x, y, z) = 0
    BY <2>1, <2>2 DEF Sum
  <2>4. One(Nil, HoldOf(d)) = 0 /\ One(Nil, FreeOf(d)) = 0
    BY NilIs, KindsOfSteps
  <2>5. /\ refs'[d] = refs[d] + One(a, {d}) + One(b, {d})
        /\ One(refs'[d], {0}) = One(refs[d], {0})
        /\ One(d, owned') = One(d, owned) /\ One(d, freed') = One(d, freed)
    BY <1>1, <1>7
  <2>6. QED
    BY <2>2, <2>3, <2>4, <2>5 DEF Accounts, Buries
<1>9. Fair(Nil, x, y, z)
  BY <1>1, <1>2, <1>6, <1>8 DEF Fair, Types
<1>10. Pairless(x) /\ Pairless(y) /\ Pairless(z) /\ Pairless(Nil)
  BY <1>3, PairlessIs
<1>11. QED
  BY <1>1, <1>4, <1>5, <1>9, <1>10, QuietKeeps

(***************************************************************************)
(* The actions that move a pointer.                                        *)
(***************************************************************************)

\* Nobody dies by it and nobody is deleted.
Deathless(h, x, y) ==
    \A d \in Endpoints : One(h, FreeOf(d)) = 0 /\ Sum(FreeOf(d), x, y, Nil) = 0

\* The references of the steps and of the pointer of a, which is to be v, are
\* handed on.
HandsOn(h, x, y, a, v) ==
    \A d \in Endpoints :
       One(h, HoldOf(d)) + One(peer[a], {d}) = Sum(HoldOf(d), x, y, Nil) + One(v, {d})

EvensAll(h, x, y) == \A c, d \in Endpoints : c # d => Evens(c, d, h, x, y, Nil)

\* What an action keeps that sets the pointer of a, when a reference and what
\* endpoints owe each other go with it, unless a pointer was overwritten.
LEMMA PointerKeeps ==
  ASSUME EInv, NEW t \in Threads, NEW s, Stack(s), todo' = [todo EXCEPT ![t] = s],
         NEW h, NEW x, NEW y, Moved(h, x, y, Nil),
         NEW a \in Endpoints, NEW v \in Endpoints \cup {Null}, v # a,
         peer' = [peer EXCEPT ![a] = v], UNCHANGED <<refs, owned, freed>>,
         mutex' \in Threads \cup {Null}, MutexIsHeld', torn' \in BOOLEAN, torn => torn',
         Deathless(h, x, y), ~ torn' => HandsOn(h, x, y, a, v) /\ EvensAll(h, x, y)
  PROVE  EInv'
<1>1. Types /\ Stacks /\ DiesOnce
  BY DEF EInv
<1>2. Stacks' /\ todo' \in [Threads -> Seq(Steps)]
  BY <1>1, StacksKept
<1>3. IsFiniteSet(At(todo', Steps))
  BY DEF Moved, Recounted
<1>4. peer' \in [Endpoints -> Endpoints \cup {Null}] /\ \A e \in Endpoints : peer'[e] # e
  BY <1>1 DEF Types
<1>5. Types'
  BY <1>1, <1>2, <1>3, <1>4 DEF Types
<1>6. DiesOnce'
  <2>1. ASSUME NEW d \in Endpoints PROVE Buries(d, h, x, y, Nil)
    <3>1. One(refs[d], {0}) \in Nat /\ One(d, freed) \in Nat
      BY DEF One
    <3>2. QED
      BY <3>1 DEF Buries, Deathless
  <2>2. QED
    BY <1>1, <2>1, DiesKept
<1>7. ASSUME ~ torn' PROVE Counted' /\ Balanced'
  <2>1. Counted /\ Balanced
    BY <1>7 DEF EInv
  <2>2. ASSUME NEW d \in Endpoints PROVE CountedAt(d)'
    <3> DEFINE gone == One(peer[a], {d})  come == One(v, {d})
    <3>1. CountedAt(d)
      BY <2>1 DEF Counted
    <3>2. Repointed(peer, peer', d, gone, come)
      <4>1. Repointed(peer, [peer EXCEPT ![a] = v], d, gone, come)
        BY <1>1, <3>1, PointsMove DEF Types, CountedAt
      <4>2. QED
        BY <4>1
    <3>3. gone \in Nat /\ come \in Nat /\ refs'[d] \in Nat
      BY <1>1 DEF One, Types
    <3>4. Accounts(d, h, x, y, Nil, gone, come)
      <4>1. One(h, HoldOf(d)) + gone = Sum(HoldOf(d), x, y, Nil) + come
        BY <1>7 DEF HandsOn
      <4>2. One(d, owned) \in Nat /\ One(h, HoldOf(d)) \in Nat
            /\ Sum(HoldOf(d), x, y, Nil) \in Nat /\ refs[d] \in Nat
        BY <1>1 DEF One, Sum, Types
      <4>3. refs' = refs /\ owned' = owned
        OBVIOUS
      <4> HIDE DEF gone, come
      <4>4. QED
        BY <3>3, <4>1, <4>2, <4>3 DEF Accounts
    <3> HIDE DEF gone, come
    <3>5. QED
      BY <1>1, <3>1, <3>2, <3>3, <3>4, CountedKept
  <2>3. ASSUME NEW c \in Endpoints, NEW d \in Endpoints, c # d
        PROVE  (Owes(c, d) = Owes(d, c))'
    <3>1. Owes(c, d) = Owes(d, c)
      BY <2>1, <2>3 DEF Balanced
    <3>2. Evens(c, d, h, x, y, Nil)
      BY <1>7, <2>3 DEF EvensAll
    <3>3. QED
      BY <1>1, <3>1, <3>2, BalanceKept
  <2>4. Counted'
    BY <2>2 DEF Counted
  <2>5. Balanced'
    BY <2>3 DEF Balanced
  <2>6. QED
    BY <2>4, <2>5
<1>8. QED
  BY <1>2, <1>5, <1>6, <1>7 DEF EInv

\* Pointing at the peer keeps the invariant.
LEMMA PointAtPeerKeeps ==
  ASSUME EInv, NEW t \in Threads, PointAtPeer(t)
  PROVE  EInv'
<1> DEFINE h == Head(todo[t])  q == Tail(todo[t])  a == h.e  b == h.with
           x == Step("setpeer", a, b)
<1>1. todo[t] # <<>> /\ h.at = "point"
  BY DEF PointAtPeer, AtStep
<1>2. /\ peer' = [peer EXCEPT ![a] = b] /\ torn' = (torn \/ peer[a] # Null)
      /\ Goes(t, <<x>>) /\ UNCHANGED <<refs, owned, freed, mutex>>
  BY DEF PointAtPeer, Tear
<1>3. Types /\ Stacks /\ MutexIsHeld
  BY DEF EInv
<1>4. h \in Steps /\ h \in Good /\ OnTop(h, q) /\ Rest(q) /\ q \in Seq(Steps)
  BY <1>1, <1>3, TurnOf
<1> HIDE DEF h, q
<1>5. a \in Endpoints /\ b \in Endpoints \ {a} /\ Needs(h) = {a, b}
  BY <1>1, <1>4, StepsOf DEF ConnectAt
<1>6. \A d \in Endpoints :
         One(h, HoldOf(d)) = One(a, {d}) + One(b, {d}) /\ One(h, FreeOf(d)) = 0
  BY <1>1, <1>4, <1>5, KindOnes
<1> HIDE DEF a, b
<1>7. /\ x \in Steps /\ x \in Good /\ x.at = "setpeer" /\ x.e = a /\ x.with = b
  BY <1>5, StepIs
<1> HIDE DEF x
<1>8. \A d \in Endpoints : One(x, HoldOf(d)) = One(a, {d}) /\ One(x, FreeOf(d)) = 0
  BY <1>7, KindOnes
<1> DEFINE s == Cons(x, q)
<1>9. Stack(s) /\ s # <<>> /\ Head(s) = x
  <2>1. Needs(x) = Needs(h)
    BY <1>5, <1>7, StepsOf DEF ConnectAt
  <2>2. OnTop(x, q)
    BY <1>4, <1>7, <2>1 DEF OnTop
  <2>3. QED
    BY <1>4, <2>2, OnRest
<1>10. todo' = [todo EXCEPT ![t] = s]
  <2>1. <<x>> \o q = s
    BY <1>4, <1>7, StepsPushed
  <2>2. QED
    BY <1>2, <2>1 DEF Goes, q
<1>11. Moved(h, x, Nil, Nil)
  BY <1>1, <1>3, <1>7, <1>10, TurnMoves DEF h, q
<1> HIDE DEF s
<1>12. MutexIsHeld'
  <2>1. Head(todo[t]).at # "clear" /\ Head(s).at # "clear" /\ mutex' = mutex
    BY <1>1, <1>2, <1>7, <1>9 DEF h
  <2>2. QED
    BY <1>3, <1>9, <1>10, <2>1, MutexKept
<1>13. ASSUME NEW d \in Endpoints
       PROVE  /\ Sum(HoldOf(d), x, Nil, Nil) = One(a, {d}) /\ Sum(FreeOf(d), x, Nil, Nil) = 0
  BY <1>3, <1>7, <1>8, Numbers
<1>14. ASSUME ~ torn', NEW d \in Endpoints
       PROVE  One(h, HoldOf(d)) + One(peer[a], {d})
                = Sum(HoldOf(d), x, Nil, Nil) + One(b, {d})
  <2>1. One(peer[a], {d}) = 0
    BY <1>2, <1>14, NullAssumption DEF One
  <2>2. One(a, {d}) \in Nat /\ One(b, {d}) \in Nat
    BY DEF One
  <2>3. QED
    BY <1>6, <1>13, <2>1, <2>2
<1>15. ASSUME ~ torn', NEW c \in Endpoints, NEW d \in Endpoints, c # d
       PROVE  Evens(c, d, h, x, Nil, Nil)
  <2>1. /\ Weight(h, c, d) = 0 /\ Weight(h, d, c) = 0
        /\ Weight(Nil, c, d) = 0 /\ Weight(Nil, d, c) = 0
        /\ Weight(x, c, d) = IF a = d /\ b = c THEN 1 ELSE 0
        /\ Weight(x, d, c) = IF a = c /\ b = d THEN 1 ELSE 0
    <3>1. Pairless(h) /\ Pairless(Nil)
      BY <1>1, <1>4, PairlessIs
    <3>2. /\ Weight(x, c, d) = IF x.e = d /\ x.with = c THEN 1 ELSE 0
          /\ Weight(x, d, c) = IF x.e = c /\ x.with = d THEN 1 ELSE 0
      BY <1>7, Weights
    <3>3. QED
      BY <1>7, <3>1, <3>2 DEF Pairless
  <2>2. /\ peer[a] = Null /\ a # b /\ Null \notin {c, d}
        /\ peer' = [peer EXCEPT ![a] = b] /\ peer \in [Endpoints -> Endpoints \cup {Null}]
    BY <1>2, <1>3, <1>5, <1>15, NullAssumption DEF Types
  <2>3. CASE c = a
    <3>1. peer'[c] = b /\ peer[c] = Null /\ peer'[d] = peer[d]
      BY <1>5, <1>15, <2>2, <2>3
    <3>2. One(peer[d], {c}) \in Nat /\ One(peer[c], {d}) = 0
          /\ One(peer'[c], {d}) = IF b = d THEN 1 ELSE 0
      BY <2>2, <3>1 DEF One
    <3>3. QED
      BY <1>15, <2>1, <2>3, <3>1, <3>2 DEF Evens
  <2>4. CASE d = a
    <3>1. peer'[d] = b /\ peer[d] = Null /\ peer'[c] = peer[c]
      BY <1>5, <1>15, <2>2, <2>4
    <3>2. One(peer[c], {d}) \in Nat /\ One(peer[d], {c}) = 0
          /\ One(peer'[d], {c}) = IF b = c THEN 1 ELSE 0
      BY <2>2, <3>1 DEF One
    <3>3. QED
      BY <1>15, <2>1, <2>4, <3>1, <3>2 DEF Evens
  <2>5. CASE c # a /\ d # a
    <3>1. peer'[c] = peer[c] /\ peer'[d] = peer[d]
      BY <2>2, <2>5
    <3>2. One(peer[c], {d}) \in Nat /\ One(peer[d], {c}) \in Nat
      BY DEF One
    <3>3. QED
      BY <2>1, <2>5, <3>1, <3>2 DEF Evens
  <2>6. QED
    BY <2>3, <2>4, <2>5
<1>16. /\ torn' \in BOOLEAN /\ (torn => torn') /\ mutex' \in Threads \cup {Null}
       /\ b \in Endpoints \cup {Null} /\ b # a
  BY <1>2, <1>3, <1>5 DEF Types
<1>17. Deathless(h, x, Nil)
  BY <1>6, <1>13 DEF Deathless
<1>18. ~ torn' => HandsOn(h, x, Nil, a, b) /\ EvensAll(h, x, Nil)
  BY <1>14, <1>15 DEF HandsOn, EvensAll
<1>19. UNCHANGED <<refs, owned, freed>> /\ peer' = [peer EXCEPT ![a] = b]
  BY <1>2
<1>20. QED
  BY <1>5, <1>9, <1>10, <1>11, <1>12, <1>16, <1>17, <1>18, <1>19, PointerKeeps

\* A step that is done and no half of a connect or a disconnect counts alike.
LEMMA WeightIs ==
  ASSUME NEW s \in Steps, NEW c \in Endpoints, NEW d \in Endpoints
  PROVE  /\ s.at = "setpeer" =>
              Weight(s, c, d) = IF s.e = d /\ s.with = c THEN 1 ELSE 0
         /\ s.at = "clear" => Weight(s, c, d) = IF s.e = c /\ s.with = d THEN 1 ELSE 0
BY Weights

\* Setting the pointer of the peer keeps the invariant.
LEMMA SetPeerKeeps ==
  ASSUME EInv, NEW t \in Threads, SetPeer(t)
  PROVE  EInv'
<1> DEFINE h == Head(todo[t])  q == Tail(todo[t])  a == h.e  b == h.with
<1>1. todo[t] # <<>> /\ h.at = "setpeer"
  BY DEF SetPeer, AtStep
<1>2. /\ peer' = [peer EXCEPT ![b] = a] /\ torn' = (torn \/ peer[b] # Null)
      /\ Goes(t, <<>>) /\ UNCHANGED <<refs, owned, freed, mutex>>
  BY DEF SetPeer, Tear
<1>3. Types /\ Stacks /\ MutexIsHeld
  BY DEF EInv
<1>4. h \in Steps /\ h \in Good /\ Rest(q) /\ q \in Seq(Steps)
  BY <1>1, <1>3, TurnOf
<1> HIDE DEF h, q
<1>5. a \in Endpoints /\ b \in Endpoints \ {a}
  BY <1>1, <1>4, StepsOf DEF ConnectAt
<1>6. \A d \in Endpoints : One(h, HoldOf(d)) = One(a, {d}) /\ One(h, FreeOf(d)) = 0
  BY <1>1, <1>4, KindOnes
<1>7. \A c, d \in Endpoints :
         /\ Weight(h, c, d) = IF a = d /\ b = c THEN 1 ELSE 0
         /\ Weight(Nil, c, d) = 0
  BY <1>1, <1>4, WeightIs, Weights
<1> HIDE DEF a, b
<1>8. Stack(q) /\ (q # <<>> => Head(q).at # "clear")
  BY <1>4, OnRest
<1>9. todo' = [todo EXCEPT ![t] = q]
  <2>1. <<>> \o q = q
    BY <1>4, StepsPushed
  <2>2. QED
    BY <1>2, <2>1 DEF Goes, q
<1>10. Moved(h, Nil, Nil, Nil)
  BY <1>1, <1>3, <1>4, <1>9, TurnMoves DEF h, q
<1>11. MutexIsHeld'
  <2>1. Head(todo[t]).at # "clear" /\ mutex' = mutex
    BY <1>1, <1>2 DEF h
  <2>2. QED
    BY <1>3, <1>8, <1>9, <2>1, MutexKept
<1>12. ASSUME NEW d \in Endpoints
       PROVE  Sum(HoldOf(d), Nil, Nil, Nil) = 0 /\ Sum(FreeOf(d), Nil, Nil, Nil) = 0
  BY <1>3, <1>4, Numbers
<1>13. ASSUME ~ torn', NEW d \in Endpoints
       PROVE  One(h, HoldOf(d)) + One(peer[b], {d})
                = Sum(HoldOf(d), Nil, Nil, Nil) + One(a, {d})
  <2>1. One(peer[b], {d}) = 0
    BY <1>2, <1>13, NullAssumption DEF One
  <2>2. One(a, {d}) \in Nat
    BY DEF One
  <2>3. QED
    BY <1>6, <1>12, <2>1, <2>2
<1>14. ASSUME ~ torn', NEW c \in Endpoints, NEW d \in Endpoints, c # d
       PROVE  Evens(c, d, h, Nil, Nil, Nil)
  <2>1. /\ Weight(Nil, c, d) = 0 /\ Weight(Nil, d, c) = 0
        /\ Weight(h, c, d) = IF a = d /\ b = c THEN 1 ELSE 0
        /\ Weight(h, d, c) = IF a = c /\ b = d THEN 1 ELSE 0
    BY <1>7
  <2>2. /\ peer[b] = Null /\ a # b /\ Null \notin {c, d}
        /\ peer' = [peer EXCEPT ![b] = a] /\ peer \in [Endpoints -> Endpoints \cup {Null}]
    BY <1>2, <1>3, <1>5, <1>14, NullAssumption DEF Types
  <2>3. CASE c = b
    <3>1. peer'[c] = a /\ peer[c] = Null /\ peer'[d] = peer[d]
      BY <1>5, <1>14, <2>2, <2>3
    <3>2. One(peer[d], {c}) \in Nat /\ One(peer[c], {d}) = 0
          /\ One(peer'[c], {d}) = IF a = d THEN 1 ELSE 0
      BY <2>2, <3>1 DEF One
    <3>3. QED
      BY <1>14, <2>1, <2>3, <3>1, <3>2 DEF Evens
  <2>4. CASE d = b
    <3>1. peer'[d] = a /\ peer[d] = Null /\ peer'[c] = peer[c]
      BY <1>5, <1>14, <2>2, <2>4
    <3>2. One(peer[c], {d}) \in Nat /\ One(peer[d], {c}) = 0
          /\ One(peer'[d], {c}) = IF a = c THEN 1 ELSE 0
      BY <2>2, <3>1 DEF One
    <3>3. QED
      BY <1>14, <2>1, <2>4, <3>1, <3>2 DEF Evens
  <2>5. CASE c # b /\ d # b
    <3>1. peer'[c] = peer[c] /\ peer'[d] = peer[d]
      BY <2>2, <2>5
    <3>2. One(peer[c], {d}) \in Nat /\ One(peer[d], {c}) \in Nat
      BY DEF One
    <3>3. QED
      BY <2>1, <2>5, <3>1, <3>2 DEF Evens
  <2>6. QED
    BY <2>3, <2>4, <2>5
<1>15. /\ torn' \in BOOLEAN /\ (torn => torn') /\ mutex' \in Threads \cup {Null}
       /\ a \in Endpoints \cup {Null} /\ a # b
  BY <1>2, <1>3, <1>5 DEF Types
<1>16. Deathless(h, Nil, Nil)
  BY <1>6, <1>12 DEF Deathless
<1>17. ~ torn' => HandsOn(h, Nil, Nil, b, a) /\ EvensAll(h, Nil, Nil)
  BY <1>13, <1>14 DEF HandsOn, EvensAll
<1>18. UNCHANGED <<refs, owned, freed>> /\ peer' = [peer EXCEPT ![b] = a]
  BY <1>2
<1>19. QED
  BY <1>5, <1>8, <1>9, <1>10, <1>11, <1>15, <1>16, <1>17, <1>18, PointerKeeps

\* Taking the peer under the mutex keeps the invariant.
LEMMA TakePeerKeeps ==
  ASSUME EInv, NEW t \in Threads, TakePeer(t)
  PROVE  EInv'
<1> DEFINE h == Head(todo[t])  q == Tail(todo[t])  e == h.e  p == peer[e]
           x == Step("clear", e, p)
<1>1. todo[t] # <<>> /\ h.at = "lock" /\ mutex = Null
  BY DEF TakePeer, AtStep
<1>2. /\ IF p = Null THEN Goes(t, <<>>) /\ UNCHANGED mutex
         ELSE Goes(t, <<x>>) /\ mutex' = t
      /\ peer' = [peer EXCEPT ![e] = Null] /\ UNCHANGED <<refs, owned, freed, torn>>
  BY DEF TakePeer
<1>3. Types /\ Stacks /\ MutexIsHeld
  BY DEF EInv
<1>4. h \in Steps /\ h \in Good /\ OnTop(h, q) /\ Rest(q) /\ q \in Seq(Steps)
  BY <1>1, <1>3, TurnOf
<1> HIDE DEF h, q
<1>5. e \in Endpoints /\ Needs(h) = {e}
  BY <1>1, <1>4, StepsOf DEF DisconnectAt
<1>6. \A d \in Endpoints : One(h, HoldOf(d)) = 0 /\ One(h, FreeOf(d)) = 0
  BY <1>1, <1>4, KindOnes
<1>7. Pairless(h) /\ Pairless(Nil)
  BY <1>1, <1>4, PairlessIs
<1>8. CASE p = Null
  <2>1. peer' = peer
    BY <1>2, <1>3, <1>5, <1>8 DEF Types
  <2>2. Goes(t, <<>>) /\ UNCHANGED <<peer, refs, owned, freed, mutex, torn>>
    BY <1>2, <1>8, <2>1
  <2>3. Fair(h, Nil, Nil, Nil)
    BY <1>1, <1>3, <1>4, <2>2, IdleIsFair
  <2>4. QED
    BY <1>1, <2>2, <2>3, PopKeeps DEF h
<1>9. CASE p # Null
  <2>1. p \in Endpoints \ {e}
    BY <1>3, <1>5, <1>9 DEF Types
  <2>2. p = peer[e]
    OBVIOUS
  <2> HIDE DEF p, e
  <2>3. x \in Steps /\ x \in Good /\ x.at = "clear" /\ x.e = e /\ x.with = p
    BY <1>5, <2>1, StepIs
  <2> HIDE DEF x
  <2>4. \A d \in Endpoints : One(x, HoldOf(d)) = One(p, {d}) /\ One(x, FreeOf(d)) = 0
    BY <2>3, KindOnes
  <2>5. \A c, d \in Endpoints : Weight(x, c, d) = IF e = c /\ p = d THEN 1 ELSE 0
    BY <2>3, WeightIs
  <2> DEFINE s == Cons(x, q)
  <2>6. Stack(s) /\ s # <<>> /\ Head(s) = x
    <3>1. Needs(x) = Needs(h)
      BY <1>5, <2>3, StepsOf DEF DisconnectAt
    <3>2. OnTop(x, q)
      BY <1>4, <2>3, <3>1 DEF OnTop
    <3>3. QED
      BY <1>4, <3>2, OnRest
  <2>7. todo' = [todo EXCEPT ![t] = s]
    <3>1. <<x>> \o q = s
      BY <1>4, <2>3, StepsPushed
    <3>2. QED
      BY <1>2, <1>9, <3>1 DEF Goes, q
  <2>8. Moved(h, x, Nil, Nil)
    BY <1>1, <1>3, <2>3, <2>7, TurnMoves DEF h, q
  <2> HIDE DEF s
  <2>9. MutexIsHeld'
    <3>1. todo'[t] = s /\ \A u \in Threads \ {t} : todo'[u] = todo[u]
      BY <1>3, <2>6, <2>7, StacksKept
    <3>2. mutex' = t /\ AtStep(t, "clear")'
      BY <1>2, <1>9, <2>3, <2>6, <3>1 DEF AtStep
    <3>3. ASSUME NEW u \in Threads \ {t} PROVE mutex' # u /\ ~ AtStep(u, "clear")'
      <4>1. ~ AtStep(u, "clear")
        BY <1>1, <1>3, NullAssumption DEF MutexIsHeld
      <4>2. QED
        BY <3>1, <3>2, <4>1 DEF AtStep
    <3>4. QED
      BY <3>2, <3>3 DEF MutexIsHeld
  <2>10. ASSUME NEW d \in Endpoints
         PROVE  Sum(HoldOf(d), x, Nil, Nil) = One(p, {d}) /\ Sum(FreeOf(d), x, Nil, Nil) = 0
    BY <1>3, <2>3, <2>4, Numbers
  <2>11. ASSUME NEW d \in Endpoints
         PROVE  One(h, HoldOf(d)) + One(peer[e], {d})
                  = Sum(HoldOf(d), x, Nil, Nil) + One(Null, {d})
    <3>1. One(Null, {d}) = 0
      BY NullAssumption DEF One
    <3>2. One(p, {d}) \in Nat
      BY DEF One
    <3>3. QED
      BY <1>6, <2>2, <2>10, <3>1, <3>2
  <2>12. ASSUME NEW c \in Endpoints, NEW d \in Endpoints, c # d
         PROVE  Evens(c, d, h, x, Nil, Nil)
    <3>1. /\ Weight(h, c, d) = 0 /\ Weight(h, d, c) = 0
          /\ Weight(Nil, c, d) = 0 /\ Weight(Nil, d, c) = 0
          /\ Weight(x, c, d) = IF e = c /\ p = d THEN 1 ELSE 0
          /\ Weight(x, d, c) = IF e = d /\ p = c THEN 1 ELSE 0
      BY <1>7, <2>5 DEF Pairless
    <3>2. /\ peer[e] = p /\ Null \notin {c, d}
          /\ peer' = [peer EXCEPT ![e] = Null] /\ peer \in [Endpoints -> Endpoints \cup {Null}]
      BY <1>2, <1>3, <2>2, NullAssumption DEF Types
    <3>3. CASE c = e
      <4>1. peer'[c] = Null /\ peer[c] = p /\ peer'[d] = peer[d]
        BY <2>12, <3>2, <3>3
      <4>2. One(peer[d], {c}) \in Nat /\ One(peer'[c], {d}) = 0
            /\ One(peer[c], {d}) = IF p = d THEN 1 ELSE 0
        BY <3>2, <4>1 DEF One
      <4>3. QED
        BY <2>12, <3>1, <3>3, <4>1, <4>2 DEF Evens
    <3>4. CASE d = e
      <4>1. peer'[d] = Null /\ peer[d] = p /\ peer'[c] = peer[c]
        BY <2>12, <3>2, <3>4
      <4>2. One(peer[c], {d}) \in Nat /\ One(peer'[d], {c}) = 0
            /\ One(peer[d], {c}) = IF p = c THEN 1 ELSE 0
        BY <3>2, <4>1 DEF One
      <4>3. QED
        BY <2>12, <3>1, <3>4, <4>1, <4>2 DEF Evens
    <3>5. CASE c # e /\ d # e
      <4>1. peer'[c] = peer[c] /\ peer'[d] = peer[d]
        BY <3>2, <3>5
      <4>2. One(peer[c], {d}) \in Nat /\ One(peer[d], {c}) \in Nat
        BY DEF One
      <4>3. QED
        BY <3>1, <3>5, <4>1, <4>2 DEF Evens
    <3>6. QED
      BY <3>3, <3>4, <3>5
  <2>13. /\ torn' \in BOOLEAN /\ (torn => torn') /\ mutex' \in Threads \cup {Null}
         /\ Null \in Endpoints \cup {Null} /\ Null # e
    BY <1>2, <1>3, <1>5, <1>9, NullAssumption DEF Types
  <2>14. Deathless(h, x, Nil)
    BY <1>6, <2>10 DEF Deathless
  <2>15. ~ torn' => HandsOn(h, x, Nil, e, Null) /\ EvensAll(h, x, Nil)
    BY <2>11, <2>12 DEF HandsOn, EvensAll
  <2>16. UNCHANGED <<refs, owned, freed>> /\ peer' = [peer EXCEPT ![e] = Null]
    BY <1>2
  <2>17. QED
    BY <1>5, <2>6, <2>7, <2>8, <2>9, <2>13, <2>14, <2>15, <2>16, PointerKeeps
<1>10. QED
  BY <1>8, <1>9

\* Whoever is pointed at is alive.
LEMMA PointedCounts ==
  ASSUME EInv, ~ torn, NEW a \in Endpoints, NEW e \in Endpoints, peer[a] = e
  PROVE  refs[e] \in Nat /\ refs[e] # 0
<1>1. /\ IsFiniteSet(PointsAt(peer, e))
      /\ refs[e] = One(e, owned) + Cardinality(PointsAt(peer, e)) + N(todo, HoldOf(e))
  BY DEF EInv, Counted, CountedAt
<1>2. a \in PointsAt(peer, e)
  BY DEF PointsAt
<1>3. Cardinality(PointsAt(peer, e)) \in Nat /\ Cardinality(PointsAt(peer, e)) # 0
  BY <1>1, <1>2, FS_EmptySet, FS_CardinalityType
<1>4. One(e, owned) \in Nat /\ N(todo, HoldOf(e)) \in Nat
  BY FewSteps, KindsOfSteps DEF One, EInv
<1>5. QED
  BY <1>1, <1>3, <1>4

\* Clearing the pointer of the peer keeps the invariant.
LEMMA ClearPeerKeeps ==
  ASSUME EInv, NEW t \in Threads, ClearPeer(t)
  PROVE  EInv'
<1> DEFINE h == Head(todo[t])  q == Tail(todo[t])  e == h.e  p == h.with
           x == Step("deref", p, Null)  y == Step("deref", e, Null)
<1>1. todo[t] # <<>> /\ h.at = "clear"
  BY DEF ClearPeer, AtStep
<1>2. /\ peer' = [peer EXCEPT ![p] = Null] /\ torn' = (torn \/ peer[p] # e) /\ mutex' = Null
      /\ Goes(t, IF Alive(e) THEN <<x, y>> ELSE <<x>>) /\ UNCHANGED <<refs, owned, freed>>
  BY DEF ClearPeer, Tear
<1>3. Types /\ Stacks /\ MutexIsHeld
  BY DEF EInv
<1>4. h \in Steps /\ h \in Good /\ Rest(q) /\ q \in Seq(Steps)
  BY <1>1, <1>3, TurnOf
<1>5. mutex = t
  BY <1>1, <1>3 DEF MutexIsHeld, AtStep
<1> HIDE DEF h, q
<1>6. e \in Endpoints /\ p \in Endpoints \ {e}
  BY <1>1, <1>4, StepsOf
<1>7. \A d \in Endpoints : One(h, HoldOf(d)) = One(p, {d}) /\ One(h, FreeOf(d)) = 0
  BY <1>1, <1>4, KindOnes
<1>8. \A c, d \in Endpoints : Weight(h, c, d) = IF e = c /\ p = d THEN 1 ELSE 0
  BY <1>1, <1>4, WeightIs
<1> HIDE DEF e, p
<1>9. /\ x \in Steps /\ x \in Good /\ x.at = "deref" /\ x.e = p
      /\ y \in Steps /\ y \in Good /\ y.at = "deref" /\ y.e = e
  BY <1>6, StepIs
<1> HIDE DEF x, y
<1>10. \A d \in Endpoints : /\ One(x, HoldOf(d)) = One(p, {d}) /\ One(x, FreeOf(d)) = 0
                            /\ One(y, HoldOf(d)) = One(e, {d}) /\ One(y, FreeOf(d)) = 0
  BY <1>9, KindOnes
<1>11. Pairless(x) /\ Pairless(y) /\ Pairless(Nil)
  BY <1>9, PairlessIs
<1>12. ASSUME NEW r, Rest(r) PROVE OnTop(x, r) /\ OnTop(y, r) /\ x.at \in Below /\ y.at \in Below
  <2>1. \A s \in {x, y} : s.at \notin ConnectAt \cup DisconnectAt
    BY <1>9 DEF ConnectAt, DisconnectAt
  <2>2. \A s \in {x, y} : Needs(s) = {} /\ s \in Good
    BY <1>9, <2>1, StepsOf
  <2>3. QED
    BY <1>9, <2>2 DEF OnTop, Below
<1>13. ASSUME NEW s, Stack(s), s # <<>>, Head(s) = x, todo' = [todo EXCEPT ![t] = s]
       PROVE  MutexIsHeld'
  <2>1. todo'[t] = s /\ \A u \in Threads \ {t} : todo'[u] = todo[u]
    BY <1>3, <1>13, StacksKept
  <2>2. mutex' \notin Threads /\ ~ AtStep(t, "clear")'
    BY <1>2, <1>9, <1>13, <2>1, NullAssumption DEF AtStep
  <2>3. ASSUME NEW u \in Threads \ {t} PROVE ~ AtStep(u, "clear")'
    <3>1. ~ AtStep(u, "clear")
      BY <1>3, <1>5 DEF MutexIsHeld
    <3>2. QED
      BY <2>1, <3>1 DEF AtStep
  <2>4. QED
    BY <2>2, <2>3 DEF MutexIsHeld
<1>14. /\ torn' \in BOOLEAN /\ (torn => torn') /\ mutex' \in Threads \cup {Null}
       /\ Null \in Endpoints \cup {Null} /\ Null # p
  BY <1>2, <1>3, <1>6, NullAssumption DEF Types
<1>15. UNCHANGED <<refs, owned, freed>> /\ peer' = [peer EXCEPT ![p] = Null]
  BY <1>2
<1>16. CASE Alive(e)
  <2> DEFINE r == Cons(y, q)  s == Cons(x, r)
  <2>1. Rest(r) /\ r \in Seq(Steps)
    <3>1. Rest(r)
      BY <1>4, <1>12, OnRest
    <3>2. QED
      BY <3>1 DEF Rest
  <2>2. Stack(s) /\ s # <<>> /\ Head(s) = x
    <3> HIDE DEF r
    <3>1. OnTop(x, r)
      BY <1>12, <2>1
    <3>2. QED
      BY <2>1, <3>1, OnRest
  <2>3. todo' = [todo EXCEPT ![t] = s]
    <3>1. <<x, y>> \o q = s
      BY <1>4, <1>9, StepsPushed
    <3>2. QED
      BY <1>2, <1>16, <3>1 DEF Goes, q
  <2>4. Moved(h, x, y, Nil)
    BY <1>1, <1>3, <1>9, <2>3, TurnMoves DEF h, q
  <2> HIDE DEF s
  <2>5. MutexIsHeld'
    BY <1>13, <2>2, <2>3
  <2>6. ASSUME NEW d \in Endpoints
        PROVE  /\ Sum(HoldOf(d), x, y, Nil) = One(p, {d}) + One(e, {d})
               /\ Sum(FreeOf(d), x, y, Nil) = 0
    <3>1. /\ Sum(HoldOf(d), x, y, Nil) = One(x, HoldOf(d)) + One(y, HoldOf(d))
          /\ Sum(FreeOf(d), x, y, Nil) = One(x, FreeOf(d)) + One(y, FreeOf(d))
      BY <1>3, <1>9, Numbers
    <3>2. QED
      BY <1>10, <3>1
  <2>7. ASSUME ~ torn', NEW d \in Endpoints
        PROVE  One(h, HoldOf(d)) + One(peer[p], {d})
                 = Sum(HoldOf(d), x, y, Nil) + One(Null, {d})
    <3>1. One(Null, {d}) = 0 /\ peer[p] = e
      BY <1>2, <2>7, NullAssumption DEF One
    <3>2. One(p, {d}) \in Nat /\ One(e, {d}) \in Nat
      BY DEF One
    <3>3. QED
      BY <1>7, <2>6, <3>1, <3>2
  <2>8. ASSUME ~ torn', NEW c \in Endpoints, NEW d \in Endpoints, c # d
        PROVE  Evens(c, d, h, x, y, Nil)
    <3>1. /\ Weight(x, c, d) = 0 /\ Weight(x, d, c) = 0
          /\ Weight(y, c, d) = 0 /\ Weight(y, d, c) = 0
          /\ Weight(Nil, c, d) = 0 /\ Weight(Nil, d, c) = 0
          /\ Weight(h, c, d) = IF e = c /\ p = d THEN 1 ELSE 0
          /\ Weight(h, d, c) = IF e = d /\ p = c THEN 1 ELSE 0
      BY <1>8, <1>11 DEF Pairless
    <3>2. /\ peer[p] = e /\ p # e /\ Null \notin {c, d}
          /\ peer' = [peer EXCEPT ![p] = Null] /\ peer \in [Endpoints -> Endpoints \cup {Null}]
      BY <1>2, <1>3, <1>6, <2>8, NullAssumption DEF Types
    <3>3. CASE c = p
      <4>1. peer'[c] = Null /\ peer[c] = e /\ peer'[d] = peer[d]
        BY <2>8, <3>2, <3>3
      <4>2. One(peer[d], {c}) \in Nat /\ One(peer'[c], {d}) = 0
            /\ One(peer[c], {d}) = IF e = d THEN 1 ELSE 0
        BY <3>2, <4>1 DEF One
      <4>3. QED
        BY <2>8, <3>1, <3>2, <3>3, <4>1, <4>2 DEF Evens
    <3>4. CASE d = p
      <4>1. peer'[d] = Null /\ peer[d] = e /\ peer'[c] = peer[c]
        BY <2>8, <3>2, <3>4
      <4>2. One(peer[c], {d}) \in Nat /\ One(peer'[d], {c}) = 0
            /\ One(peer[d], {c}) = IF e = c THEN 1 ELSE 0
        BY <3>2, <4>1 DEF One
      <4>3. QED
        BY <2>8, <3>1, <3>2, <3>4, <4>1, <4>2 DEF Evens
    <3>5. CASE c # p /\ d # p
      <4>1. peer'[c] = peer[c] /\ peer'[d] = peer[d]
        BY <3>2, <3>5
      <4>2. One(peer[c], {d}) \in Nat /\ One(peer[d], {c}) \in Nat
        BY DEF One
      <4>3. QED
        BY <3>1, <3>5, <4>1, <4>2 DEF Evens
    <3>6. QED
      BY <3>3, <3>4, <3>5
  <2>9. Deathless(h, x, y)
    BY <1>7, <2>6 DEF Deathless
  <2>10. ~ torn' => HandsOn(h, x, y, p, Null) /\ EvensAll(h, x, y)
    BY <2>7, <2>8 DEF HandsOn, EvensAll
  <2>11. QED
    BY <1>6, <1>14, <1>15, <2>2, <2>3, <2>4, <2>5, <2>9, <2>10, PointerKeeps
<1>17. CASE ~ Alive(e)
  <2> DEFINE s == Cons(x, q)
  <2>1. Stack(s) /\ s # <<>> /\ Head(s) = x
    BY <1>4, <1>12, OnRest
  <2>2. todo' = [todo EXCEPT ![t] = s]
    <3>1. <<x>> \o q = s
      BY <1>4, <1>9, StepsPushed
    <3>2. QED
      BY <1>2, <1>17, <3>1 DEF Goes, q
  <2>3. Moved(h, x, Nil, Nil)
    BY <1>1, <1>3, <1>9, <2>2, TurnMoves DEF h, q
  <2> HIDE DEF s
  <2>4. MutexIsHeld'
    BY <1>13, <2>1, <2>2
  <2>5. torn'
    <3>1. SUFFICES ASSUME ~ torn' PROVE FALSE
      OBVIOUS
    <3>2. ~ torn /\ peer[p] = e
      BY <1>2, <3>1
    <3>3. refs[e] \in Nat /\ refs[e] # 0
      BY <1>6, <3>2, PointedCounts
    <3>4. QED
      BY <1>17, <3>3 DEF Alive
  <2>6. Deathless(h, x, Nil)
    BY <1>3, <1>7, <1>9, <1>10, Numbers DEF Deathless
  <2>7. QED
    BY <1>6, <1>14, <1>15, <2>1, <2>2, <2>3, <2>4, <2>5, <2>6, PointerKeeps
<1>18. QED
  BY <1>16, <1>17

(***************************************************************************)
(* The invariant of the specification.                                     *)
(***************************************************************************)

\* The invariant holds at the start.
LEMMA InitInv ==
  ASSUME Init
  PROVE  EInv
<1>1. /\ peer = [e \in Endpoints |-> Null] /\ refs = [e \in Endpoints |-> 1]
      /\ owned = Endpoints /\ freed = {} /\ mutex = Null
      /\ todo = [t \in Threads |-> <<>>] /\ torn = FALSE
  BY DEF Init
<1>2. \A t \in Threads : todo[t] = <<>>
  BY <1>1
<1>3. \A S : IsFiniteSet(At(todo, S)) /\ N(todo, S) = 0
  <2>1. ASSUME NEW S PROVE At(todo, S) = {}
    BY <1>2 DEF At
  <2>2. QED
    BY <2>1, FS_EmptySet DEF N
<1>4. Types
  <2>1. <<>> \in Seq(Steps)
    OBVIOUS
  <2>2. QED
    BY <1>1, <1>3, <2>1, NullAssumption DEF Types
<1>5. Stacks
  <2>1. <<>> \in Seq(Steps) /\ Stack(<<>>)
    BY DEF Stack
  <2>2. QED
    BY <1>2, <2>1 DEF Stacks
<1>6. Counted
  <2>1. ASSUME NEW e \in Endpoints PROVE CountedAt(e)
    <3>1. PointsAt(peer, e) = {}
      BY <1>1, NullAssumption DEF PointsAt
    <3>2. IsFiniteSet(PointsAt(peer, e)) /\ Cardinality(PointsAt(peer, e)) = 0
      BY <3>1, FS_EmptySet
    <3>3. refs[e] = 1 /\ One(e, owned) = 1
      BY <1>1 DEF One
    <3>4. QED
      BY <1>3, <3>2, <3>3 DEF CountedAt
  <2>2. QED
    BY <2>1 DEF Counted
<1>7. DiesOnce
  <2>1. ASSUME NEW e \in Endpoints PROVE One(e, freed) = 0 /\ One(refs[e], {0}) = 0
    BY <1>1 DEF One
  <2>2. QED
    BY <1>3, <2>1 DEF DiesOnce
<1>8. Balanced
  <2>1. ASSUME NEW a \in Endpoints, NEW b \in Endpoints PROVE Owes(a, b) = 0
    <3>1. One(peer[a], {b}) = 0
      BY <1>1, NullAssumption DEF One
    <3>2. QED
      BY <1>3, <3>1 DEF Owes
  <2>2. QED
    BY <2>1 DEF Balanced
<1>9. MutexIsHeld
  BY <1>1, <1>2, NullAssumption DEF MutexIsHeld, AtStep
<1>10. QED
  BY <1>4, <1>5, <1>6, <1>7, <1>8, <1>9 DEF EInv

\* Nothing that stays is lost.
LEMMA StutterKeeps ==
  ASSUME EInv, UNCHANGED vars
  PROVE  EInv'
<1>1. UNCHANGED <<peer, refs, owned, freed, mutex, todo, torn>>
  BY DEF vars
<1>2. Types' /\ Stacks' /\ DiesOnce'
  BY <1>1 DEF EInv, Types, Stacks, DiesOnce
<1>3. MutexIsHeld'
  BY <1>1 DEF EInv, MutexIsHeld, AtStep
<1>4. ~ torn' => Counted' /\ Balanced'
  BY <1>1 DEF EInv, Counted, CountedAt, Balanced, Owes
<1>5. QED
  BY <1>2, <1>3, <1>4 DEF EInv

\* Every step keeps it.
LEMMA NextKeeps ==
  ASSUME EInv, [Next]_vars
  PROVE  EInv'
<1>1. CASE UNCHANGED vars
  BY <1>1, StutterKeeps
<1>2. ASSUME NEW t \in Threads, Caller(t) PROVE EInv'
  <2>1. CASE \E a, b \in Endpoints : Connect(t, a, b)
    BY <2>1, ConnectKeeps
  <2>2. CASE \E e \in Endpoints : Disconnect(t, e) \/ Release(t, e)
    BY <2>2, DisconnectKeeps, ReleaseKeeps
  <2>3. QED
    BY <1>2, <2>1, <2>2 DEF Caller
<1>3. ASSUME NEW t \in Threads, Callee(t) PROVE EInv'
  <2>1. CASE Check(t)
    BY <2>1, CheckKeeps
  <2>2. CASE PeerRef(t)
    BY <2>2, PeerRefKeeps
  <2>3. CASE PointAtPeer(t)
    BY <2>3, PointAtPeerKeeps
  <2>4. CASE SetPeer(t)
    BY <2>4, SetPeerKeeps
  <2>5. CASE Look(t)
    BY <2>5, LookKeeps
  <2>6. CASE TakePeer(t)
    BY <2>6, TakePeerKeeps
  <2>7. CASE ClearPeer(t)
    BY <2>7, ClearPeerKeeps
  <2>8. CASE Deref(t)
    BY <2>8, DerefKeeps
  <2>9. CASE Free(t)
    BY <2>9, FreeKeeps
  <2>10. QED
    BY <1>3, <2>1, <2>2, <2>3, <2>4, <2>5, <2>6, <2>7, <2>8, <2>9 DEF Callee
<1>4. QED
  BY <1>1, <1>2, <1>3 DEF Next

\* The invariant of every behaviour: a dead endpoint is deleted once, a step only
\* works on endpoints that a step below it keeps, and until a pointer is
\* overwritten each counter is the number of the references there are and two
\* endpoints owe each other as many pointers (Channel.cpp, TelEngine.cpp).
THEOREM EndpointInvariant ==
  Spec => []EInv
<1>1. Init => EInv
  BY InitInv
<1>2. EInv /\ [Next]_vars => EInv'
  BY NextKeeps
<1>3. QED
  BY <1>1, <1>2, PTL DEF Spec

\* No endpoint that is deleted still counts references.
LEMMA FreedAreDead ==
  ASSUME EInv, NEW e \in freed
  PROVE  e \in Endpoints /\ refs[e] = 0
<1>1. e \in Endpoints
  BY DEF EInv, Types
<1>2. N(todo, FreeOf(e)) + One(e, freed) = One(refs[e], {0})
  BY <1>1 DEF EInv, DiesOnce
<1>3. N(todo, FreeOf(e)) \in Nat /\ One(e, freed) = 1
  BY FewSteps, KindsOfSteps DEF EInv, One
<1>4. QED
  BY <1>1, <1>2, <1>3 DEF One

\* The references the steps stand for are those of the steps that hold one.
LEMMA HeldIsAt ==
  ASSUME Types, NEW e
  PROVE  Held(e) = At(todo, HoldOf(e))
<1>1. ASSUME NEW t \in Threads
      PROVE  {k \in DOMAIN todo[t] : Holds(todo[t][k], e)}
               = {k \in DOMAIN todo[t] : todo[t][k] \in HoldOf(e)}
  <2>1. \A k \in DOMAIN todo[t] : todo[t][k] \in Steps
    BY DEF Types
  <2>2. QED
    BY <2>1 DEF HoldOf
<1>2. QED
  BY <1>1 DEF Held, At

\* The counter of an endpoint is the number of its references (RefObject of
\* TelEngine.cpp, connect and disconnect of Channel.cpp).
LEMMA InvCounts ==
  ASSUME EInv
  PROVE  RefsAreCounted
<1>1. Types
  BY DEF EInv
<1>2. TypeOK
  <2>1. freed \subseteq {e \in Endpoints : refs[e] = 0}
    BY FreedAreDead
  <2>2. ASSUME NEW t \in Threads, NEW k \in DOMAIN todo[t] PROVE todo[t][k] \in Steps
    BY <1>1 DEF Types
  <2>3. \A t \in Threads : mutex = t <=> AtStep(t, "clear")
    BY DEF EInv, MutexIsHeld
  <2>4. /\ peer \in [Endpoints -> Endpoints \cup {Null}]
        /\ refs \in [Endpoints -> Nat] /\ owned \subseteq Endpoints /\ torn \in BOOLEAN
    BY <1>1 DEF Types
  <2>5. QED
    BY <2>1, <2>2, <2>3, <2>4 DEF TypeOK
<1>3. ASSUME ~ torn, NEW e \in Endpoints
      PROVE  refs[e] = (IF e \in owned THEN 1 ELSE 0)
                       + Cardinality({x \in Endpoints : peer[x] = e})
                       + Cardinality(Held(e))
  <2>1. refs[e] = One(e, owned) + Cardinality(PointsAt(peer, e)) + N(todo, HoldOf(e))
    BY <1>3 DEF EInv, Counted, CountedAt
  <2>2. Held(e) = At(todo, HoldOf(e))
    BY <1>1, HeldIsAt
  <2>3. QED
    BY <2>1, <2>2 DEF One, PointsAt, N
<1>4. QED
  BY <1>2, <1>3 DEF RefsAreCounted

\* What a step in a stack relies on is held, or about to be deleted, by
\* another step of the same stack.
LEMMA Covered ==
  ASSUME NEW s, Stack(s), NEW i \in Items(s), NEW y \in Needs(i)
  PROVE  Items(s) \cap CoverOf(y) # {}
<1> DEFINE h == Head(s)  q == Tail(s)
<1>1. s \in Seq(Steps) /\ s # <<>>
  BY ItemsAre DEF Stack
<1>2. h \in Steps /\ q \in Seq(Steps) /\ s = Cons(h, q) /\ Rest(q) /\ OnTop(h, q)
  BY <1>1, ConsAll DEF Stack
<1> HIDE DEF h, q
<1>3. Items(s) = {h} \cup Items(q)
  BY <1>2, StepsPushed
<1>4. CASE i = h
  BY <1>2, <1>3, <1>4 DEF OnTop
<1>5. CASE i \in Items(q)
  <2>1. PICK k \in DOMAIN q : i = q[k]
    BY <1>5 DEF Items
  <2>2. PICK j \in DOMAIN q : q[j] \in CoverOf(y)
    BY <1>2, <2>1 DEF Rest
  <2>3. q[j] \in Items(q)
    BY DEF Items
  <2>4. QED
    BY <1>3, <2>2, <2>3
<1>6. QED
  BY <1>3, <1>4, <1>5

\* Only the first step of a thread can be another one than those that wait.
LEMMA NotBelow ==
  ASSUME EInv, NEW u \in Threads, NEW y \in Items(todo[u]), y.at \notin Below
  PROVE  todo[u] # <<>> /\ y = Head(todo[u])
<1>1. todo[u] # <<>>
  BY ItemsAre
<1> DEFINE h == Head(todo[u])  q == Tail(todo[u])
<1>2. Items(todo[u]) = {h} \cup Items(q) /\ \A z \in Items(q) : z.at \in Below
  BY <1>1, TurnOf DEF EInv
<1> HIDE DEF h, q
<1>3. QED
  BY <1>1, <1>2 DEF h

\* The steps in the stacks are good.
LEMMA ItemsGood ==
  ASSUME EInv, NEW u \in Threads, NEW y \in Items(todo[u])
  PROVE  y \in Good /\ y \in Steps
<1>1. todo[u] # <<>>
  BY ItemsAre
<1> DEFINE h == Head(todo[u])  q == Tail(todo[u])
<1>2. /\ Items(todo[u]) = {h} \cup Items(q) /\ h \in Good
      /\ \A z \in Items(q) : z \in Good
  BY <1>1, TurnOf DEF EInv
<1> HIDE DEF h, q
<1>3. QED
  BY <1>2 DEF Good

\* A kind of steps that is counted is on some stack.
LEMMA SomeStep ==
  ASSUME Types, NEW S \in SUBSET Steps, N(todo, S) # 0
  PROVE  \E t \in Threads : \E s \in Items(todo[t]) : s \in S
<1>1. At(todo, S) # {}
  BY FS_EmptySet DEF N
<1>2. PICK z : z \in At(todo, S)
  BY <1>1
<1>3. PICK t \in Threads : \E k \in DOMAIN todo[t] : z = <<t, k>> /\ todo[t][k] \in S
  BY <1>2, AtIs
<1>4. QED
  BY <1>3 DEF Items

\* Two endpoints agree, as what they owe each other does (connect and disconnect
\* of Channel.cpp).
LEMMA InvAgrees ==
  ASSUME EInv, ~ torn
  PROVE  PeersAgree
<1>1. Types /\ Balanced
  BY DEF EInv
<1>2. SUFFICES ASSUME NEW a \in Endpoints, NEW b \in Endpoints, peer[a] = b, peer[b] # a
               PROVE  \E t \in Threads :
                        /\ todo[t] # <<>>
                        /\ Head(todo[t]) \in {Step("setpeer", a, b), Step("clear", b, a)}
  BY DEF PeersAgree
<1>3. a # b
  BY <1>1, <1>2 DEF Types
<1>4. Owes(a, b) = Owes(b, a)
  BY <1>1, <1>3 DEF Balanced
<1>5. One(peer[a], {b}) = 1 /\ One(peer[b], {a}) = 0
  BY <1>2 DEF One
<1>6. /\ N(todo, SetOf(b, a)) \in Nat /\ N(todo, TakenOf(a, b)) \in Nat
      /\ N(todo, SetOf(a, b)) \in Nat /\ N(todo, TakenOf(b, a)) \in Nat
  BY <1>1, FewSteps, KindsOfSteps
<1>7. N(todo, SetOf(a, b)) # 0 \/ N(todo, TakenOf(b, a)) # 0
  BY <1>4, <1>5, <1>6 DEF Owes
<1>8. PICK t \in Threads : \E s \in Items(todo[t]) : s \in SetOf(a, b) \cup TakenOf(b, a)
  BY <1>1, <1>7, SomeStep, KindsOfSteps
<1>9. PICK s \in Items(todo[t]) : s \in SetOf(a, b) \cup TakenOf(b, a)
  BY <1>8
<1>10. s.at \notin Below
  BY <1>9 DEF SetOf, TakenOf, Below
<1>11. todo[t] # <<>> /\ s = Head(todo[t])
  BY <1>9, <1>10, NotBelow
<1>12. s \in {Step("setpeer", a, b), Step("clear", b, a)}
  BY <1>9 DEF SetOf, TakenOf, Step, Steps
<1>13. QED
  BY <1>11, <1>12

\* Until a pointer is overwritten a dead endpoint is alone, and nobody works on
\* a deleted one (disconnect and destroyed of Channel.cpp).
LEMMA InvIsolates ==
  ASSUME EInv
  PROVE  DeadIsAlone
<1> SUFFICES ASSUME ~ torn
             PROVE  /\ \A e \in Endpoints :
                         ~ Alive(e) => peer[e] = Null /\ e \notin {peer[x] : x \in Endpoints}
                    /\ \A t \in Threads : \A k \in DOMAIN todo[t] :
                         {todo[t][k].e, todo[t][k].with} \cap freed = {}
  BY DEF DeadIsAlone
<1>1. Types /\ Stacks /\ PeersAgree
  BY InvAgrees DEF EInv
<1>2. ASSUME NEW e \in Endpoints, ~ Alive(e)
      PROVE  peer[e] = Null /\ e \notin {peer[x] : x \in Endpoints}
  <2>1. refs[e] = 0
    BY <1>1, <1>2 DEF Alive, Types
  <2>2. \A x \in Endpoints : peer[x] # e
    BY <2>1, PointedCounts
  <2>3. ASSUME peer[e] # Null PROVE FALSE
    <3> DEFINE b == peer[e]
    <3>1. b \in Endpoints /\ peer[b] # e
      BY <1>1, <2>2, <2>3 DEF Types
    <3>2. PICK u \in Threads :
            /\ todo[u] # <<>>
            /\ Head(todo[u]) \in {Step("setpeer", e, b), Step("clear", b, e)}
      BY <1>1, <3>1 DEF PeersAgree
    <3> DEFINE s == Head(todo[u])
    <3>3. s \in Items(todo[u]) /\ s \in Steps
      BY <1>1, <3>2, HeadIsItem
    <3>4. (s.at = "setpeer" /\ s.e = e) \/ (s.at = "clear" /\ s.with = e)
      BY <3>2 DEF Step
    <3> HIDE DEF s
    <3>5. s \in HoldOf(e)
      BY <3>3, <3>4 DEF HoldOf, Holds
    <3>6. refs[e] \in Nat /\ refs[e] >= 1
      BY <3>3, <3>5, HoldCounts
    <3>7. QED
      BY <2>1, <3>6
  <2>4. QED
    BY <2>2, <2>3
<1>3. ASSUME NEW t \in Threads, NEW k \in DOMAIN todo[t]
      PROVE  {todo[t][k].e, todo[t][k].with} \cap freed = {}
  <2> DEFINE s == todo[t][k]
  <2>1. s \in Items(todo[t])
    BY DEF Items
  <2> HIDE DEF s
  <2>2. s \in Good /\ s \in Steps
    BY <2>1, ItemsGood
  <2>3. ASSUME NEW y \in Endpoints, Items(todo[t]) \cap CoverOf(y) # {} PROVE y \notin freed
    <3>1. PICK i \in Items(todo[t]) : i \in HoldOf(y) \/ i \in FreeOf(y)
      BY <2>3 DEF CoverOf
    <3>2. CASE i \in FreeOf(y)
      BY <3>1, <3>2, FreeCounts
    <3>3. CASE i \in HoldOf(y)
      <4>1. refs[y] \in Nat /\ refs[y] >= 1
        BY <3>1, <3>3, HoldCounts
      <4>2. refs[y] # 0
        BY <4>1
      <4>3. QED
        BY <4>2, FreedAreDead
    <3>4. QED
      BY <3>1, <3>2, <3>3
  <2>4. Null \notin freed
    BY <1>1, NullAssumption DEF Types
  <2>5. Stack(todo[t])
    BY <1>1 DEF Stacks
  <2>6. ASSUME NEW y \in Needs(s), y \in Endpoints PROVE y \notin freed
    <3>1. Items(todo[t]) \cap CoverOf(y) # {}
      BY <2>1, <2>5, <2>6, Covered
    <3>2. QED
      BY <2>3, <2>6, <3>1
  <2>7. /\ s.e \in Endpoints
        /\ s.at \in ConnectAt \cup {"clear"} => s.with \in Endpoints
        /\ s.at \in ConnectAt => Needs(s) = {s.e, s.with}
        /\ s.at \in DisconnectAt => Needs(s) = {s.e}
    BY <2>2, StepsOf
  <2>8. s.e \notin freed
    <3>1. CASE s.at \in ConnectAt \cup DisconnectAt
      BY <2>6, <2>7, <3>1
    <3>2. CASE s.at \in {"deref", "free"}
      <4>1. s \in CoverOf(s.e)
        BY <2>2, <3>2 DEF CoverOf, HoldOf, FreeOf, Holds
      <4>2. QED
        BY <2>1, <2>3, <2>7, <4>1
    <3>3. QED
      BY <2>2, <3>1, <3>2 DEF Steps, ConnectAt, DisconnectAt
  <2>9. s.with \notin freed
    <3>1. CASE s.at \in ConnectAt
      BY <2>6, <2>7, <3>1
    <3>2. CASE s.at = "clear"
      <4>1. s \in CoverOf(s.with)
        BY <2>2, <3>2 DEF CoverOf, HoldOf, Holds
      <4>2. QED
        BY <2>1, <2>3, <2>7, <3>2, <4>1
    <3>3. CASE s.at \notin ConnectAt \cup {"clear"}
      BY <2>2, <2>4, <3>3 DEF Good
    <3>4. QED
      BY <3>1, <3>2, <3>3
  <2>10. QED
    BY <2>8, <2>9 DEF s
<1>4. QED
  BY <1>2, <1>3

-----------------------------------------------------------------------------
\* For every number of threads and endpoints the counter of an endpoint is the
\* number of its references, until a pointer is overwritten that another thread
\* changed (connect and disconnect of Channel.cpp, RefObject of TelEngine.cpp).
THEOREM RefsAreCountedHolds ==
  Spec => []RefsAreCounted
BY EndpointInvariant, InvCounts, PTL

\* For every number of threads and endpoints a destroyed endpoint is alone and
\* nobody works on a deleted one, until a pointer is overwritten (disconnect and
\* destroyed of Channel.cpp).
THEOREM DeadIsAloneHolds ==
  Spec => []DeadIsAlone
BY EndpointInvariant, InvIsolates, PTL

\* For every number of threads and endpoints, whatever connects while another
\* thread connects or disconnects, the two of a pair agree until one of the
\* three assignments overwrites a pointer (Channel.cpp:150-160, 164-202).
THEOREM AgreeUntilTornHolds ==
  Spec => []AgreeUntilTorn
<1>1. EInv => AgreeUntilTorn
  BY InvAgrees DEF AgreeUntilTorn
<1>2. QED
  BY <1>1, EndpointInvariant, PTL
=============================================================================
