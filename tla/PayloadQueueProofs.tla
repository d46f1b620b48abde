------------------------- MODULE PayloadQueueProofs -------------------------
(***************************************************************************)
(* For any budgets, sizes, segment lengths and numbers of payloads, clears *)
(* and restarts: the state is well typed, the accounting of the queue is   *)
(* exact, no payload vanishes unless a sync fails or a record is too large *)
(* for a frame, and clears that do not overlap discard only what the       *)
(* database would reject.                                                  *)
(***************************************************************************)
EXTENDS PayloadQueueInvariants, SequenceTheorems, WellFoundedInduction, NaturalsInduction, TLAPS

--------------------
(* Numbers. *)
LEMMA LeastExists ==
  ASSUME NEW S, S \subseteq Nat, S # {}
  PROVE  \E m \in S : \A n \in S : m <= n
<1> DEFINE R == OpToRel(<, Nat)
<1>1. IsWellFoundedOn(R, Nat) BY NatLessThanWellFounded
<1>2. \A n, m \in S : n < m => <<n, m>> \in R BY Zenon DEF OpToRel
<1> HIDE DEF R
<1>3. PICK m \in S : \A n \in S : ~ (<<n, m>> \in R) BY <1>1, WFMin
<1>4. \A n \in S : ~(n < m) BY <1>2, <1>3
<1> QED BY <1>4

(* Induction, over a set. *)
LEMMA Induction ==
  ASSUME NEW S, 0 \in S, \A n \in Nat : n \in S => n + 1 \in S
  PROVE  \A n \in Nat : n \in S
<1> SUFFICES ASSUME NEW k \in Nat, k \notin S PROVE FALSE OBVIOUS
<1>1. PICK m \in Nat \ S : \A n \in Nat \ S : m <= n BY LeastExists, Nat \ S # {}
<1>2. m # 0 /\ m - 1 \in Nat BY <1>1
<1>3. m - 1 \in S BY <1>1, <1>2
<1> QED BY <1>1, <1>2, <1>3

LEMMA Recursion ==
  ASSUME NEW A, NEW a \in A, NEW N \in Nat, NEW D \in [1 .. N -> [A -> A]]
  PROVE  \E g : Recursive(A, a, N, D, g)
<1> DEFINE Good(m, g) == g[0] = a /\ \A n \in 1 .. m : g[n] = D[n][g[n - 1]]
           S == {m \in Nat : m <= N => \E g \in [0 .. m -> A] : Good(m, g)}
<1>1. 0 \in S
  <2>1. [n \in 0 .. 0 |-> a] \in [0 .. 0 -> A] /\ Good(0, [n \in 0 .. 0 |-> a]) OBVIOUS
  <2> QED BY <2>1
<1>2. ASSUME NEW m \in Nat, m \in S PROVE m + 1 \in S
  <2> SUFFICES ASSUME m + 1 <= N PROVE \E g \in [0 .. m + 1 -> A] : Good(m + 1, g) OBVIOUS
  <2>1. PICK g \in [0 .. m -> A] : Good(m, g) BY <1>2
  <2> DEFINE h == [n \in 0 .. m + 1 |-> IF n = m + 1 THEN D[m + 1][g[m]] ELSE g[n]]
  <2>2. h \in [0 .. m + 1 -> A] BY <2>1
  <2>3. h[0] = a BY <2>1
  <2>4. ASSUME NEW n \in 1 .. m + 1 PROVE h[n] = D[n][h[n - 1]]
    <3>1. CASE n = m + 1 BY <3>1, <2>1
    <3>2. CASE n # m + 1
      <4>1. n \in 1 .. m /\ n - 1 \in 0 .. m BY <3>2
      <4>2. h[n] = g[n] /\ h[n - 1] = g[n - 1] BY <3>2, <4>1
      <4> QED BY <4>1, <4>2, <2>1
    <3> QED BY <3>1, <3>2
  <2> QED BY <2>2, <2>3, <2>4
<1> HIDE DEF S
<1>3. N \in S BY <1>1, <1>2, Induction
<1> QED BY <1>3 DEF S, Recursive

(* Partial sums. *)
LEMMA Sums ==
  ASSUME NEW N \in Nat, NEW d \in [1 .. N -> Nat]
  PROVE  \E g \in [0 .. N -> Nat] : g[0] = 0 /\ \A n \in 1 .. N : g[n] = g[n - 1] + d[n]
<1> DEFINE D == [n \in 1 .. N |-> [v \in Nat |-> v + d[n]]]
<1>1. D \in [1 .. N -> [Nat -> Nat]] OBVIOUS
<1>2. ASSUME NEW g \in [0 .. N -> Nat], NEW n \in 1 .. N PROVE D[n][g[n - 1]] = g[n - 1] + d[n]
  <2>1. n - 1 \in 0 .. N OBVIOUS
  <2> QED BY <2>1
<1> HIDE DEF D
<1>3. PICK g : Recursive(Nat, 0, N, D, g)
  <2>1. 0 \in Nat OBVIOUS
  <2> QED BY <1>1, <2>1, Recursion
<1> QED BY <1>2, <1>3 DEF Recursive

--------------------
(* Bytes of a queue. *)
LEMMA SizesAreNat == \A j \in Jobs : Size[j] \in Nat
BY QueueAssumption DEF Jobs

LEMMA BytesRecursion ==
  ASSUME NEW s \in Seq(Jobs)
  PROVE  \E g \in [0 .. Len(s) -> Nat] :
           /\ Bytes(s) = g[Len(s)] /\ g[0] = 0
           /\ \A n \in 1 .. Len(s) : g[n] = g[n - 1] + Size[s[n]]
<1> DEFINE N == Len(s)
           P(g) == g = [n \in 0 .. N |-> IF n = 0 THEN 0 ELSE g[n - 1] + Size[s[n]]]
<1>0. N \in Nat /\ \A n \in 1 .. N : s[n] \in Jobs BY LenProperties
<1>a. \A n \in 1 .. N : Size[s[n]] \in Nat BY <1>0, SizesAreNat
<1> HIDE DEF N
<1>2. PICK g \in [0 .. N -> Nat] : g[0] = 0 /\ \A n \in 1 .. N : g[n] = g[n - 1] + Size[s[n]]
  <2> DEFINE d == [n \in 1 .. N |-> Size[s[n]]]
  <2>1. d \in [1 .. N -> Nat] /\ \A n \in 1 .. N : d[n] = Size[s[n]] BY <1>a
  <2> HIDE DEF d
  <2>2. PICK g \in [0 .. N -> Nat] : g[0] = 0 /\ \A n \in 1 .. N : g[n] = g[n - 1] + d[n]
    BY <2>1, <1>0, Sums
  <2> QED BY <2>1, <2>2
<1>3. P(g) BY <1>0, <1>2
<1> DEFINE c == CHOOSE f : P(f)
<1>4. P(c)
  <2> HIDE DEF P
  <2> QED BY <1>3, Zenon
<1>5. Bytes(s) = c[N] BY DEF Bytes, N
<1> HIDE DEF c
<1>6. c[0] = 0 /\ \A n \in 1 .. N : c[n] = c[n - 1] + Size[s[n]] BY <1>4, <1>0
<1> DEFINE S == {n \in Nat : n <= N => c[n] \in Nat}
<1>7. \A n \in Nat : n \in S
  <2>1. 0 \in S BY <1>6
  <2>2. ASSUME NEW n \in Nat, n \in S PROVE n + 1 \in S
    <3>1. CASE n + 1 <= N
      <4>1. n + 1 \in 1 .. N /\ c[n] \in Nat BY <3>1, <2>2, <1>0
      <4>2. c[n + 1] = c[n] + Size[s[n + 1]] BY <4>1, <1>6
      <4> QED BY <4>1, <4>2, <1>a
    <3> QED BY <3>1
  <2> HIDE DEF S
  <2> QED BY <2>1, <2>2, Induction
<1>8. c \in [0 .. N -> Nat] BY <1>4, <1>7
<1> QED BY <1>5, <1>6, <1>8 DEF N

LEMMA BytesNat == ASSUME NEW s \in Seq(Jobs) PROVE Bytes(s) \in Nat
<1>1. Len(s) \in 0 .. Len(s) BY LenProperties
<1> QED BY <1>1, BytesRecursion

LEMMA BytesEmpty == Bytes(<<>>) = 0
<1>1. <<>> \in Seq(Jobs) /\ Len(<<>>) = 0 OBVIOUS
<1> QED BY <1>1, BytesRecursion

LEMMA BytesConcat ==
  ASSUME NEW s \in Seq(Jobs), NEW t \in Seq(Jobs)
  PROVE  Bytes(s \o t) = Bytes(s) + Bytes(t)
<1> DEFINE u == s \o t
<1>1. /\ u \in Seq(Jobs) /\ Len(u) = Len(s) + Len(t) /\ Len(s) \in Nat /\ Len(t) \in Nat
      /\ \A i \in 1 .. Len(s) + Len(t) : u[i] = IF i <= Len(s) THEN s[i] ELSE t[i - Len(s)]
  BY ConcatProperties, LenProperties
<1> HIDE DEF u
<1>2. PICK f \in [0 .. Len(s) -> Nat] :
         /\ Bytes(s) = f[Len(s)] /\ f[0] = 0
         /\ \A n \in 1 .. Len(s) : f[n] = f[n - 1] + Size[s[n]]
  BY BytesRecursion
<1>3. PICK g \in [0 .. Len(t) -> Nat] :
         /\ Bytes(t) = g[Len(t)] /\ g[0] = 0
         /\ \A n \in 1 .. Len(t) : g[n] = g[n - 1] + Size[t[n]]
  BY BytesRecursion
<1>4. PICK h \in [0 .. Len(u) -> Nat] :
         /\ Bytes(u) = h[Len(u)] /\ h[0] = 0
         /\ \A n \in 1 .. Len(u) : h[n] = h[n - 1] + Size[u[n]]
  BY <1>1, BytesRecursion
<1> DEFINE S == {n \in Nat : n <= Len(s) => h[n] = f[n]}
           T == {n \in Nat : n <= Len(t) => h[Len(s) + n] = f[Len(s)] + g[n]}
<1>5. \A n \in Nat : n \in S
  <2>1. 0 \in S BY <1>2, <1>4
  <2>2. ASSUME NEW n \in Nat, n \in S PROVE n + 1 \in S
    <3> SUFFICES ASSUME n + 1 <= Len(s) PROVE h[n + 1] = f[n + 1] OBVIOUS
    <3>1. n + 1 \in 1 .. Len(s) /\ n + 1 \in 1 .. Len(u) /\ h[n] = f[n] /\ (n + 1) - 1 = n
      BY <1>1, <2>2
    <3>2. u[n + 1] = s[n + 1] BY <3>1, <1>1
    <3> QED BY <3>1, <3>2, <1>2, <1>4
  <2> HIDE DEF S
  <2> QED BY <2>1, <2>2, Induction
<1>6. \A n \in Nat : n \in T
  <2>1. h[Len(s)] = f[Len(s)] /\ f[Len(s)] \in Nat BY <1>1, <1>5
  <2>3. 0 \in T BY <2>1, <1>1, <1>3
  <2>2. ASSUME NEW n \in Nat, n \in T PROVE n + 1 \in T
    <3> SUFFICES ASSUME n + 1 <= Len(t) PROVE h[Len(s) + (n + 1)] = f[Len(s)] + g[n + 1] OBVIOUS
    <3>1. /\ n + 1 \in 1 .. Len(t) /\ Len(s) + (n + 1) \in 1 .. Len(u)
          /\ h[Len(s) + n] = f[Len(s)] + g[n]
          /\ (n + 1) - 1 = n /\ (Len(s) + (n + 1)) - 1 = Len(s) + n
      BY <1>1, <2>2
    <3>2. u[Len(s) + (n + 1)] = t[n + 1] BY <3>1, <1>1
    <3>3. t[n + 1] \in Jobs BY <3>1, ElementOfSeq
    <3>4. f[Len(s)] \in Nat /\ g[n] \in Nat
      <4>1. Len(s) \in 0 .. Len(s) /\ n \in 0 .. Len(t) BY <1>1, <3>1
      <4> QED BY <4>1
    <3>7. Size[t[n + 1]] \in Nat BY <3>3, SizesAreNat
    <3>5. h[Len(s) + (n + 1)] = h[Len(s) + n] + Size[t[n + 1]] BY <3>1, <3>2, <1>4
    <3>6. g[n + 1] = g[n] + Size[t[n + 1]] BY <3>1, <1>3
    <3> QED BY <3>1, <3>4, <3>5, <3>6, <3>7
  <2> HIDE DEF T
  <2> QED BY <2>2, <2>3, Induction
<1>7. h[Len(s) + Len(t)] = f[Len(s)] + g[Len(t)] BY <1>6, <1>1
<1> QED BY <1>1, <1>2, <1>3, <1>4, <1>7 DEF u

LEMMA BytesOne == ASSUME NEW j \in Jobs PROVE Bytes(<<j>>) = Size[j]
<1> DEFINE s == <<j>>
<1>1. s \in Seq(Jobs) /\ Len(s) = 1 /\ s[1] = j OBVIOUS
<1> HIDE DEF s
<1>2. PICK g \in [0 .. Len(s) -> Nat] :
         /\ Bytes(s) = g[Len(s)] /\ g[0] = 0
         /\ \A n \in 1 .. Len(s) : g[n] = g[n - 1] + Size[s[n]]
  BY <1>1, BytesRecursion
<1>3. g[1] = g[0] + Size[j] BY <1>1, <1>2
<1>4. Size[j] \in Nat BY SizesAreNat
<1> QED BY <1>1, <1>2, <1>3, <1>4 DEF s

LEMMA BytesAppend ==
  ASSUME NEW s \in Seq(Jobs), NEW j \in Jobs
  PROVE  Bytes(Append(s, j)) = Bytes(s) + Size[j]
<1>1. Append(s, j) = s \o <<j>> BY AppendIsConcat
<1>2. <<j>> \in Seq(Jobs) OBVIOUS
<1> QED BY <1>1, <1>2, BytesConcat, BytesOne

--------------------
(* The jobs in a queue. *)
LEMMA InToSet ==
  ASSUME NEW T, NEW s \in Seq(T), NEW x
  PROVE  x \in ToSet(s) <=> \E i \in 1 .. Len(s) : s[i] = x
BY LenProperties DEF ToSet

LEMMA ToSetEmpty == ToSet(<<>>) = {}
BY DEF ToSet

LEMMA ToSetConcat ==
  ASSUME NEW T, NEW s \in Seq(T), NEW t \in Seq(T)
  PROVE  ToSet(s \o t) = ToSet(s) \cup ToSet(t)
<1>1. /\ s \o t \in Seq(T) /\ Len(s \o t) = Len(s) + Len(t)
      /\ \A i \in 1 .. Len(s) + Len(t) : (s \o t)[i] = IF i <= Len(s) THEN s[i] ELSE t[i - Len(s)]
      /\ Len(s) \in Nat /\ Len(t) \in Nat
  BY ConcatProperties, LenProperties
<1>2. ASSUME NEW x \in ToSet(s \o t) PROVE x \in ToSet(s) \cup ToSet(t)
  <2>1. PICK i \in 1 .. Len(s) + Len(t) : (s \o t)[i] = x BY <1>1, <1>2, InToSet
  <2>2. CASE i <= Len(s)
    <3>1. i \in 1 .. Len(s) /\ s[i] = x BY <1>1, <2>1, <2>2
    <3> QED BY <3>1, InToSet
  <2>3. CASE ~(i <= Len(s))
    <3>1. i - Len(s) \in 1 .. Len(t) /\ t[i - Len(s)] = x BY <1>1, <2>1, <2>3
    <3> QED BY <3>1, InToSet
  <2> QED BY <2>2, <2>3
<1>3. ASSUME NEW x \in ToSet(s) PROVE x \in ToSet(s \o t)
  <2>1. PICK i \in 1 .. Len(s) : s[i] = x BY <1>3, InToSet
  <2>2. i \in 1 .. Len(s \o t) /\ (s \o t)[i] = x BY <1>1, <2>1
  <2> QED BY <1>1, <2>2, InToSet
<1>4. ASSUME NEW x \in ToSet(t) PROVE x \in ToSet(s \o t)
  <2>1. PICK i \in 1 .. Len(t) : t[i] = x BY <1>4, InToSet
  <2>2. Len(s) + i \in 1 .. Len(s \o t) /\ (s \o t)[Len(s) + i] = x BY <1>1, <2>1
  <2> QED BY <1>1, <2>2, InToSet
<1> QED BY <1>2, <1>3, <1>4

LEMMA ToSetOne == ASSUME NEW x PROVE ToSet(<<x>>) = {x}
BY DEF ToSet

LEMMA ToSetAppend ==
  ASSUME NEW T, NEW s \in Seq(T), NEW x \in T
  PROVE  ToSet(Append(s, x)) = ToSet(s) \cup {x}
<1>1. Append(s, x) = s \o <<x>> /\ <<x>> \in Seq(T) BY AppendIsConcat
<1>2. ToSet(s \o <<x>>) = ToSet(s) \cup ToSet(<<x>>) BY <1>1, ToSetConcat, ZenonT(30)
<1>3. ToSet(<<x>>) = {x} BY ToSetOne
<1> QED BY <1>1, <1>2, <1>3

(* A queue cut in two. *)
LEMMA CutInTwo ==
  ASSUME NEW T, NEW s \in Seq(T), NEW n \in 0 .. Len(s)
  PROVE  /\ SubSeq(s, 1, n) \in Seq(T) /\ SubSeq(s, n + 1, Len(s)) \in Seq(T)
         /\ SubSeq(s, 1, n) \o SubSeq(s, n + 1, Len(s)) = s
         /\ Len(SubSeq(s, 1, n)) = n
         /\ \A i \in 1 .. n : SubSeq(s, 1, n)[i] = s[i]
<1>1. Len(s) \in Nat /\ \A i \in 1 .. Len(s) : s[i] \in T BY LenProperties, ElementOfSeq
<1>2. \A i \in 1 .. n : s[i] \in T BY <1>1
<1>3. \A i \in n + 1 .. Len(s) : s[i] \in T BY <1>1
<1>4. SubSeq(s, 1, n) \in Seq(T) /\ Len(SubSeq(s, 1, n)) = n /\ \A i \in 1 .. n : SubSeq(s, 1, n)[i] = s[i]
  BY <1>1, <1>2, SubSeqProperties
<1>5. SubSeq(s, n + 1, Len(s)) \in Seq(T) BY <1>1, <1>3, SubSeqProperties
<1>6. SubSeq(s, 1, n) \o SubSeq(s, n + 1, Len(s)) = SubSeq(s, 1, Len(s))
  <2>1. 1 \in 1 .. Len(s) + 1 /\ n \in 1 - 1 .. Len(s) /\ Len(s) \in n .. Len(s) BY <1>1
  <2> QED BY <2>1, ConcatAdjacentSubSeq
<1> QED BY <1>4, <1>5, <1>6, SubSeqFull

--------------------
(* Picking jobs from a queue. *)
LEMMA AmongRecursion ==
  ASSUME NEW s \in Seq(Jobs), NEW S
  PROVE  \E g : Picked(s, S, g) /\ Among(s, S) = g[Len(s)]
<1> DEFINE N == Len(s)
           Step(v, n) == IF s[n] \in S THEN Append(v, s[n]) ELSE v
           P(g) == g = [n \in 0 .. N |-> IF n = 0 THEN <<>> ELSE Step(g[n - 1], n)]
           D == [n \in 1 .. N |->
                   [v \in Seq(Jobs) |-> IF s[n] \in S THEN Append(v, s[n]) ELSE v]]
<1>0. N \in Nat /\ \A n \in 1 .. N : s[n] \in Jobs BY LenProperties
<1> HIDE DEF N
<1>1. D \in [1 .. N -> [Seq(Jobs) -> Seq(Jobs)]]
  <2>1. ASSUME NEW n \in 1 .. N, NEW v \in Seq(Jobs)
        PROVE  (IF s[n] \in S THEN Append(v, s[n]) ELSE v) \in Seq(Jobs)
    <3>1. Append(v, s[n]) \in Seq(Jobs) BY <1>0, AppendProperties
    <3> QED BY <3>1
  <2> QED BY <2>1
<1>2. PICK g : Recursive(Seq(Jobs), <<>>, N, D, g)
  <2>1. <<>> \in Seq(Jobs) OBVIOUS
  <2> HIDE DEF D
  <2> QED BY <2>1, <1>0, <1>1, Recursion
<1>3. g \in [0 .. N -> Seq(Jobs)] /\ g[0] = <<>> BY <1>2 DEF Recursive
<1>4. ASSUME NEW n \in 1 .. N
      PROVE  g[n] = IF s[n] \in S THEN Append(g[n - 1], s[n]) ELSE g[n - 1]
  <2>1. n - 1 \in 0 .. N /\ g[n - 1] \in Seq(Jobs) BY <1>0, <1>3
  <2>2. g[n] = D[n][g[n - 1]] BY <1>2 DEF Recursive
  <2> QED BY <2>1, <2>2
<1> HIDE DEF D
<1>5. P(g)
  <2>1. \A n \in 1 .. N : g[n] = Step(g[n - 1], n) BY <1>4
  <2> HIDE DEF Step
  <2>2. \A n \in 0 .. N : g[n] = IF n = 0 THEN <<>> ELSE Step(g[n - 1], n) BY <1>0, <1>3, <2>1
  <2> QED BY <1>3, <2>2
<1> DEFINE c == CHOOSE f : P(f)
<1>6. P(c)
  <2> HIDE DEF P
  <2> QED BY <1>5, Zenon
<1>7. Among(s, S) = c[N] BY DEF Among, N
<1> HIDE DEF c
<1>8. /\ c[0] = <<>>
      /\ \A n \in 1 .. N : c[n] = IF s[n] \in S THEN Append(c[n - 1], s[n]) ELSE c[n - 1]
  <2> HIDE DEF Step
  <2>1. c[0] = <<>> /\ \A n \in 1 .. N : c[n] = Step(c[n - 1], n) BY <1>6, <1>0
  <2> QED BY <2>1 DEF Step
<1> DEFINE U == {n \in Nat : n <= N => c[n] = g[n]}
<1>9. \A n \in Nat : n \in U
  <2>1. 0 \in U BY <1>8, <1>3
  <2>2. ASSUME NEW n \in Nat, n \in U PROVE n + 1 \in U
    <3> SUFFICES ASSUME n + 1 <= N PROVE c[n + 1] = g[n + 1] OBVIOUS
    <3>1. n + 1 \in 1 .. N /\ c[n] = g[n] /\ (n + 1) - 1 = n BY <2>2, <1>0
    <3> QED BY <3>1, <1>4, <1>8
  <2> HIDE DEF U
  <2> QED BY <2>1, <2>2, Induction
<1>10. c[N] = g[N] BY <1>9, <1>0
<1> QED BY <1>3, <1>4, <1>7, <1>10 DEF N, Picked

LEMMA AmongTyped ==
  ASSUME NEW s \in Seq(Jobs), NEW S
  PROVE  Among(s, S) \in Seq(Jobs)
<1>1. Len(s) \in 0 .. Len(s) BY LenProperties
<1> QED BY <1>1, AmongRecursion DEF Picked

(* Which ones ... *)
LEMMA AmongWhich ==
  ASSUME NEW s \in Seq(Jobs), NEW S
  PROVE  ToSet(Among(s, S)) = ToSet(s) \cap S
<1>1. PICK g : Picked(s, S, g) /\ Among(s, S) = g[Len(s)] BY AmongRecursion
<1>2. Len(s) \in Nat /\ \A n \in 1 .. Len(s) : s[n] \in Jobs BY LenProperties
<1> DEFINE U == {n \in Nat : n <= Len(s) => ToSet(g[n]) = {s[i] : i \in 1 .. n} \cap S}
<1>3. \A n \in Nat : n \in U
  <2>1. 0 \in U BY <1>1, ToSetEmpty DEF Picked
  <2>2. ASSUME NEW n \in Nat, n \in U PROVE n + 1 \in U
    <3> SUFFICES ASSUME n + 1 <= Len(s) PROVE ToSet(g[n + 1]) = {s[i] : i \in 1 .. n + 1} \cap S
      OBVIOUS
    <3>1. n \in 0 .. Len(s) /\ n + 1 \in 1 .. Len(s) /\ (n + 1) - 1 = n BY <1>2
    <3>2. g[n] \in Seq(Jobs) /\ s[n + 1] \in Jobs BY <3>1, <1>1, <1>2 DEF Picked
    <3>6. ToSet(g[n]) = {s[i] : i \in 1 .. n} \cap S
      <4>1. n <= Len(s) BY <3>1, <1>2
      <4> QED BY <4>1, <2>2
    <3>3. g[n + 1] = IF s[n + 1] \in S THEN Append(g[n], s[n + 1]) ELSE g[n] BY <3>1, <1>1 DEF Picked
    <3>4. ToSet(g[n + 1]) = IF s[n + 1] \in S THEN ToSet(g[n]) \cup {s[n + 1]} ELSE ToSet(g[n])
      <4>1. ToSet(Append(g[n], s[n + 1])) = ToSet(g[n]) \cup {s[n + 1]} BY <3>2, ToSetAppend
      <4> QED BY <3>3, <4>1
    <3>5. {s[i] : i \in 1 .. n + 1} = {s[i] : i \in 1 .. n} \cup {s[n + 1]}
      <4>1. 1 .. n + 1 = (1 .. n) \cup {n + 1} OBVIOUS
      <4> QED BY <4>1
    <3> QED BY <3>4, <3>5, <3>6
  <2> HIDE DEF U
  <2> QED BY <2>1, <2>2, Induction
<1>4. ToSet(s) = {s[i] : i \in 1 .. Len(s)} BY LenProperties DEF ToSet
<1> QED BY <1>1, <1>2, <1>3, <1>4

(* ... and what the two parts weigh together. *)
LEMMA AmongSplits ==
  ASSUME NEW s \in Seq(Jobs), NEW S
  PROVE  /\ Len(Among(s, S)) + Len(Among(s, Jobs \ S)) = Len(s)
         /\ Bytes(Among(s, S)) + Bytes(Among(s, Jobs \ S)) = Bytes(s)
<1>1. PICK g : Picked(s, S, g) /\ Among(s, S) = g[Len(s)] BY AmongRecursion
<1>2. PICK h : Picked(s, Jobs \ S, h) /\ Among(s, Jobs \ S) = h[Len(s)] BY AmongRecursion
<1>3. PICK b \in [0 .. Len(s) -> Nat] :
        /\ Bytes(s) = b[Len(s)] /\ b[0] = 0
        /\ \A n \in 1 .. Len(s) : b[n] = b[n - 1] + Size[s[n]]
  BY BytesRecursion
<1>4. Len(s) \in Nat /\ \A n \in 1 .. Len(s) : s[n] \in Jobs BY LenProperties
<1> DEFINE U == {n \in Nat : n <= Len(s) => /\ Len(g[n]) + Len(h[n]) = n
                                            /\ Bytes(g[n]) + Bytes(h[n]) = b[n]}
<1>5. \A n \in Nat : n \in U
  <2>1. 0 \in U
    <3>1. g[0] = <<>> /\ h[0] = <<>> BY <1>1, <1>2 DEF Picked
    <3>2. Len(g[0]) = 0 /\ Len(h[0]) = 0 /\ Bytes(g[0]) = 0 /\ Bytes(h[0]) = 0
      BY <3>1, BytesEmpty, EmptySeq
    <3>3. Len(g[0]) + Len(h[0]) = 0 /\ Bytes(g[0]) + Bytes(h[0]) = b[0]
      <4>1. b[0] = 0 BY <1>3
      <4> QED BY <3>2, <4>1
    <3> QED BY <3>3
  <2>2. ASSUME NEW n \in Nat, n \in U PROVE n + 1 \in U
    <3> SUFFICES ASSUME n + 1 <= Len(s)
                 PROVE  /\ Len(g[n + 1]) + Len(h[n + 1]) = n + 1
                        /\ Bytes(g[n + 1]) + Bytes(h[n + 1]) = b[n + 1] OBVIOUS
    <3> DEFINE j == s[n + 1]
    <3>1. n \in 0 .. Len(s) /\ n + 1 \in 1 .. Len(s) /\ (n + 1) - 1 = n BY <1>4
    <3>2. g[n] \in Seq(Jobs) /\ h[n] \in Seq(Jobs) /\ j \in Jobs BY <3>1, <1>1, <1>2, <1>4 DEF Picked
    <3>3. /\ g[n + 1] = IF j \in S THEN Append(g[n], j) ELSE g[n]
          /\ h[n + 1] = IF j \in Jobs \ S THEN Append(h[n], j) ELSE h[n]
      BY <3>1, <1>1, <1>2 DEF Picked
    <3>4. b[n + 1] = b[n] + Size[j] /\ b[n] \in Nat BY <3>1, <1>3
    <3>5. Len(g[n]) + Len(h[n]) = n /\ Bytes(g[n]) + Bytes(h[n]) = b[n]
      <4>1. n <= Len(s) BY <3>1, <1>4
      <4> QED BY <4>1, <2>2
    <3>6. /\ Len(g[n]) \in Nat /\ Len(h[n]) \in Nat
          /\ Bytes(g[n]) \in Nat /\ Bytes(h[n]) \in Nat /\ Size[j] \in Nat
      BY <3>2, LenProperties, BytesNat, SizesAreNat
    <3>7. /\ Len(Append(g[n], j)) = Len(g[n]) + 1 /\ Len(Append(h[n], j)) = Len(h[n]) + 1
          /\ Bytes(Append(g[n], j)) = Bytes(g[n]) + Size[j]
          /\ Bytes(Append(h[n], j)) = Bytes(h[n]) + Size[j]
      BY <3>2, AppendProperties, BytesAppend
    <3> HIDE DEF j, U
    <3>8. CASE j \in S
      <4>1. g[n + 1] = Append(g[n], j) /\ h[n + 1] = h[n] BY <3>3, <3>8
      <4>2. /\ Len(g[n + 1]) = Len(g[n]) + 1 /\ Len(h[n + 1]) = Len(h[n])
            /\ Bytes(g[n + 1]) = Bytes(g[n]) + Size[j] /\ Bytes(h[n + 1]) = Bytes(h[n])
        BY <4>1, <3>7
      <4>3. Len(g[n + 1]) + Len(h[n + 1]) = n + 1
      <5> DEFINE p == Len(g[n])  q == Len(h[n])
      <5>1. p \in Nat /\ q \in Nat /\ p + q = n BY <3>5, <3>6
      <5>2. Len(g[n + 1]) = p + 1 /\ Len(h[n + 1]) = q BY <4>2
      <5> HIDE DEF p, q
      <5> QED BY <5>1, <5>2
      <4>4. Bytes(g[n + 1]) + Bytes(h[n + 1]) = b[n] + Size[j] BY <4>2, <3>4, <3>5, <3>6
      <4> QED BY <4>3, <4>4, <3>4
    <3>9. CASE j \notin S
      <4>1. g[n + 1] = g[n] /\ h[n + 1] = Append(h[n], j) BY <3>2, <3>3, <3>9
      <4>2. /\ Len(g[n + 1]) = Len(g[n]) /\ Len(h[n + 1]) = Len(h[n]) + 1
            /\ Bytes(g[n + 1]) = Bytes(g[n]) /\ Bytes(h[n + 1]) = Bytes(h[n]) + Size[j]
        BY <4>1, <3>7
      <4>3. Len(g[n + 1]) + Len(h[n + 1]) = n + 1
      <5> DEFINE p == Len(g[n])  q == Len(h[n])
      <5>1. p \in Nat /\ q \in Nat /\ p + q = n BY <3>5, <3>6
      <5>2. Len(g[n + 1]) = p /\ Len(h[n + 1]) = q + 1 BY <4>2
      <5> HIDE DEF p, q
      <5> QED BY <5>1, <5>2
      <4>4. Bytes(g[n + 1]) + Bytes(h[n + 1]) = b[n] + Size[j] BY <4>2, <3>4, <3>5, <3>6
      <4> QED BY <4>3, <4>4, <3>4
    <3> QED BY <3>8, <3>9
  <2> HIDE DEF U
  <2> QED BY <2>1, <2>2, Induction
<1>6. Len(s) \in U BY <1>4, <1>5
<1>7. Len(g[Len(s)]) + Len(h[Len(s)]) = Len(s) /\ Bytes(g[Len(s)]) + Bytes(h[Len(s)]) = b[Len(s)]
  BY <1>4, <1>6
<1> QED BY <1>1, <1>2, <1>3, <1>7

--------------------
(* Sequences put one behind the other. *)
LEMMA FunctionIsSeq ==
  ASSUME NEW T, NEW n \in Nat, NEW f \in [1 .. n -> T]
  PROVE  f \in Seq(T) /\ Len(f) = n
<1>1. f \in Seq(T) BY SeqDef
<1>2. DOMAIN f = 1 .. n /\ DOMAIN f = 1 .. Len(f) /\ Len(f) \in Nat BY <1>1, LenProperties
<1> QED BY <1>1, <1>2

LEMMA OffsetsExist ==
  ASSUME NEW T, NEW ss \in Seq(Seq(T))
  PROVE  \E off : Offsets(ss, off)
<1> DEFINE d == [i \in 1 .. Len(ss) |-> Len(ss[i])]
<1>1. Len(ss) \in Nat /\ \A i \in 1 .. Len(ss) : Len(ss[i]) \in Nat BY LenProperties, ElementOfSeq
<1>2. d \in [1 .. Len(ss) -> Nat] /\ \A i \in 1 .. Len(ss) : d[i] = Len(ss[i]) BY <1>1
<1> HIDE DEF d
<1>3. PICK g \in [0 .. Len(ss) -> Nat] : g[0] = 0 /\ \A i \in 1 .. Len(ss) : g[i] = g[i - 1] + d[i]
  BY <1>1, <1>2, Sums
<1> QED BY <1>2, <1>3 DEF Offsets

LEMMA OffsetsGrow ==
  ASSUME NEW T, NEW ss \in Seq(Seq(T)), NEW off, Offsets(ss, off),
         NEW i \in 0 .. Len(ss), NEW k \in i .. Len(ss)
  PROVE  off[i] <= off[k]
<1>1. Len(ss) \in Nat /\ \A n \in 1 .. Len(ss) : Len(ss[n]) \in Nat BY LenProperties, ElementOfSeq
<1> DEFINE U == {n \in Nat : i + n <= Len(ss) => off[i] <= off[i + n]}
<1>2. \A n \in Nat : n \in U
  <2>1. 0 \in U
    <3>1. off \in [0 .. Len(ss) -> Nat] BY DEF Offsets
    <3>2. off[i] \in Nat BY <3>1
    <3>3. i + 0 = i BY <1>1
    <3> QED BY <3>2, <3>3
  <2>2. ASSUME NEW n \in Nat, n \in U PROVE n + 1 \in U
    <3> SUFFICES ASSUME i + (n + 1) <= Len(ss) PROVE off[i] <= off[i + (n + 1)] OBVIOUS
    <3>1. /\ i + (n + 1) \in 1 .. Len(ss) /\ (i + (n + 1)) - 1 = i + n
          /\ i + n \in 0 .. Len(ss)
      BY <1>1
    <3>2. off[i + (n + 1)] = off[i + n] + Len(ss[i + (n + 1)]) BY <3>1 DEF Offsets
    <3>3. off[i] <= off[i + n] BY <3>1, <2>2
    <3>4. off[i] \in Nat /\ off[i + n] \in Nat /\ Len(ss[i + (n + 1)]) \in Nat
      BY <3>1, <1>1 DEF Offsets
    <3> HIDE DEF U
    <3> QED BY <3>2, <3>3, <3>4
  <2> HIDE DEF U
  <2> QED BY <2>1, <2>2, Induction
<1>3. k - i \in Nat /\ i + (k - i) = k BY <1>1
<1>4. k - i \in U BY <1>2, <1>3
<1> QED BY <1>1, <1>3, <1>4

LEMMA FlattenRecursion ==
  ASSUME NEW T, NEW ss \in Seq(Seq(T))
  PROVE  \E g : /\ g \in [0 .. Len(ss) -> Seq(T)] /\ g[0] = <<>>
                /\ \A i \in 1 .. Len(ss) : g[i] = g[i - 1] \o ss[i]
                /\ FlattenSeq(ss) = g[Len(ss)]
<1> DEFINE N == Len(ss)
           P(g) == g = [i \in 1 .. N |-> IF i = 1 THEN ss[i] ELSE g[i - 1] \o ss[i]]
           D == [i \in 1 .. N |-> [v \in Seq(T) |-> v \o ss[i]]]
<1>0. N \in Nat /\ \A i \in 1 .. N : ss[i] \in Seq(T) BY LenProperties, ElementOfSeq
<1>x. N = 0 => ss = <<>> BY EmptySeq
<1>y. FlattenSeq(ss) = IF N = 0 THEN ss ELSE (CHOOSE f : P(f))[N] BY DEF FlattenSeq
<1> HIDE DEF N
<1>1. D \in [1 .. N -> [Seq(T) -> Seq(T)]] BY <1>0, ConcatProperties
<1>2. PICK g : Recursive(Seq(T), <<>>, N, D, g)
  <2>1. <<>> \in Seq(T) OBVIOUS
  <2> HIDE DEF D
  <2> QED BY <2>1, <1>0, <1>1, Recursion
<1>3. g \in [0 .. N -> Seq(T)] /\ g[0] = <<>> BY <1>2 DEF Recursive
<1>4. ASSUME NEW i \in 1 .. N PROVE g[i] = g[i - 1] \o ss[i]
  <2>1. i - 1 \in 0 .. N /\ g[i - 1] \in Seq(T) BY <1>0, <1>3
  <2>2. g[i] = D[i][g[i - 1]] BY <1>2 DEF Recursive
  <2> QED BY <2>1, <2>2
<1> HIDE DEF D
<1> DEFINE h == [i \in 1 .. N |-> g[i]]
<1>5. P(h)
  <2>1. ASSUME NEW i \in 1 .. N PROVE h[i] = IF i = 1 THEN ss[i] ELSE h[i - 1] \o ss[i]
    <3>1. CASE i = 1
      <4>1. 1 \in 1 .. N /\ 1 - 1 = 0 BY <3>1, <1>0
      <4>3. g[1] = g[0] \o ss[1] BY <4>1, <1>4
      <4>2. g[1] = ss[1] BY <4>1, <4>3, <1>0, <1>3, ConcatEmptySeq
      <4> QED BY <3>1, <4>2
    <3>2. CASE i # 1
      <4>1. i - 1 \in 1 .. N BY <3>2, <1>0
      <4> QED BY <3>2, <4>1, <1>4
    <3> QED BY <3>1, <3>2
  <2>2. h = [i \in 1 .. N |-> h[i]] OBVIOUS
  <2> HIDE DEF h
  <2> QED BY <2>1, <2>2
<1> DEFINE c == CHOOSE f : P(f)
<1>6. P(c)
  <2> HIDE DEF P, h
  <2> QED BY <1>5, Zenon
<1>7. N # 0 => FlattenSeq(ss) = c[N] BY <1>y
<1> HIDE DEF c
<1>8. \A i \in 1 .. N : c[i] = IF i = 1 THEN ss[i] ELSE c[i - 1] \o ss[i] BY <1>6
<1> DEFINE U == {n \in Nat : n + 1 <= N => c[n + 1] = g[n + 1]}
<1>9. \A n \in Nat : n \in U
  <2>1. 0 \in U
    <3> SUFFICES ASSUME 1 <= N PROVE c[1] = g[1] OBVIOUS
    <3>1. 1 \in 1 .. N BY <1>0
    <3>2. c[1] = ss[1] /\ h[1] = ss[1] /\ h[1] = g[1]
      <4>1. h[1] = g[1] BY <3>1
      <4>2. h[1] = ss[1]
        <5> HIDE DEF h
        <5> QED BY <3>1, <1>5
      <4> QED BY <3>1, <4>1, <4>2, <1>8
    <3> QED BY <3>2
  <2>2. ASSUME NEW n \in Nat, n \in U PROVE n + 1 \in U
    <3> SUFFICES ASSUME (n + 1) + 1 <= N PROVE c[(n + 1) + 1] = g[(n + 1) + 1] OBVIOUS
    <3> DEFINE m == (n + 1) + 1
    <3>1. m \in 1 .. N /\ m - 1 = n + 1 /\ m # 1 /\ c[n + 1] = g[n + 1] BY <2>2, <1>0
    <3> HIDE DEF m
    <3>2. c[m] = c[m - 1] \o ss[m] /\ g[m] = g[m - 1] \o ss[m] BY <3>1, <1>4, <1>8
    <3>3. c[m] = g[m] BY <3>1, <3>2
    <3> QED BY <3>3 DEF m
  <2> HIDE DEF U
  <2> QED BY <2>1, <2>2, Induction
<1>10. FlattenSeq(ss) = g[N]
  <2>1. CASE N = 0 BY <2>1, <1>3, <1>x, <1>y
  <2>2. CASE N # 0
    <3>1. N - 1 \in Nat /\ (N - 1) + 1 = N BY <2>2, <1>0
    <3>2. N - 1 \in U BY <3>1, <1>9
    <3>3. c[N] = g[N] BY <3>1, <3>2, <1>0
    <3> QED BY <2>2, <3>3, <1>7
  <2> QED BY <2>1, <2>2
<1> QED BY <1>3, <1>4, <1>10 DEF N

LEMMA FlattenIs ==
  ASSUME NEW T, NEW ss \in Seq(Seq(T)), NEW off, Offsets(ss, off)
  PROVE  FlattenSeq(ss) \in Seq(T) /\ Flattened(ss, off, FlattenSeq(ss))
<1> DEFINE N == Len(ss)
<1>1. N \in Nat /\ \A i \in 1 .. N : ss[i] \in Seq(T) /\ Len(ss[i]) \in Nat
  BY LenProperties, ElementOfSeq
<1>2. PICK g : /\ g \in [0 .. N -> Seq(T)] /\ g[0] = <<>>
               /\ \A i \in 1 .. N : g[i] = g[i - 1] \o ss[i]
               /\ FlattenSeq(ss) = g[N]
  BY FlattenRecursion
<1>3. off \in [0 .. N -> Nat] /\ off[0] = 0 /\ \A i \in 1 .. N : off[i] = off[i - 1] + Len(ss[i])
  BY DEF Offsets
<1>g. ASSUME NEW i \in 0 .. N, NEW k \in i .. N PROVE off[i] <= off[k] BY OffsetsGrow
<1> HIDE DEF N
<1> DEFINE Good(m) ==
      /\ Len(g[m]) = off[m]
      /\ \A i \in 1 .. m : \A k \in 1 .. Len(ss[i]) : g[m][off[i - 1] + k] = ss[i][k]
      /\ \A p \in 1 .. off[m] :
           \E i \in 1 .. m : \E k \in 1 .. Len(ss[i]) : p = off[i - 1] + k
    U == {m \in Nat : m <= N => Good(m)}
<1>4. Good(0)
  <2>1. Len(g[0]) = 0 BY <1>2, EmptySeq
  <2> QED BY <2>1, <1>3
<1>5. ASSUME NEW m \in Nat, m + 1 <= N, Good(m) PROVE Good(m + 1)
  <2> DEFINE n == m + 1  a == g[m]  b == ss[n]
  <2>1. m \in 0 .. N /\ n \in 1 .. N /\ n - 1 = m /\ n \in 0 .. N BY <1>1, <1>5
  <2>2. a \in Seq(T) /\ b \in Seq(T) /\ g[n] = a \o b /\ off[n] = off[m] + Len(b) /\ Len(a) = off[m]
    BY <2>1, <1>1, <1>2, <1>3, <1>5
  <2>3. off[m] \in Nat /\ Len(b) \in Nat /\ off[n] \in Nat BY <2>1, <1>1, <1>3
  <2>4. \A i \in 1 .. m : \A k \in 1 .. Len(ss[i]) : a[off[i - 1] + k] = ss[i][k] BY <1>5
  <2>5. \A p \in 1 .. off[m] : \E i \in 1 .. m : \E k \in 1 .. Len(ss[i]) : p = off[i - 1] + k BY <1>5
  <2> HIDE DEF a
  <2>6. /\ Len(a \o b) = Len(a) + Len(b)
        /\ \A i \in 1 .. Len(a) + Len(b) : (a \o b)[i] = IF i <= Len(a) THEN a[i] ELSE b[i - Len(a)]
    BY <2>2, ConcatProperties
  <2>7. Len(g[n]) = off[n] BY <2>2, <2>6
  <2>8. ASSUME NEW i \in 1 .. n, NEW k \in 1 .. Len(ss[i]) PROVE g[n][off[i - 1] + k] = ss[i][k]
    <3>1. CASE i = n
      <4>1. off[i - 1] + k \in 1 .. Len(a) + Len(b) /\ ~(off[i - 1] + k <= Len(a)) /\ (off[i - 1] + k) - Len(a) = k
        <5> DEFINE x == off[m]  y == Len(b)
        <5>1. off[i - 1] = x /\ Len(a) = x /\ x \in Nat /\ y \in Nat BY <3>1, <2>1, <2>2, <2>3
        <5>2. k \in 1 .. y BY <3>1
        <5> HIDE DEF x, y
        <5>3. x + k \in 1 .. x + y /\ ~(x + k <= x) /\ (x + k) - x = k BY <5>1, <5>2
        <5> QED BY <5>1, <5>3 DEF y
      <4> QED BY <4>1, <3>1, <2>2, <2>6
    <3>2. CASE i # n
      <4>1. i \in 1 .. m /\ i - 1 \in 0 .. N /\ i \in 1 .. N /\ i \in 0 .. N /\ m \in i .. N
        BY <3>2, <2>1, <1>1
      <4>2. off[i - 1] + Len(ss[i]) = off[i] /\ off[i - 1] \in Nat /\ off[i] <= off[m]
        BY <4>1, <1>3, <1>g
      <4>3. off[i - 1] + k \in 1 .. Len(a) + Len(b) /\ off[i - 1] + k <= Len(a)
        <5> DEFINE x == off[i - 1]  y == Len(b)  z == Len(ss[i])
        <5>1. x + z <= Len(a) /\ x \in Nat /\ y \in Nat /\ z \in Nat BY <4>1, <4>2, <2>2, <2>3, <1>1
        <5>2. k \in 1 .. z /\ Len(a) \in Nat BY <2>2, <2>3
        <5> HIDE DEF x, y, z
        <5>3. x + k \in 1 .. Len(a) + y /\ x + k <= Len(a) BY <5>1, <5>2
        <5> QED BY <5>3 DEF x, y
      <4> QED BY <4>1, <4>3, <2>2, <2>4, <2>6
    <3> QED BY <3>1, <3>2
  <2>9. ASSUME NEW p \in 1 .. off[n] PROVE \E i \in 1 .. n : \E k \in 1 .. Len(ss[i]) : p = off[i - 1] + k
    <3>1. CASE p <= off[m]
      <4>1. p \in 1 .. off[m] BY <3>1, <2>3
      <4>2. PICK i \in 1 .. m : \E k \in 1 .. Len(ss[i]) : p = off[i - 1] + k BY <4>1, <2>5
      <4>3. i \in 1 .. n BY <2>1
      <4> QED BY <4>2, <4>3
    <3>2. CASE ~(p <= off[m])
      <4>1. p - off[m] \in 1 .. Len(ss[n]) /\ p = off[n - 1] + (p - off[m]) /\ n \in 1 .. n
        BY <3>2, <2>1, <2>2, <2>3
      <4> HIDE DEF n
      <4> QED BY <4>1
    <3> QED BY <3>1, <3>2
  <2> HIDE DEF n
  <2>10. Good(n) BY <2>7, <2>8, <2>9
  <2> QED BY <2>10 DEF n
<1> HIDE DEF Good
<1>6. \A m \in Nat : m \in U
  <2>1. 0 \in U BY <1>4
  <2>2. ASSUME NEW m \in Nat, m \in U PROVE m + 1 \in U
    <3>1. m + 1 <= N => m <= N BY <1>1
    <3> QED BY <2>2, <3>1, <1>5
  <2> HIDE DEF U
  <2> QED BY <2>1, <2>2, Induction
<1>7. Good(N) BY <1>6, <1>1
<1> QED
  <2>1. FlattenSeq(ss) \in Seq(T) BY <1>1, <1>2
  <2> DEFINE F == FlattenSeq(ss)
  <2>2. F = g[N] BY <1>2
  <2> HIDE DEF F
  <2>3. /\ Len(F) = off[N]
        /\ \A i \in 1 .. N : \A k \in 1 .. Len(ss[i]) : F[off[i - 1] + k] = ss[i][k]
        /\ \A p \in 1 .. off[N] : \E i \in 1 .. N : \E k \in 1 .. Len(ss[i]) : p = off[i - 1] + k
    BY <2>2, <1>7 DEF Good
  <2>4. ASSUME NEW i \in 1 .. N, NEW k \in 1 .. Len(ss[i]) PROVE off[i - 1] + k \in 1 .. Len(F)
    <3>1. i \in 0 .. N /\ N \in i .. N /\ i - 1 \in 0 .. N /\ N \in 0 .. N BY <1>1
    <3>2. off[i] <= off[N] BY <3>1, <1>g
    <3>3. off[i] = off[i - 1] + Len(ss[i]) /\ off[i - 1] \in Nat /\ off[N] \in Nat BY <3>1, <1>3
    <3> DEFINE x == off[i - 1]  z == Len(ss[i])  y == Len(F)
    <3>4. x \in Nat /\ z \in Nat /\ k \in 1 .. z /\ x + z <= y /\ y \in Nat BY <1>1, <2>3, <3>2, <3>3
    <3> HIDE DEF x, y, z
    <3>5. x + k \in 1 .. y BY <3>4
    <3> QED BY <3>5 DEF x, y
  <2>6. ASSUME NEW p \in 1 .. Len(F)
        PROVE  \E i \in 1 .. N : \E k \in 1 .. Len(ss[i]) : p = off[i - 1] + k /\ F[p] = ss[i][k]
    <3>1. PICK i \in 1 .. N : \E k \in 1 .. Len(ss[i]) : p = off[i - 1] + k BY <2>3
    <3> QED BY <3>1, <2>3
  <2>5. Flattened(ss, off, F) BY <2>3, <2>4, <2>6 DEF Flattened, N
  <2> QED BY <2>1, <2>5 DEF F

--------------------
(* The segment files. *)
LEMMA IdsAreNat ==
  ASSUME NEW s, StoreOK(s)
  PROVE  /\ Ids(s) \subseteq Nat \ {0} /\ NoSegment \notin Ids(s)
         /\ \A id \in Ids(s) : id < s.nextId
         /\ s.active \in Nat
BY DEF StoreOK, NoSegment

LEMMA Lengths ==
  ASSUME NEW s, StoreOK(s), NEW id
  PROVE  /\ Length(s, id) \in Nat /\ OnDisk(s, id) \in Nat /\ OnDisk(s, id) <= Length(s, id)
         /\ id \notin Ids(s) => Length(s, id) = 0 /\ OnDisk(s, id) = 0
         /\ id \in Ids(s) => s.files[id] \in Seq(Jobs) /\ Len(s.files[id]) = Length(s, id)
         /\ id # s.active => OnDisk(s, id) = Length(s, id)
<1>1. id \in Ids(s) => s.files[id] \in Seq(Jobs) /\ Len(s.files[id]) \in Nat
  BY LenProperties DEF StoreOK
<1>2. Length(s, id) \in Nat /\ (id \notin Ids(s) => Length(s, id) = 0) BY <1>1 DEF Length
<1>3. s.flushed \in 0 .. Length(s, s.active) BY DEF StoreOK
<1>4. CASE id = s.active BY <1>1, <1>2, <1>3, <1>4 DEF OnDisk, Length
<1>5. CASE id # s.active BY <1>1, <1>2, <1>5 DEF OnDisk, Length
<1> QED BY <1>4, <1>5

LEMMA MinIs ==
  ASSUME NEW S, S \subseteq Nat, S # {}
  PROVE  Min(S) \in S /\ \A y \in S : Min(S) <= y
<1>1. \E x \in S : \A y \in S : x <= y BY LeastExists
<1> QED BY <1>1, Zenon DEF Min

LEMMA MaxIs ==
  ASSUME NEW S, S \subseteq Nat, S # {}, NEW k \in Nat, \A n \in S : n <= k
  PROVE  Max(S) \in S /\ \A y \in S : y <= Max(S)
<1> DEFINE U == {u \in Nat : \A n \in S : n <= u}
<1>1. PICK m \in U : \A u \in U : m <= u
  <2>1. k \in U /\ U \subseteq Nat OBVIOUS
  <2> HIDE DEF U
  <2> QED BY <2>1, LeastExists
<1>2. m \in S
  <2> SUFFICES ASSUME m \notin S PROVE FALSE OBVIOUS
  <2>1. PICK x \in S : TRUE OBVIOUS
  <2>2. \A n \in S : n < m BY <1>1
  <2>3. m - 1 \in U BY <2>1, <2>2
  <2>4. m \in Nat OBVIOUS
  <2> QED BY <1>1, <2>3, <2>4
<1>3. \E x \in S : \A y \in S : x >= y BY <1>1, <1>2
<1>4. Max(S) \in S /\ \A y \in S : Max(S) >= y BY <1>3, Zenon DEF Max
<1> QED BY <1>4

--------------------
(* Reading. *)
LEMMA LimitIs ==
  ASSUME NEW s, StoreOK(s), NEW from \in Positions, NEW upto \in Positions, NEW id \in Nat
  PROVE  /\ First(from, id) \in Nat /\ Limit(s, upto, id) \in Nat
         /\ Limit(s, upto, id) <= OnDisk(s, id)
         /\ id # upto.segment => Limit(s, upto, id) = OnDisk(s, id)
         /\ id = upto.segment => /\ Limit(s, upto, id) <= upto.offset
                                 /\ Limit(s, upto, id) \in {upto.offset, OnDisk(s, id)}
<1>1. OnDisk(s, id) \in Nat BY Lengths
<1>2. upto.offset \in Nat /\ from.offset \in Nat BY DEF Positions
<1> DEFINE S == {upto.offset, OnDisk(s, id)}
<1>3. Min(S) \in S /\ \A y \in S : Min(S) <= y
  <2>1. S \subseteq Nat /\ S # {} BY <1>1, <1>2
  <2> HIDE DEF S
  <2> QED BY <2>1, MinIs
<1> QED BY <1>1, <1>2, <1>3 DEF First, Limit

LEMMA SliceIs ==
  ASSUME NEW s, StoreOK(s), NEW from \in Positions, NEW upto \in Positions, NEW id \in Nat
  PROVE  /\ Slice(s, from, upto, id) \in Seq(Records)
         /\ Len(Slice(s, from, upto, id)) = Minus(Limit(s, upto, id), First(from, id))
         /\ \A k \in 1 .. Len(Slice(s, from, upto, id)) :
              /\ id \in Ids(s) /\ First(from, id) + k \in 1 .. OnDisk(s, id)
              /\ First(from, id) + k <= Limit(s, upto, id)
              /\ Slice(s, from, upto, id)[k].job = s.files[id][First(from, id) + k]
              /\ Slice(s, from, upto, id)[k].next =
                   IF First(from, id) + k = Limit(s, upto, id) /\ id < upto.segment
                   THEN Pos(id + 1, 0) ELSE Pos(id, First(from, id) + k)
<1> DEFINE a == First(from, id)  b == Limit(s, upto, id)  n == Minus(b, a)
           f == [k \in 1 .. n |->
                   [job |-> s.files[id][a + k],
                    next |-> IF a + k = b /\ id < upto.segment THEN Pos(id + 1, 0) ELSE Pos(id, a + k)]]
<1>1. Slice(s, from, upto, id) = f BY DEF Slice, First, Limit
<1>2. a \in Nat /\ b \in Nat /\ b <= OnDisk(s, id) BY LimitIs
<1>3. n \in Nat /\ \A k \in 1 .. n : a + k \in 1 .. b BY <1>2 DEF Minus
<1>4. ASSUME NEW k \in 1 .. n
      PROVE  id \in Ids(s) /\ a + k \in 1 .. OnDisk(s, id) /\ s.files[id][a + k] \in Jobs
  <2>1. a + k \in 1 .. OnDisk(s, id) /\ OnDisk(s, id) \in Nat BY <1>2, <1>3, Lengths
  <2>2. id \in Ids(s) BY <2>1, Lengths
  <2>3. s.files[id] \in Seq(Jobs) /\ a + k \in 1 .. Len(s.files[id]) BY <2>1, <2>2, Lengths
  <2> QED BY <2>1, <2>2, <2>3, ElementOfSeq
<1> HIDE DEF n, a, b
<1>5. ASSUME NEW k \in 1 .. n PROVE f[k] \in Records
  <2>1. a + k \in Nat BY <1>3, <1>2
  <2>2. Pos(id + 1, 0) \in Positions /\ Pos(id, a + k) \in Positions BY <2>1 DEF Pos, Positions
  <2> QED BY <2>2, <1>4 DEF Records
<1>6. f \in [1 .. n -> Records] BY <1>5
<1>7. f \in Seq(Records) /\ Len(f) = n
  <2> HIDE DEF f
  <2> QED BY <1>3, <1>6, FunctionIsSeq
<1>8. ASSUME NEW k \in 1 .. n
      PROVE  /\ f[k].job = s.files[id][a + k]
             /\ f[k].next = IF a + k = b /\ id < upto.segment THEN Pos(id + 1, 0) ELSE Pos(id, a + k)
  OBVIOUS
<1> HIDE DEF f
<1>9. \A k \in 1 .. n : a + k <= b BY <1>2, <1>3
<1> QED BY <1>1, <1>4, <1>7, <1>8, <1>9 DEF a, b, n

(* A damaged record ends the reading of its segment. *)
LEMMA UndamagedIs ==
  ASSUME NEW slice \in Seq(Records), NEW damaged
  PROVE  LET u == Undamaged(slice, damaged) IN
         /\ u \in Seq(Records) /\ Len(u) <= Len(slice)
         /\ \A k \in 1 .. Len(u) : u[k] = slice[k] /\ slice[k].job \notin damaged
         /\ Len(u) < Len(slice) => slice[Len(u) + 1].job \in damaged
<1> DEFINE u == Undamaged(slice, damaged)
           bad == {k \in DOMAIN slice : slice[k].job \in damaged}
<1>1. Len(slice) \in Nat /\ DOMAIN slice = 1 .. Len(slice) BY LenProperties
<1>2. CASE bad = {}
  <2>1. u = slice BY <1>2 DEF Undamaged
  <2> QED BY <2>1, <1>1, <1>2
<1>3. CASE bad # {}
  <2> DEFINE m == Min(bad)
  <2>1. m \in bad /\ \A y \in bad : m <= y
    <3>1. bad \subseteq Nat BY <1>1
    <3> HIDE DEF bad
    <3> QED BY <3>1, <1>3, MinIs
  <2> HIDE DEF m
  <2>2. m \in 1 .. Len(slice) /\ slice[m].job \in damaged /\ m - 1 \in 0 .. Len(slice) BY <2>1, <1>1
  <2>3. \A k \in 1 .. m - 1 : slice[k].job \notin damaged BY <2>1, <2>2, <1>1
  <2>4. u = SubSeq(slice, 1, m - 1) BY <1>3 DEF Undamaged, m
  <2>5. u \in Seq(Records) /\ Len(u) = m - 1 /\ \A i \in 1 .. m - 1 : u[i] = slice[i]
    BY <2>2, <2>4, CutInTwo
  <2> HIDE DEF u, bad
  <2>6. Len(u) + 1 = m /\ Len(u) <= Len(slice) BY <1>1, <2>2, <2>5
  <2> QED BY <2>2, <2>3, <2>5, <2>6 DEF u
<1> QED BY <1>2, <1>3

LEMMA PartIs ==
  ASSUME NEW s, StoreOK(s), NEW from \in Positions, NEW upto \in Positions, NEW id \in Nat,
         NEW damaged
  PROVE  LET u == Part(s, from, upto, damaged, id)
             a == First(from, id)
         IN /\ u \in Seq(Records) /\ Len(u) \in Nat
            /\ \A k \in 1 .. Len(u) :
                 /\ id \in Ids(s) /\ a + k \in 1 .. OnDisk(s, id) /\ a + k <= Limit(s, upto, id)
                 /\ u[k].job = s.files[id][a + k] /\ u[k].job \notin damaged
                 /\ u[k].next = IF a + k = Limit(s, upto, id) /\ id < upto.segment
                                THEN Pos(id + 1, 0) ELSE Pos(id, a + k)
            /\ a + Len(u) < Limit(s, upto, id) => s.files[id][a + Len(u) + 1] \in damaged
<1> DEFINE sl == Slice(s, from, upto, id)  u == Part(s, from, upto, damaged, id)
           a == First(from, id)  b == Limit(s, upto, id)
<1>1. /\ sl \in Seq(Records) /\ Len(sl) = Minus(b, a)
      /\ \A k \in 1 .. Len(sl) :
           /\ id \in Ids(s) /\ a + k \in 1 .. OnDisk(s, id) /\ a + k <= b
           /\ sl[k].job = s.files[id][a + k]
           /\ sl[k].next = IF a + k = b /\ id < upto.segment THEN Pos(id + 1, 0) ELSE Pos(id, a + k)
  BY SliceIs
<1>2. a \in Nat /\ b \in Nat BY LimitIs
<1> HIDE DEF sl, a, b
<1>3. /\ u \in Seq(Records) /\ Len(u) <= Len(sl)
      /\ \A k \in 1 .. Len(u) : u[k] = sl[k] /\ sl[k].job \notin damaged
      /\ Len(u) < Len(sl) => sl[Len(u) + 1].job \in damaged
  BY <1>1, UndamagedIs DEF Part, sl
<1> HIDE DEF u
<1>4. Len(u) \in Nat /\ Len(sl) \in Nat BY <1>1, <1>3, LenProperties
<1>5. ASSUME NEW k \in 1 .. Len(u) PROVE k \in 1 .. Len(sl) BY <1>3, <1>4
<1>6. ASSUME a + Len(u) < b PROVE s.files[id][a + Len(u) + 1] \in damaged
  <2>1. Len(u) < Len(sl) BY <1>1, <1>2, <1>4, <1>6 DEF Minus
  <2>2. Len(u) + 1 \in 1 .. Len(sl) /\ a + (Len(u) + 1) = a + Len(u) + 1 BY <2>1, <1>2, <1>4
  <2> QED BY <2>1, <2>2, <1>1, <1>3
<1> QED BY <1>1, <1>3, <1>4, <1>5, <1>6 DEF u, a, b

LEMMA LayoutExists ==
  ASSUME NEW s, StoreOK(s), NEW from \in Positions, NEW upto \in Positions, NEW damaged
  PROVE  \E ss, off : Layout(s, from, upto, damaged, ss, off)
<1> DEFINE M == upto.segment - from.segment + 1
           N == IF M < 0 THEN 0 ELSE M
           ss == [i \in 1 .. M |-> Part(s, from, upto, damaged, from.segment + i - 1)]
<1>1. from.segment \in Nat /\ upto.segment \in Nat BY DEF Positions
<1>2. N \in Nat /\ 1 .. M = 1 .. N BY <1>1
<1>3. \A i \in Int : i \in 1 .. N <=> 1 <= i /\ from.segment + i - 1 <= upto.segment BY <1>1
<1>4. ASSUME NEW i \in 1 .. N PROVE Part(s, from, upto, damaged, from.segment + i - 1) \in Seq(Records)
  <2>1. from.segment + i - 1 \in Nat BY <1>1, <1>2
  <2> QED BY <2>1, PartIs
<1>5. Stream(s, from, upto, damaged) = FlattenSeq(ss) BY DEF Stream, Part
<1> HIDE DEF M, N
<1>6. ss \in [1 .. N -> Seq(Records)] /\ \A i \in 1 .. N : ss[i] = Part(s, from, upto, damaged, from.segment + i - 1)
  BY <1>2, <1>4
<1> HIDE DEF ss
<1>7. ss \in Seq(Seq(Records)) /\ Len(ss) = N BY <1>2, <1>6, FunctionIsSeq
<1>8. PICK off : Offsets(ss, off) BY <1>7, OffsetsExist
<1>9. Layout(s, from, upto, damaged, ss, off) BY <1>3, <1>5, <1>6, <1>7, <1>8 DEF Layout
<1> QED BY <1>9

LEMMA StreamAt ==
  ASSUME NEW s, StoreOK(s), NEW from \in Positions, NEW upto \in Positions, NEW damaged,
         NEW ss, NEW off, Layout(s, from, upto, damaged, ss, off)
  PROVE  /\ Stream(s, from, upto, damaged) \in Seq(Records)
         /\ Flattened(ss, off, Stream(s, from, upto, damaged))
<1>1. ss \in Seq(Seq(Records)) /\ Offsets(ss, off) /\ Stream(s, from, upto, damaged) = FlattenSeq(ss)
  BY DEF Layout
<1> QED BY <1>1, FlattenIs

LEMMA BetweenIs ==
  ASSUME NEW s, StoreOK(s), NEW from \in Positions, NEW upto \in Positions
  PROVE  JobsIn(Stream(s, from, upto, {})) = Between(s, from, upto)
<1> DEFINE F == Stream(s, from, upto, {})
<1>1. PICK ss, off : Layout(s, from, upto, {}, ss, off) BY LayoutExists
<1>2. F \in Seq(Records) /\ Flattened(ss, off, F) BY <1>1, StreamAt
<1>3. /\ \A i \in Int : i \in 1 .. Len(ss) <=> 1 <= i /\ from.segment + i - 1 <= upto.segment
      /\ \A i \in 1 .. Len(ss) : ss[i] = Part(s, from, upto, {}, from.segment + i - 1)
  BY <1>1 DEF Layout
<1>4. from.segment \in Nat /\ upto.segment \in Nat /\ from.offset \in Nat /\ upto.offset \in Nat
  BY DEF Positions
<1>5. DOMAIN F = 1 .. Len(F) BY <1>2, LenProperties
<1> HIDE DEF F
<1>6. ASSUME NEW p \in 1 .. Len(F) PROVE F[p].job \in Between(s, from, upto)
  <2>1. PICK i \in 1 .. Len(ss) : \E k \in 1 .. Len(ss[i]) : F[p] = ss[i][k] BY <1>2 DEF Flattened
  <2>2. PICK k \in 1 .. Len(ss[i]) : F[p] = ss[i][k] BY <2>1
  <2> DEFINE id == from.segment + i - 1  a == First(from, id)
  <2>3. id \in Nat /\ from.segment <= id /\ id <= upto.segment /\ ss[i] = Part(s, from, upto, {}, id)
    BY <1>3, <1>4
  <2> HIDE DEF id
  <2>4. /\ id \in Ids(s) /\ a + k \in 1 .. OnDisk(s, id) /\ a + k <= Limit(s, upto, id)
        /\ F[p].job = s.files[id][a + k] /\ k \in 1 .. Len(ss[i]) /\ Len(ss[i]) \in Nat
    BY <2>2, <2>3, PartIs
  <2>5. k \in Nat \ {0} /\ a \in Nat /\ (id = from.segment => a = from.offset) BY <1>4, <2>4 DEF First
  <2>6. Before(from, Pos(id, a + k)) BY <1>4, <2>3, <2>5 DEF Before, Pos
  <2>7. ~Before(upto, Pos(id, a + k))
    <3>1. id = upto.segment => Limit(s, upto, id) <= upto.offset /\ Limit(s, upto, id) \in Nat
      BY <2>3, LimitIs
    <3> QED BY <1>4, <2>3, <2>4, <2>5, <3>1 DEF Before, Pos
  <2>8. F[p].job \in Jobs
    <3>1. F[p] \in Records BY <1>2, ElementOfSeq
    <3> QED BY <3>1 DEF Records
  <2> QED BY <2>4, <2>6, <2>7, <2>8 DEF Between
<1>7. ASSUME NEW j \in Between(s, from, upto) PROVE \E p \in 1 .. Len(F) : F[p].job = j
  <2>1. PICK id \in Ids(s) : \E k \in 1 .. OnDisk(s, id) :
          j = s.files[id][k] /\ Before(from, Pos(id, k)) /\ ~Before(upto, Pos(id, k))
    BY DEF Between
  <2>2. PICK k \in 1 .. OnDisk(s, id) :
          j = s.files[id][k] /\ Before(from, Pos(id, k)) /\ ~Before(upto, Pos(id, k))
    BY <2>1
  <2>3. id \in Nat /\ OnDisk(s, id) \in Nat /\ k \in Nat \ {0} BY IdsAreNat, Lengths
  <2>4. /\ from.segment <= id /\ id <= upto.segment
        /\ id = from.segment => from.offset < k
        /\ id = upto.segment => k <= upto.offset
    BY <1>4, <2>2, <2>3 DEF Before, Pos
  <2> DEFINE i == id - from.segment + 1  a == First(from, id)  u == Part(s, from, upto, {}, id)
  <2>5. i \in 1 .. Len(ss) /\ ss[i] = u
    <3>1. i \in Int /\ 1 <= i /\ from.segment + i - 1 = id BY <1>4, <2>3, <2>4
    <3> HIDE DEF i
    <3> QED BY <1>3, <2>4, <3>1
  <2>6. Len(u) \in Nat /\ ~(a + Len(u) < Limit(s, upto, id)) BY <2>3, PartIs
  <2>7. a \in Nat /\ a < k BY <1>4, <2>3, <2>4 DEF First
  <2>8. k <= Limit(s, upto, id) /\ Limit(s, upto, id) \in Nat BY <2>3, <2>4, <1>4, LimitIs
  <2> DEFINE l == Len(u)
  <2>9. k - a \in 1 .. l /\ a + (k - a) = k
    <3>1. l \in Nat /\ ~(a + l < Limit(s, upto, id)) BY <2>6
    <3> HIDE DEF l, a
    <3> QED BY <2>3, <2>7, <2>8, <3>1
  <2> HIDE DEF i
  <2>10. u[k - a].job = s.files[id][k] BY <2>3, <2>9, PartIs
  <2>11. off[i - 1] + (k - a) \in 1 .. Len(F) /\ F[off[i - 1] + (k - a)] = u[k - a]
    <3> HIDE DEF u, a
    <3> QED BY <1>2, <2>5, <2>9 DEF Flattened
  <2> QED BY <2>2, <2>10, <2>11
<1> QED BY <1>5, <1>6, <1>7 DEF JobsIn, F

LEMMA JobsOfIs ==
  ASSUME NEW T, NEW seq \in Seq(T), \A x \in T : x.job \in Jobs
  PROVE  /\ JobsOf(seq) \in Seq(Jobs) /\ Len(JobsOf(seq)) = Len(seq)
         /\ \A i \in 1 .. Len(seq) : JobsOf(seq)[i] = seq[i].job
<1>1. DOMAIN seq = 1 .. Len(seq) /\ Len(seq) \in Nat /\ \A i \in 1 .. Len(seq) : seq[i] \in T
  BY LenProperties, ElementOfSeq
<1>2. JobsOf(seq) \in [1 .. Len(seq) -> Jobs] /\ \A i \in 1 .. Len(seq) : JobsOf(seq)[i] = seq[i].job
  BY <1>1 DEF JobsOf
<1> QED BY <1>1, <1>2, FunctionIsSeq

LEMMA BatchEnd ==
  ASSUME NEW s, StoreOK(s), NEW from \in Positions, NEW upto \in Positions, NEW damaged,
         NEW id0, NEW k0, Reads(s, from, upto, damaged, id0, k0),
         NEW next, next = Part(s, from, upto, damaged, id0)[k0].next,
         NEW id, NEW k, Reads(s, from, next, damaged, id, k)
  PROVE  InBatch(s, from, upto, damaged, id0, k0, next, id, k)
<1> DEFINE u0 == Part(s, from, upto, damaged, id0)  a0 == First(from, id0)
           u == Part(s, from, upto, damaged, id)  v == Part(s, from, next, damaged, id)
           a == First(from, id)
<1>0. /\ id0 \in Nat /\ from.segment <= id0 /\ id0 <= upto.segment
      /\ k0 \in 1 .. Len(Part(s, from, upto, damaged, id0))
      /\ id \in Nat /\ from.segment <= id /\ id <= next.segment
      /\ k \in 1 .. Len(Part(s, from, next, damaged, id))
  BY DEF Reads
<1>1. from.segment \in Nat /\ upto.segment \in Nat /\ from.offset \in Nat /\ upto.offset \in Nat
  BY DEF Positions
<1> USE <1>0
<1>2. /\ id0 \in Ids(s) /\ a0 + k0 \in 1 .. OnDisk(s, id0) /\ a0 + k0 <= Limit(s, upto, id0)
      /\ u0[k0].next = IF a0 + k0 = Limit(s, upto, id0) /\ id0 < upto.segment
                       THEN Pos(id0 + 1, 0) ELSE Pos(id0, a0 + k0)
      /\ Len(u0) \in Nat
  BY PartIs
<1>3. a0 \in Nat /\ a \in Nat /\ (id = id0 => a = a0) BY <1>1 DEF First
<1>4. next \in Positions BY <1>2, <1>3 DEF Pos, Positions
<1>5. /\ Len(v) \in Nat
      /\ \A n \in 1 .. Len(v) :
           /\ id \in Ids(s) /\ a + n \in 1 .. OnDisk(s, id) /\ a + n <= Limit(s, next, id)
           /\ v[n].job = s.files[id][a + n] /\ v[n].job \notin damaged
  BY <1>4, PartIs, SMTT(20)
<1>6. /\ Len(u) \in Nat
      /\ \A n \in 1 .. Len(u) : u[n].job = s.files[id][a + n]
      /\ a + Len(u) < Limit(s, upto, id) => s.files[id][a + Len(u) + 1] \in damaged
  BY PartIs
<1> HIDE DEF u0, u, v, a0, a
<1>7. OnDisk(s, id) \in Nat /\ OnDisk(s, id0) \in Nat BY Lengths
<1>8. /\ Limit(s, upto, id) \in Nat /\ Limit(s, next, id) \in Nat /\ Limit(s, upto, id0) \in Nat
      /\ id # upto.segment => Limit(s, upto, id) = OnDisk(s, id)
      /\ id = next.segment => Limit(s, next, id) <= next.offset
  BY <1>4, LimitIs
<1>9. k \in 1 .. Len(v) /\ a + k <= Limit(s, next, id) /\ a + k \in 1 .. OnDisk(s, id) /\ k \in Nat \ {0}
  <2>1. k \in 1 .. Len(v) BY DEF v
  <2> QED BY <1>5, <2>1
<1>10. next = u0[k0].next /\ k0 \in 1 .. Len(u0) BY DEF u0
<1>11. \/ next = Pos(id0 + 1, 0) /\ a0 + k0 = Limit(s, upto, id0) /\ id0 < upto.segment
       \/ next = Pos(id0, a0 + k0)
  BY <1>2, <1>10
<1>12. id <= id0 BY <1>3, <1>8, <1>9, <1>11 DEF Pos
<1>13. id = id0 => k <= k0
  <2> SUFFICES ASSUME id = id0 PROVE k <= k0 OBVIOUS
  <2>1. CASE next = Pos(id0, a0 + k0) BY <2>1, <1>3, <1>8, <1>9, <1>10 DEF Pos
  <2>2. CASE next = Pos(id0 + 1, 0) /\ a0 + k0 = Limit(s, upto, id0) /\ id0 < upto.segment
    <3>1. a = a0 /\ a0 + k0 = OnDisk(s, id) BY <2>2, <1>1, <1>3, <1>8
    <3>2. a + k <= OnDisk(s, id) BY <1>7, <1>9
    <3>3. k0 \in Nat BY <1>2
    <3> QED BY <3>1, <3>2, <3>3, <1>3, <1>9
  <2> QED BY <1>11, <2>1, <2>2
<1>14. a + k <= Limit(s, upto, id)
  <2>1. CASE id # upto.segment BY <2>1, <1>7, <1>8, <1>9
  <2>2. CASE id = upto.segment
    <3>1. id = id0 /\ next = Pos(id0, a0 + k0) BY <2>2, <1>1, <1>11, <1>12
    <3> QED BY <3>1, <1>2, <1>3, <1>13, <1>10, <1>8, <1>9
  <2> QED BY <2>1, <2>2
<1>15. k <= Len(u)
  <2> SUFFICES ASSUME Len(u) < k PROVE FALSE
    BY <1>6, <1>9
  <2> DEFINE n == Len(u) + 1
  <2>1. n \in 1 .. Len(v) /\ a + n = a + Len(u) + 1 /\ a + Len(u) < Limit(s, upto, id)
    BY <1>3, <1>5, <1>6, <1>8, <1>9, <1>14
  <2>2. s.files[id][a + n] \in damaged BY <2>1, <1>6
  <2> HIDE DEF n
  <2>3. v[n].job = s.files[id][a + n] /\ v[n].job \notin damaged BY <2>1, <1>5
  <2> QED BY <2>2, <2>3
<1>16. k \in 1 .. Len(u) BY <1>6, <1>9, <1>15
<1>17. u[k].job = v[k].job BY <1>5, <1>6, <1>9, <1>16
<1> QED BY <1>12, <1>13, <1>16, <1>17 DEF u, v, InBatch

LEMMA InStream ==
  ASSUME NEW s, StoreOK(s), NEW from \in Positions, NEW upto \in Positions, NEW damaged,
         NEW ss, NEW off, Layout(s, from, upto, damaged, ss, off),
         NEW j \in JobsIn(Stream(s, from, upto, damaged))
  PROVE  \E i \in 1 .. Len(ss) : \E k \in 1 .. Len(ss[i]) : ss[i][k].job = j
<1> DEFINE F == Stream(s, from, upto, damaged)
<1>1. F \in Seq(Records) /\ Flattened(ss, off, F) BY StreamAt
<1>2. j \in JobsIn(F) OBVIOUS
<1> HIDE DEF F
<1>3. DOMAIN F = 1 .. Len(F) BY <1>1, LenProperties
<1>4. PICK p \in 1 .. Len(F) : F[p].job = j BY <1>2, <1>3 DEF JobsIn
<1>5. PICK i \in 1 .. Len(ss) : \E k \in 1 .. Len(ss[i]) : F[p] = ss[i][k] BY <1>1 DEF Flattened
<1> QED BY <1>4, <1>5

LEMMA ReadBatchIs ==
  ASSUME NEW s, StoreOK(s), NEW from \in Positions, NEW upto \in Positions, NEW damaged
  PROVE  LET read == ReadBatch(s, from, upto, damaged) IN
         /\ read.records \in Seq(Records)
         /\ read.next \in Positions /\ ~Before(upto, read.next)
         /\ JobsIn(Stream(s, from, read.next, damaged)) \subseteq ToSet(JobsOf(read.records))
<1> DEFINE F == Stream(s, from, upto, damaged)
           read == ReadBatch(s, from, upto, damaged)
           B == BatchJobs
<1>1. PICK ss, off : Layout(s, from, upto, damaged, ss, off) BY LayoutExists
<1>2. F \in Seq(Records) /\ Flattened(ss, off, F) BY <1>1, StreamAt
<1>3. \A x \in Records : x.job \in Jobs /\ x.next \in Positions BY DEF Records
<1>4. B \in Nat \ {0} BY StoreAssumption
<1>5. DOMAIN F = 1 .. Len(F) /\ Len(F) \in Nat BY <1>2, LenProperties
<1>6. CASE Len(F) < B
  <2>1. read.records = F /\ read.next = upto BY <1>6 DEF ReadBatch
  <2>2. ~Before(upto, upto) BY DEF Before, Positions
  <2>3. JobsIn(F) \subseteq ToSet(JobsOf(F))
    <3> HIDE DEF F
    <3>1. JobsOf(F) \in Seq(Jobs) /\ Len(JobsOf(F)) = Len(F) /\ \A i \in 1 .. Len(F) : JobsOf(F)[i] = F[i].job
      BY <1>2, <1>3, JobsOfIs
    <3>2. ASSUME NEW i \in 1 .. Len(F) PROVE F[i].job \in ToSet(JobsOf(F)) BY <3>1, InToSet
    <3> QED BY <1>5, <3>2 DEF JobsIn
  <2> HIDE DEF read
  <2> QED BY <2>1, <2>2, <2>3, <1>2 DEF read
<1>7. CASE ~(Len(F) < B)
  <2> DEFINE R == SubSeq(F, 1, B)
  <2>1. read.records = R /\ read.next = F[B].next BY <1>7 DEF ReadBatch
  <2>2. B \in 0 .. Len(F) /\ B \in 1 .. Len(F) BY <1>4, <1>5, <1>7
  <2>3. R \in Seq(Records) /\ Len(R) = B /\ \A i \in 1 .. B : R[i] = F[i] BY <1>2, <2>2, CutInTwo
  <2> DEFINE next == read.next
  <2> HIDE DEF R, read, next, F, B
  <2>4. JobsOf(R) \in Seq(Jobs) /\ Len(JobsOf(R)) = B /\ \A i \in 1 .. B : JobsOf(R)[i] = F[i].job
    BY <2>3, <1>3, JobsOfIs
  <2>5. PICK i0 \in 1 .. Len(ss) : \E k \in 1 .. Len(ss[i0]) : B = off[i0 - 1] + k /\ F[B] = ss[i0][k]
    BY <1>2, <2>2 DEF Flattened
  <2>6. PICK k0 \in 1 .. Len(ss[i0]) : B = off[i0 - 1] + k0 /\ F[B] = ss[i0][k0] BY <2>5
  <2>7. /\ ss \in Seq(Seq(Records)) /\ Offsets(ss, off)
        /\ \A i \in Int : i \in 1 .. Len(ss) <=> 1 <= i /\ from.segment + i - 1 <= upto.segment
        /\ \A i \in 1 .. Len(ss) : ss[i] = Part(s, from, upto, damaged, from.segment + i - 1)
    BY <1>1 DEF Layout
  <2>8. from.segment \in Nat /\ upto.segment \in Nat /\ from.offset \in Nat /\ upto.offset \in Nat
    BY DEF Positions
  <2> DEFINE id0 == from.segment + i0 - 1
  <2>9. id0 \in Nat /\ from.segment <= id0 /\ id0 <= upto.segment /\ ss[i0] = Part(s, from, upto, damaged, id0)
    BY <2>7, <2>8
  <2>10. next = F[B].next /\ F[B] \in Records /\ next \in Positions
    BY <1>2, <1>3, <2>1, <2>2, ElementOfSeq DEF next
  <2> HIDE DEF id0
  <2>11. k0 \in 1 .. Len(Part(s, from, upto, damaged, id0)) /\ next = Part(s, from, upto, damaged, id0)[k0].next
    BY <2>6, <2>9, <2>10
  <2>12. ~Before(upto, next)
    <3> DEFINE a0 == First(from, id0)
    <3>1. /\ a0 + k0 <= Limit(s, upto, id0)
          /\ next = IF a0 + k0 = Limit(s, upto, id0) /\ id0 < upto.segment
                    THEN Pos(id0 + 1, 0) ELSE Pos(id0, a0 + k0)
          /\ a0 + k0 \in 1 .. OnDisk(s, id0) /\ OnDisk(s, id0) \in Nat
      BY <2>9, <2>11, PartIs, Lengths
    <3>2. /\ id0 = upto.segment => Limit(s, upto, id0) <= upto.offset
          /\ Limit(s, upto, id0) \in Nat
      BY <2>9, LimitIs
    <3> HIDE DEF a0
    <3>3. CASE next = Pos(id0 + 1, 0) /\ id0 < upto.segment BY <3>3, <2>8, <2>9 DEF Before, Pos
    <3>4. CASE next = Pos(id0, a0 + k0) BY <3>4, <3>1, <3>2, <2>8, <2>9 DEF Before, Pos
    <3> QED BY <3>1, <3>3, <3>4
  <2>13. ASSUME NEW j \in JobsIn(Stream(s, from, next, damaged)) PROVE j \in ToSet(JobsOf(R))
    <3>1. PICK tt, out : Layout(s, from, next, damaged, tt, out) BY <2>10, LayoutExists
    <3>2. PICK i \in 1 .. Len(tt) : \E k \in 1 .. Len(tt[i]) : tt[i][k].job = j
      BY <3>1, <2>10, <2>13, InStream
    <3>3. PICK k \in 1 .. Len(tt[i]) : tt[i][k].job = j BY <3>2
    <3>4. /\ tt \in Seq(Seq(Records))
          /\ \A n \in Int : n \in 1 .. Len(tt) <=> 1 <= n /\ from.segment + n - 1 <= next.segment
          /\ \A n \in 1 .. Len(tt) : tt[n] = Part(s, from, next, damaged, from.segment + n - 1)
      BY <3>1 DEF Layout
    <3> DEFINE id == from.segment + i - 1
    <3>n. i \in Int /\ i \in Nat /\ i0 \in Nat
      <4>1. Len(tt) \in Nat /\ Len(ss) \in Nat BY <3>4, <2>7, LenProperties
      <4> QED BY <4>1
    <3>m. 1 <= i /\ id <= next.segment BY <3>n, <3>4
    <3>i. id \in Nat /\ from.segment <= id BY <3>n, <3>m, <2>8
    <3>p. tt[i] = Part(s, from, next, damaged, id) BY <3>4
    <3>5. /\ id \in Nat /\ from.segment <= id /\ id <= next.segment
          /\ tt[i] = Part(s, from, next, damaged, id) /\ i \in Nat
      BY <3>n, <3>m, <3>i, <3>p
    <3>6. /\ i <= i0 <=> id <= id0
          /\ i = i0 <=> id = id0
      <4>1. i \in Nat /\ i0 \in Nat /\ from.segment \in Nat BY <2>8, <3>n
      <4> QED BY <4>1 DEF id0
    <3>8. id <= id0 => from.segment + i - 1 <= upto.segment BY <2>8, <2>9, <3>5
    <3> HIDE DEF id
    <3>9. /\ id <= id0 /\ k \in 1 .. Len(Part(s, from, upto, damaged, id)) /\ (id = id0 => k <= k0)
          /\ Part(s, from, upto, damaged, id)[k].job = j
      <4>1. k \in 1 .. Len(Part(s, from, next, damaged, id)) /\ Part(s, from, next, damaged, id)[k].job = j
        BY <3>3, <3>5
      <4>2. /\ id0 \in Nat /\ from.segment <= id0 /\ id0 <= upto.segment
            /\ id \in Nat /\ from.segment <= id /\ id <= next.segment
        BY <2>9, <3>5
      <4>3. /\ id <= id0
            /\ k \in 1 .. Len(Part(s, from, upto, damaged, id))
            /\ id = id0 => k <= k0
            /\ Part(s, from, upto, damaged, id)[k].job = Part(s, from, next, damaged, id)[k].job
        <5>1. Reads(s, from, upto, damaged, id0, k0) /\ Reads(s, from, next, damaged, id, k)
          BY <2>11, <4>1, <4>2 DEF Reads
        <5>2. InBatch(s, from, upto, damaged, id0, k0, next, id, k) BY <5>1, <2>11, <2>10, BatchEnd
        <5> QED BY <5>2 DEF InBatch
      <4> QED BY <4>1, <4>3
    <3>10. i \in 1 .. Len(ss) /\ ss[i] = Part(s, from, upto, damaged, id)
      <4>1. i \in 1 .. Len(ss) BY <2>7, <3>5, <3>8, <3>9
      <4> QED BY <2>7, <4>1 DEF id
    <3>11. off[i - 1] + k \in 1 .. Len(F) /\ F[off[i - 1] + k].job = j
      BY <1>2, <3>9, <3>10 DEF Flattened
    <3>12. off[i - 1] + k <= B
      <4>1. CASE i = i0
        <5>1. off[i - 1] + k0 = B /\ k <= k0 BY <4>1, <2>6, <3>6, <3>9
        <5>2. Len(ss) \in Nat /\ Len(ss[i0]) \in Nat /\ i - 1 \in 0 .. Len(ss)
          BY <2>7, <3>10, LenProperties, ElementOfSeq
        <5>3. off[i - 1] \in Nat /\ k \in Nat /\ k0 \in Nat
          <6>1. off[i - 1] \in Nat BY <5>2, <2>7 DEF Offsets
          <6>2. k0 \in Nat BY <5>2
          <6>3. k \in 1 .. Len(ss[i0]) BY <3>9, <3>10, <4>1
          <6>4. k \in Nat BY <5>2, <6>3
          <6> QED BY <6>1, <6>2, <6>4
        <5> QED BY <5>1, <5>3
      <4>2. CASE i # i0
        <5>1. Len(ss) \in Nat /\ Len(ss[i]) \in Nat /\ Len(ss[i0]) \in Nat
          BY <2>7, <3>10, LenProperties, ElementOfSeq
        <5>2. /\ i \in 0 .. Len(ss) /\ i0 - 1 \in i .. Len(ss)
              /\ i0 - 1 \in 0 .. Len(ss) /\ i - 1 \in 0 .. Len(ss)
          BY <4>2, <5>1, <3>5, <3>6, <3>9, <3>10
        <5>3. off[i] <= off[i0 - 1] BY <5>2, <2>7, OffsetsGrow
        <5>4. /\ off[i] = off[i - 1] + Len(ss[i])
              /\ off[i] \in Nat /\ off[i - 1] \in Nat /\ off[i0 - 1] \in Nat
          BY <5>2, <2>7, <3>10 DEF Offsets
        <5> DEFINE x == off[i - 1]  y == off[i0 - 1]  z == Len(ss[i])
        <5>5. /\ x \in Nat /\ y \in Nat /\ z \in Nat /\ x + z <= y /\ k \in 1 .. z
              /\ B = y + k0 /\ k0 \in Nat
          BY <5>1, <5>3, <5>4, <3>9, <3>10, <2>6
        <5> HIDE DEF x, y, z
        <5>6. x + k <= B BY <5>5
        <5> QED BY <5>6 DEF x
      <4> QED BY <4>1, <4>2
    <3> DEFINE q == off[i - 1] + k
    <3>13. q \in 1 .. B /\ F[q].job = j BY <3>11, <3>12, <1>4, <1>5 DEF B
    <3> HIDE DEF q
    <3>14. q \in 1 .. Len(JobsOf(R)) /\ JobsOf(R)[q] = j BY <3>13, <2>4
    <3> QED BY <3>14, <2>4, InToSet
  <2> QED BY <2>1, <2>3, <2>10, <2>12, <2>13 DEF read, next
<1> QED BY <1>6, <1>7

--------------------
(* Positions. *)
LEMMA PosIs == \A n, k \in Nat : Pos(n, k) \in Positions /\ Pos(n, k).segment = n /\ Pos(n, k).offset = k
BY DEF Pos, Positions

LEMMA LaterIs ==
  ASSUME NEW p \in Positions, NEW q \in Positions
  PROVE  /\ Later(p, q) \in Positions /\ Later(p, q) \in {p, q}
         /\ ~Before(Later(p, q), p) /\ ~Before(Later(p, q), q)
BY DEF Later, Before, Positions

LEMMA NotBefore ==
  ASSUME NEW p \in Positions, NEW q \in Positions, NEW r \in Positions
  PROVE  /\ ~Before(p, p)
         /\ ~Before(q, p) /\ ~Before(r, q) => ~Before(r, p)
         /\ Before(p, q) /\ ~Before(r, q) => Before(p, r)
         /\ ~Before(q, p) /\ Before(q, r) => Before(p, r)
BY DEF Before, Positions

--------------------
(* The operations of the store: what each leaves a store ... *)
LEMMA CutIs ==
  ASSUME NEW s, StoreOK(s), s.active # NoSegment, NEW kept \in 0 .. Length(s, s.active),
         NEW c \in Positions
  PROVE  LET t == Closed(s, kept, c) IN StoreOK(t) /\ Cut(s, t, kept) /\ t.committed = c
<1> DEFINE t == Closed(s, kept, c)
<1>1. /\ s = [files |-> s.files, active |-> s.active, flushed |-> s.flushed, nextId |-> s.nextId,
              deletes |-> s.deletes, start |-> s.start, committed |-> s.committed]
      /\ s.files \in [Ids(s) -> Seq(Jobs)] /\ s.active \in Ids(s)
      /\ s.nextId \in Nat \ {0} /\ Ids(s) \subseteq 1 .. s.nextId - 1
      /\ s.deletes \subseteq Ids(s) \ {s.active} /\ s.start \in Positions
  BY DEF StoreOK
<1>2. /\ s.files[s.active] \in Seq(Jobs) /\ Length(s, s.active) = Len(s.files[s.active])
  BY <1>1 DEF Length
<1> DEFINE cut == SubSeq(s.files[s.active], 1, kept)  F == Truncated(s, kept)
<1>3. cut \in Seq(Jobs) /\ Len(cut) = kept /\ \A k \in 1 .. kept : cut[k] = s.files[s.active][k]
  BY <1>2, CutInTwo
<1>4. F \in [Ids(s) -> Seq(Jobs)] /\ F[s.active] = cut /\ \A id \in Ids(s) \ {s.active} : F[id] = s.files[id]
  BY <1>1, <1>3 DEF Truncated
<1>5. t = [files |-> F, active |-> NoSegment, flushed |-> 0, nextId |-> s.nextId,
           deletes |-> s.deletes, start |-> s.start, committed |-> c]
  <2>1. t = [s EXCEPT !.files = F, !.active = NoSegment, !.flushed = 0, !.committed = c] BY DEF Closed
  <2> HIDE DEF F, t
  <2> QED BY <1>1, <2>1
<1> HIDE DEF cut, F, t
<1>6. t.files = F /\ t.active = NoSegment /\ t.flushed = 0 /\ t.nextId = s.nextId
      /\ t.deletes = s.deletes /\ t.start = s.start /\ t.committed = c
  BY <1>5
<1>a. Ids(t) = Ids(s)
  <2>1. DOMAIN F = Ids(s) BY <1>4
  <2> QED BY <1>6, <2>1 DEF Ids
<1>7. Length(t, t.active) = 0 BY <1>1, <1>6, <1>a DEF Length, NoSegment
<1>b. t = [files |-> t.files, active |-> t.active, flushed |-> t.flushed, nextId |-> t.nextId,
           deletes |-> t.deletes, start |-> t.start, committed |-> t.committed]
  BY <1>5, <1>6
<1>8. StoreOK(t)
  <2>1. t.files \in [Ids(t) -> Seq(Jobs)] /\ t.committed \in Positions /\ t.start \in Positions
    BY <1>1, <1>4, <1>6, <1>a
  <2>2. /\ t.nextId \in Nat \ {0} /\ Ids(t) \subseteq 1 .. t.nextId - 1
        /\ t.active \in Ids(t) \cup {NoSegment}
    BY <1>1, <1>6, <1>a
  <2>3. t.deletes \subseteq Ids(t) \ {t.active} BY <1>1, <1>6, <1>a DEF NoSegment
  <2>4. t.flushed \in 0 .. Length(t, t.active) BY <1>6, <1>7
  <2> QED BY <2>1, <2>2, <2>3, <2>4, <1>b DEF StoreOK
<1>9. Cut(s, t, kept) BY <1>1, <1>3, <1>4, <1>a, <1>6 DEF Cut
<1> QED BY <1>6, <1>8, <1>9 DEF t

LEMMA NoneActive ==
  ASSUME NEW s, StoreOK(s), s.active = NoSegment
  PROVE  s.flushed = 0 /\ Length(s, s.active) = 0 /\ MayKeep(s) = {0}
<1>1. Length(s, s.active) = 0 BY IdsAreNat DEF Length
<1> QED BY <1>1 DEF StoreOK, MayKeep

LEMMA KeptIs ==
  ASSUME NEW s, StoreOK(s), NEW kept \in MayKeep(s)
  PROVE  kept \in 0 .. Length(s, s.active) /\ kept \in Nat /\ s.flushed \in Nat /\ s.flushed <= kept
BY Lengths DEF StoreOK, MayKeep

LEMMA CloseIs ==
  ASSUME NEW s, StoreOK(s), NEW kept \in MayKeep(s)
  PROVE  LET t == CloseActive(s, kept) IN
         /\ StoreOK(t) /\ t.active = NoSegment /\ t.flushed = 0 /\ t.nextId = s.nextId
         /\ s.active = NoSegment => t = s
         /\ s.active # NoSegment =>
              /\ Cut(s, t, kept)
              /\ t.committed = IF kept = Length(s, s.active) THEN Later(Pos(s.active, kept), s.committed)
                               ELSE Later(Pos(s.nextId, 0), Later(Pos(s.active, kept), s.committed))
<1> DEFINE t == CloseActive(s, kept)
<1>1. CASE s.active = NoSegment BY <1>1, NoneActive DEF CloseActive
<1>2. CASE s.active # NoSegment
  <2> DEFINE end == Later(Pos(s.active, kept), s.committed)
             c == IF kept = Length(s, s.active) THEN end ELSE Later(Pos(s.nextId, 0), end)
  <2>1. s.active \in Nat /\ kept \in Nat /\ s.nextId \in Nat /\ s.committed \in Positions
    BY KeptIs, IdsAreNat DEF StoreOK
  <2>2. end \in Positions BY <2>1, PosIs, LaterIs
  <2>3. c \in Positions
    <3> HIDE DEF end
    <3> QED BY <2>1, <2>2, PosIs, LaterIs
  <2>4. t = Closed(s, kept, c) BY <1>2 DEF CloseActive, Closed
  <2> HIDE DEF t, c
  <2>5. StoreOK(t) /\ Cut(s, t, kept) /\ t.committed = c BY <1>2, <2>3, <2>4, KeptIs, CutIs
  <2> QED BY <1>2, <2>5 DEF t, c, Cut
<1> QED BY <1>1, <1>2

LEMMA AbandonIs ==
  ASSUME NEW s, StoreOK(s), NEW kept \in MayKeep(s)
  PROVE  LET t == AbandonActive(s, kept) IN
         /\ StoreOK(t) /\ t.active = NoSegment /\ t.flushed = 0 /\ t.nextId = s.nextId
         /\ s.active = NoSegment => t = s
         /\ s.active # NoSegment =>
              Cut(s, t, kept) /\ t.committed = Later(Pos(s.nextId, 0), s.committed)
<1> DEFINE t == AbandonActive(s, kept)
<1>1. CASE s.active = NoSegment BY <1>1, NoneActive DEF AbandonActive
<1>2. CASE s.active # NoSegment
  <2> DEFINE c == Later(Pos(s.nextId, 0), s.committed)
  <2>1. s.nextId \in Nat /\ s.committed \in Positions BY DEF StoreOK
  <2>2. c \in Positions BY <2>1, PosIs, LaterIs
  <2>3. t = Closed(s, kept, c) BY <1>2 DEF AbandonActive, Closed
  <2> HIDE DEF t, c
  <2>4. StoreOK(t) /\ Cut(s, t, kept) /\ t.committed = c BY <1>2, <2>2, <2>3, KeptIs, CutIs
  <2> QED BY <1>2, <2>4 DEF t, c, Cut
<1> QED BY <1>1, <1>2

LEMMA RecommittedIs ==
  ASSUME NEW s, StoreOK(s), NEW c \in Positions
  PROVE  LET t == Recommitted(s, c) IN
         /\ StoreOK(t) /\ t.committed = c /\ t.files = s.files /\ t.active = s.active
         /\ t.flushed = s.flushed /\ t.nextId = s.nextId /\ t.deletes = s.deletes
<1> DEFINE t == Recommitted(s, c)
<1>1. t = [files |-> s.files, active |-> s.active, flushed |-> s.flushed, nextId |-> s.nextId,
           deletes |-> s.deletes, start |-> s.start, committed |-> c]
  <2>1. t = [s EXCEPT !.committed = c] BY DEF Recommitted
  <2> HIDE DEF t
  <2> QED BY <2>1 DEF StoreOK
<1>2. Ids(t) = Ids(s) /\ Length(t, t.active) = Length(s, s.active) BY <1>1 DEF Ids, Length
<1> QED BY <1>1, <1>2 DEF StoreOK

LEMMA RollIs ==
  ASSUME NEW s, StoreOK(s), NEW kept \in MayKeep(s)
  PROVE  LET u == CloseActive(s, kept)  t == Roll(s, kept) IN
         /\ StoreOK(t) /\ t.committed = Later(u.committed, Pos(u.nextId, 0)) /\ t.files = u.files
         /\ t.active = NoSegment /\ t.flushed = 0 /\ t.nextId = u.nextId /\ t.deletes = u.deletes
         /\ u.nextId = s.nextId
<1> DEFINE u == CloseActive(s, kept)  t == Roll(s, kept)  c == Later(u.committed, Pos(u.nextId, 0))
<1>1. StoreOK(u) /\ u.active = NoSegment /\ u.flushed = 0 /\ u.nextId = s.nextId BY CloseIs
<1>2. t = Recommitted(u, c) BY DEF Roll, Recommitted
<1> HIDE DEF t, u
<1>3. c \in Positions BY <1>1, PosIs, LaterIs DEF StoreOK
<1>4. t.committed = c /\ StoreOK(t) /\ t.files = u.files /\ t.active = u.active
         /\ t.flushed = u.flushed /\ t.nextId = u.nextId /\ t.deletes = u.deletes
  <2> HIDE DEF c
  <2> QED BY <1>1, <1>2, <1>3, RecommittedIs
<1> QED BY <1>1, <1>4 DEF t, u

LEMMA FlushIs ==
  ASSUME NEW s, StoreOK(s), s.active # NoSegment, NEW c \in Positions
  PROVE  LET t == Flushed(s, c) IN
         /\ StoreOK(t) /\ t.files = s.files /\ t.active = s.active /\ t.nextId = s.nextId
         /\ t.deletes = s.deletes /\ t.flushed = Length(s, s.active) /\ t.committed = c
<1> DEFINE t == Flushed(s, c)
<1>1. t = [files |-> s.files, active |-> s.active, flushed |-> Length(s, s.active), nextId |-> s.nextId,
           deletes |-> s.deletes, start |-> s.start, committed |-> c]
  <2>1. t = [s EXCEPT !.flushed = Length(s, s.active), !.committed = c] BY DEF Flushed
  <2> HIDE DEF t
  <2> QED BY <2>1 DEF StoreOK
<1>2. Ids(t) = Ids(s) /\ Length(t, t.active) = Length(s, s.active) BY <1>1 DEF Ids, Length
<1>3. Length(s, s.active) \in Nat BY Lengths
<1>4. Length(s, s.active) \in 0 .. Length(s, s.active) BY <1>3
<1>5. t = [files |-> t.files, active |-> t.active, flushed |-> t.flushed, nextId |-> t.nextId,
           deletes |-> t.deletes, start |-> t.start, committed |-> t.committed]
  BY <1>1
<1>6. /\ t.files = s.files /\ t.active = s.active /\ t.nextId = s.nextId /\ t.start = s.start
      /\ t.deletes = s.deletes /\ t.flushed = Length(s, s.active) /\ t.committed = c
  BY <1>1
<1> HIDE DEF t
<1>7. StoreOK(t) BY <1>2, <1>4, <1>5, <1>6 DEF StoreOK
<1> QED BY <1>6, <1>7 DEF t

LEMMA FlushedIs ==
  ASSUME NEW s, StoreOK(s)
  PROVE  /\ StoreOK(Flush(s)) /\ StoreOK(FlushUnsynced(s))
         /\ Flush(s).files = s.files /\ Flush(s).active = s.active /\ Flush(s).nextId = s.nextId
         /\ Flush(s).deletes = s.deletes /\ Flush(s).flushed = Length(s, s.active)
         /\ Flush(s).committed = IF s.active = NoSegment THEN s.committed ELSE WritePosition(s)
<1>1. CASE s.active = NoSegment
  <2>1. Flush(s) = s /\ s.flushed = Length(s, s.active) BY <1>1, NoneActive DEF Flush
  <2>2. FlushUnsynced(s) = s BY <2>1 DEF FlushUnsynced, StoreOK
  <2> QED BY <1>1, <2>1, <2>2
<1>2. CASE s.active # NoSegment
  <2>1. s.committed \in Positions /\ WritePosition(s) \in Positions
    BY IdsAreNat, Lengths, PosIs DEF StoreOK, WritePosition
  <2> DEFINE t == Flush(s)  u == FlushUnsynced(s)
  <2>2. t = Flushed(s, WritePosition(s)) BY <1>2 DEF Flush, Flushed
  <2>3. u = Flushed(s, s.committed) BY DEF FlushUnsynced, Flushed, StoreOK
  <2> HIDE DEF t, u
  <2>4. /\ StoreOK(t) /\ t.files = s.files /\ t.active = s.active /\ t.nextId = s.nextId
        /\ t.deletes = s.deletes /\ t.flushed = Length(s, s.active) /\ t.committed = WritePosition(s)
    BY <1>2, <2>1, <2>2, FlushIs
  <2>5. StoreOK(u) BY <1>2, <2>1, <2>3, FlushIs
  <2> QED BY <1>2, <2>4, <2>5 DEF t, u
<1> QED BY <1>1, <1>2

LEMMA OpenedIs ==
  ASSUME NEW s, StoreOK(s), s.active = NoSegment
  PROVE  LET t == Opened(s) IN
         /\ StoreOK(t) /\ t.active = s.nextId /\ t.nextId = s.nextId + 1 /\ t.flushed = 0
         /\ t.committed = s.committed /\ t.deletes = s.deletes /\ Ids(t) = Ids(s) \cup {s.nextId}
         /\ s.nextId \notin Ids(s) /\ t.files[s.nextId] = <<>>
         /\ \A id \in Ids(s) : t.files[id] = s.files[id]
<1> DEFINE t == Opened(s)
           F == [id \in Ids(s) \cup {s.nextId} |-> IF id = s.nextId THEN <<>> ELSE s.files[id]]
<1>1. /\ s = [files |-> s.files, active |-> s.active, flushed |-> s.flushed, nextId |-> s.nextId,
              deletes |-> s.deletes, start |-> s.start, committed |-> s.committed]
      /\ s.files \in [Ids(s) -> Seq(Jobs)]
      /\ s.nextId \in Nat \ {0} /\ Ids(s) \subseteq 1 .. s.nextId - 1
      /\ s.deletes \subseteq Ids(s) /\ s.start \in Positions /\ s.committed \in Positions
  BY DEF StoreOK
<1>2. s.flushed = 0 BY NoneActive
<1>3. s.nextId \notin Ids(s) BY <1>1
<1>4. /\ F \in [Ids(s) \cup {s.nextId} -> Seq(Jobs)] /\ F[s.nextId] = <<>>
      /\ \A id \in Ids(s) : F[id] = s.files[id]
  <2>1. <<>> \in Seq(Jobs) OBVIOUS
  <2> QED BY <1>1, <1>3, <2>1
<1>5. t = [files |-> F, active |-> s.nextId, flushed |-> s.flushed, nextId |-> s.nextId + 1,
           deletes |-> s.deletes, start |-> s.start, committed |-> s.committed]
  <2>1. t = [s EXCEPT !.files = F, !.active = s.nextId, !.nextId = s.nextId + 1] BY DEF Opened
  <2> HIDE DEF F, t
  <2> QED BY <1>1, <2>1
<1> HIDE DEF F, t
<1>6. /\ t.files = F /\ t.active = s.nextId /\ t.flushed = 0 /\ t.nextId = s.nextId + 1
      /\ t.deletes = s.deletes /\ t.start = s.start /\ t.committed = s.committed
      /\ t = [files |-> t.files, active |-> t.active, flushed |-> t.flushed, nextId |-> t.nextId,
              deletes |-> t.deletes, start |-> t.start, committed |-> t.committed]
  BY <1>2, <1>5
<1>7. Ids(t) = Ids(s) \cup {s.nextId}
  <2>1. DOMAIN F = Ids(s) \cup {s.nextId} BY <1>4
  <2> QED BY <1>6, <2>1 DEF Ids
<1>8. StoreOK(t)
  <2>1. t.files \in [Ids(t) -> Seq(Jobs)] /\ t.committed \in Positions /\ t.start \in Positions
    BY <1>1, <1>4, <1>6, <1>7
  <2>2. t.nextId \in Nat \ {0} /\ Ids(t) \subseteq 1 .. t.nextId - 1 BY <1>1, <1>6, <1>7
  <2>3. t.active \in Ids(t) \cup {NoSegment} /\ t.deletes \subseteq Ids(t) \ {t.active}
    BY <1>1, <1>3, <1>6, <1>7
  <2>4. Length(t, t.active) = 0 BY <1>4, <1>6, <1>7 DEF Length
  <2>5. t.flushed \in 0 .. Length(t, t.active) BY <1>6, <2>4
  <2> QED BY <1>6, <2>1, <2>2, <2>3, <2>5 DEF StoreOK
<1> QED BY <1>3, <1>4, <1>6, <1>7, <1>8 DEF t

LEMMA EverythingKept ==
  ASSUME NEW s, StoreOK(s)
  PROVE  Length(s, s.active) \in MayKeep(s) /\ s.flushed \in MayKeep(s)
BY Lengths DEF StoreOK, MayKeep

LEMMA ReadyIs ==
  ASSUME NEW s, StoreOK(s)
  PROVE  LET u == BeforeOpening(s)  t == ReadyToAppend(s) IN
         /\ StoreOK(u) /\ StoreOK(t) /\ t.active \in Ids(t) /\ t.active # NoSegment
         /\ t = IF u.active = NoSegment THEN Opened(u) ELSE u
<1> DEFINE u == BeforeOpening(s)  t == ReadyToAppend(s)
<1>1. StoreOK(u) BY EverythingKept, CloseIs DEF BeforeOpening
<1>2. t = OpenActive(u) BY DEF ReadyToAppend, BeforeOpening
<1> HIDE DEF u, t
<1>3. t = IF u.active = NoSegment THEN Opened(u) ELSE u BY <1>2 DEF OpenActive, Opened
<1>4. CASE u.active = NoSegment
  <2>1. t = Opened(u) BY <1>3, <1>4
  <2>2. StoreOK(t) /\ t.active \in Ids(t) BY <1>1, <1>4, <2>1, OpenedIs
  <2> QED BY <1>1, <1>3, <2>2, IdsAreNat DEF u, t
<1>5. CASE u.active # NoSegment BY <1>1, <1>3, <1>5 DEF StoreOK, u, t
<1> QED BY <1>4, <1>5

(* When append opens a segment, nothing of it is flushed. *)
LEMMA ReadyFlushed ==
  ASSUME NEW s, StoreOK(s), s.active = NoSegment \/ NeedsRoll(s)
  PROVE  BeforeOpening(s).active = NoSegment /\ ReadyToAppend(s).flushed = 0
<1> DEFINE u == BeforeOpening(s)  t == ReadyToAppend(s)
<1>1. StoreOK(u) /\ u.active = NoSegment BY EverythingKept, CloseIs DEF BeforeOpening, NeedsRoll
<1>2. t = IF u.active = NoSegment THEN Opened(u) ELSE u BY ReadyIs
<1> HIDE DEF u, t
<1>3. t.flushed = 0 BY <1>1, <1>2, OpenedIs
<1> QED BY <1>1, <1>3 DEF u, t

LEMMA AppendedIs ==
  ASSUME NEW r, StoreOK(r), r.active # NoSegment, NEW j \in Jobs
  PROVE  LET t == Appended(r, j) IN
         /\ StoreOK(t) /\ t.active = r.active /\ t.nextId = r.nextId /\ t.flushed = r.flushed
         /\ t.committed = r.committed /\ t.deletes = r.deletes /\ Ids(t) = Ids(r)
         /\ \A id \in Ids(r) \ {r.active} : t.files[id] = r.files[id]
         /\ Length(t, t.active) = Length(r, r.active) + 1
         /\ t.files[r.active][Length(r, r.active) + 1] = j
         /\ \A k \in 1 .. Length(r, r.active) : t.files[r.active][k] = r.files[r.active][k]
<1> DEFINE t == Appended(r, j)  old == r.files[r.active]
           F == [r.files EXCEPT ![r.active] = Append(@, j)]
<1>1. /\ r = [files |-> r.files, active |-> r.active, flushed |-> r.flushed, nextId |-> r.nextId,
              deletes |-> r.deletes, start |-> r.start, committed |-> r.committed]
      /\ r.files \in [Ids(r) -> Seq(Jobs)] /\ r.active \in Ids(r)
      /\ r.nextId \in Nat \ {0} /\ Ids(r) \subseteq 1 .. r.nextId - 1
      /\ r.deletes \subseteq Ids(r) \ {r.active} /\ r.start \in Positions /\ r.committed \in Positions
      /\ r.flushed \in 0 .. Length(r, r.active)
  BY DEF StoreOK
<1>2. old \in Seq(Jobs) /\ Len(old) \in Nat /\ Length(r, r.active) = Len(old)
  BY <1>1, LenProperties DEF Length
<1>3. /\ F \in [Ids(r) -> Seq(Jobs)] /\ F[r.active] = Append(old, j)
      /\ \A id \in Ids(r) \ {r.active} : F[id] = r.files[id]
  <2>1. Append(old, j) \in Seq(Jobs) BY <1>2
  <2> HIDE DEF old
  <2>2. F = [r.files EXCEPT ![r.active] = Append(old, j)] BY <1>1 DEF old
  <2> HIDE DEF F
  <2> QED BY <1>1, <2>1, <2>2
<1>4. t = [files |-> F, active |-> r.active, flushed |-> r.flushed, nextId |-> r.nextId,
           deletes |-> r.deletes, start |-> r.start, committed |-> r.committed]
  <2>1. t = [r EXCEPT !.files = F] BY DEF Appended
  <2> HIDE DEF F, t
  <2> QED BY <1>1, <2>1
<1> HIDE DEF F, t, old
<1>5. /\ t.files = F /\ t.active = r.active /\ t.flushed = r.flushed /\ t.nextId = r.nextId
      /\ t.deletes = r.deletes /\ t.start = r.start /\ t.committed = r.committed
      /\ t = [files |-> t.files, active |-> t.active, flushed |-> t.flushed, nextId |-> t.nextId,
              deletes |-> t.deletes, start |-> t.start, committed |-> t.committed]
  BY <1>4
<1>6. Ids(t) = Ids(r)
  <2>1. DOMAIN F = Ids(r) BY <1>3
  <2> QED BY <1>5, <2>1 DEF Ids
<1>7. /\ Len(Append(old, j)) = Len(old) + 1 /\ Append(old, j)[Len(old) + 1] = j
      /\ \A k \in 1 .. Len(old) : Append(old, j)[k] = old[k]
  BY <1>2, AppendProperties
<1>8. Length(t, t.active) = Length(r, r.active) + 1 BY <1>1, <1>2, <1>3, <1>5, <1>6, <1>7 DEF Length
<1>9. StoreOK(t)
  <2>1. t.flushed \in 0 .. Length(t, t.active) BY <1>1, <1>2, <1>5, <1>8
  <2> QED BY <1>1, <1>3, <1>5, <1>6, <2>1 DEF StoreOK
<1> QED BY <1>2, <1>3, <1>5, <1>6, <1>7, <1>8, <1>9 DEF t, old

LEMMA AppendIs ==
  ASSUME NEW s, StoreOK(s), NEW j \in Jobs
  PROVE  AppendRecord(s, j) = Appended(ReadyToAppend(s), j) /\ StoreOK(AppendRecord(s, j))
<1>1. AppendRecord(s, j) = Appended(ReadyToAppend(s), j) BY DEF AppendRecord, Appended
<1>2. StoreOK(ReadyToAppend(s)) /\ ReadyToAppend(s).active # NoSegment BY ReadyIs
<1>3. StoreOK(Appended(ReadyToAppend(s), j)) BY <1>2, AppendedIs
<1> QED BY <1>1, <1>3

LEMMA DeleteIs ==
  ASSUME NEW s, StoreOK(s), NEW ids \in SUBSET Ids(s), NEW failed
  PROVE  Deleted(s, Delete(s, ids, failed), ids, failed)
<1> DEFINE t == Delete(s, ids, failed)  gone == (ids \ {s.active}) \ failed
           F == [id \in Ids(s) \ gone |-> s.files[id]]
           d == (s.deletes \ gone) \cup ((ids \ {s.active}) \cap failed)
<1>1. /\ s = [files |-> s.files, active |-> s.active, flushed |-> s.flushed, nextId |-> s.nextId,
              deletes |-> s.deletes, start |-> s.start, committed |-> s.committed]
      /\ s.files \in [Ids(s) -> Seq(Jobs)] /\ s.active \in Ids(s) \cup {NoSegment}
      /\ s.nextId \in Nat \ {0} /\ Ids(s) \subseteq 1 .. s.nextId - 1
      /\ s.deletes \subseteq Ids(s) \ {s.active} /\ s.start \in Positions /\ s.committed \in Positions
      /\ s.flushed \in 0 .. Length(s, s.active)
  BY DEF StoreOK
<1>2. t = [files |-> F, active |-> s.active, flushed |-> s.flushed, nextId |-> s.nextId,
           deletes |-> d, start |-> s.start, committed |-> s.committed]
  <2>1. t = [s EXCEPT !.files = F, !.deletes = d] BY DEF Delete
  <2> HIDE DEF F, t, d
  <2> QED BY <1>1, <2>1
<1>3. F \in [Ids(s) \ gone -> Seq(Jobs)] /\ \A id \in Ids(s) \ gone : F[id] = s.files[id] BY <1>1
<1>4. d \subseteq (Ids(s) \ gone) \ {s.active} /\ d \subseteq (s.deletes \ gone) \cup (ids \ {s.active})
  BY <1>1
<1>5. s.active \notin gone OBVIOUS
<1> HIDE DEF F, t, d
<1>6. /\ t.files = F /\ t.active = s.active /\ t.flushed = s.flushed /\ t.nextId = s.nextId
      /\ t.deletes = d /\ t.start = s.start /\ t.committed = s.committed
      /\ t = [files |-> t.files, active |-> t.active, flushed |-> t.flushed, nextId |-> t.nextId,
              deletes |-> t.deletes, start |-> t.start, committed |-> t.committed]
  BY <1>2
<1>7. Ids(t) = Ids(s) \ gone
  <2>1. DOMAIN F = Ids(s) \ gone BY <1>3
  <2> QED BY <1>6, <2>1 DEF Ids
<1> HIDE DEF gone
<1>8. Length(t, t.active) = Length(s, s.active) BY <1>3, <1>5, <1>6, <1>7 DEF Length
<1>9. StoreOK(t) BY <1>1, <1>3, <1>4, <1>5, <1>6, <1>7, <1>8 DEF StoreOK
<1> QED BY <1>3, <1>4, <1>6, <1>7, <1>9 DEF t, gone, Deleted

LEMMA ReleaseIs ==
  ASSUME NEW s, StoreOK(s), NEW c \in Positions, NEW failed
  PROVE  LET u == IF FullyRead(s, c) THEN CloseActive(s, s.flushed) ELSE s IN
         /\ StoreOK(u) /\ Ids(u) = Ids(s) /\ Consumed(s, c) \subseteq Ids(u)
         /\ ReleaseConsumed(s, c, failed) = Delete(u, Consumed(s, c), failed)
         /\ StoreOK(ReleaseConsumed(s, c, failed))
<1> DEFINE u == IF FullyRead(s, c) THEN CloseActive(s, s.flushed) ELSE s
<1>1. StoreOK(u) /\ Ids(u) = Ids(s)
  <2>1. CASE FullyRead(s, c)
    <3>1. StoreOK(CloseActive(s, s.flushed)) /\ Cut(s, CloseActive(s, s.flushed), s.flushed)
      BY <2>1, EverythingKept, CloseIs DEF FullyRead
    <3> QED BY <2>1, <3>1 DEF Cut
  <2> QED BY <2>1
<1>2. Consumed(s, c) \subseteq Ids(s) BY DEF Consumed, FullyRead, StoreOK
<1>3. ReleaseConsumed(s, c, failed) = Delete(u, Consumed(s, c), failed) BY DEF ReleaseConsumed
<1> HIDE DEF u
<1>4. StoreOK(Delete(u, Consumed(s, c), failed)) BY <1>1, <1>2, DeleteIs DEF Deleted
<1> QED BY <1>1, <1>2, <1>3, <1>4 DEF u

LEMMA PurgeIs ==
  ASSUME NEW s, StoreOK(s), NEW p \in Positions, NEW failed
  PROVE  LET u == Delete(s, Older(s, p), failed)  t == PurgeBefore(s, p, failed) IN
         /\ StoreOK(u) /\ Older(s, p) \subseteq Ids(s) /\ StoreOK(t)
         /\ t.files = u.files /\ t.active = u.active /\ t.nextId = u.nextId
         /\ t.flushed = u.flushed /\ t.deletes = u.deletes /\ t.committed = Later(u.committed, p)
<1> DEFINE u == Delete(s, Older(s, p), failed)  t == PurgeBefore(s, p, failed)
<1>1. Older(s, p) \subseteq Ids(s) BY DEF Older
<1>2. StoreOK(u) BY <1>1, DeleteIs DEF Deleted
<1>3. t = [u EXCEPT !.start = Later(u.start, p), !.committed = Later(u.committed, p)]
  BY DEF PurgeBefore
<1> HIDE DEF u, t
<1>4. /\ u = [files |-> u.files, active |-> u.active, flushed |-> u.flushed, nextId |-> u.nextId,
              deletes |-> u.deletes, start |-> u.start, committed |-> u.committed]
      /\ u.start \in Positions /\ u.committed \in Positions
  BY <1>2 DEF StoreOK
<1> DEFINE a == Later(u.start, p)  b == Later(u.committed, p)
<1>5. a \in Positions /\ b \in Positions BY <1>4, LaterIs
<1> HIDE DEF a, b
<1>6. t = [u EXCEPT !.start = a, !.committed = b] BY <1>3 DEF a, b
<1>7. t = [files |-> u.files, active |-> u.active, flushed |-> u.flushed, nextId |-> u.nextId,
           deletes |-> u.deletes, start |-> a, committed |-> b]
  BY <1>4, <1>6
<1>8. /\ t.files = u.files /\ t.active = u.active /\ t.flushed = u.flushed /\ t.nextId = u.nextId
      /\ t.deletes = u.deletes /\ t.start = a /\ t.committed = b
  BY <1>7
<1>9. Ids(t) = Ids(u) /\ Length(t, t.active) = Length(u, u.active) BY <1>8 DEF Ids, Length
<1>10. StoreOK(t) BY <1>2, <1>5, <1>7, <1>8, <1>9 DEF StoreOK
<1> QED BY <1>1, <1>2, <1>8, <1>10 DEF u, t, b

LEMMA OpenStoreIs ==
  ASSUME NEW D, NEW n \in Nat, D \subseteq 1 .. n, NEW files \in [D -> Seq(Jobs)]
  PROVE  LET t == OpenStore(files) IN
         /\ StoreOK(t) /\ t.files = files /\ t.active = NoSegment /\ t.deletes = {}
         /\ D = {} => t.start = Pos(1, 0) /\ t.committed = Pos(1, 0)
         /\ D # {} => /\ t.start = Pos(Min(D), 0) /\ t.nextId = Max(D) + 1
                      /\ t.committed = Pos(Max(D), Len(files[Max(D)]))
<1> DEFINE t == OpenStore(files)
<1>1. DOMAIN files = D OBVIOUS
<1>2. CASE D = {}
  <2>1. t = [files |-> files, active |-> NoSegment, flushed |-> 0, nextId |-> 1, deletes |-> {},
             start |-> Pos(1, 0), committed |-> Pos(1, 0)]
    BY <1>1, <1>2 DEF OpenStore
  <2> HIDE DEF t
  <2>2. Ids(t) = {} BY <1>1, <1>2, <2>1 DEF Ids
  <2>3. Length(t, t.active) = 0 BY <2>2 DEF Length
  <2>4. /\ t.files = files /\ t.active = NoSegment /\ t.flushed = 0 /\ t.nextId = 1 /\ t.deletes = {}
        /\ t.start = Pos(1, 0) /\ t.committed = Pos(1, 0)
        /\ t = [files |-> t.files, active |-> t.active, flushed |-> t.flushed, nextId |-> t.nextId,
                deletes |-> t.deletes, start |-> t.start, committed |-> t.committed]
    BY <2>1
  <2>5. StoreOK(t) BY <1>1, <1>2, <2>2, <2>3, <2>4, PosIs DEF StoreOK
  <2> QED BY <1>2, <2>4, <2>5 DEF t
<1>3. CASE D # {}
  <2> DEFINE hi == Max(D)  lo == Min(D)  k == Len(files[hi])
  <2>1. D \subseteq Nat /\ \A i \in D : i <= n OBVIOUS
  <2>2. hi \in D /\ \A i \in D : i <= hi BY <1>3, <2>1, MaxIs
  <2>3. lo \in D BY <1>3, <2>1, MinIs
  <2> HIDE DEF hi, lo
  <2>4. hi \in Nat \ {0} /\ lo \in Nat /\ k \in Nat BY <2>2, <2>3, LenProperties
  <2>5. t = [files |-> files, active |-> NoSegment, flushed |-> 0, nextId |-> hi + 1, deletes |-> {},
             start |-> Pos(lo, 0), committed |-> Pos(hi, k)]
    BY <1>1, <1>3 DEF OpenStore, hi, lo
  <2> HIDE DEF t, k
  <2>6. /\ t.files = files /\ t.active = NoSegment /\ t.flushed = 0 /\ t.nextId = hi + 1 /\ t.deletes = {}
        /\ t.start = Pos(lo, 0) /\ t.committed = Pos(hi, k)
        /\ t = [files |-> t.files, active |-> t.active, flushed |-> t.flushed, nextId |-> t.nextId,
                deletes |-> t.deletes, start |-> t.start, committed |-> t.committed]
    BY <2>5
  <2>7. Ids(t) = D BY <1>1, <2>6 DEF Ids
  <2>8. Length(t, t.active) = 0 BY <2>6, <2>7 DEF Length, NoSegment
  <2>9. StoreOK(t)
    <3>1. t.start \in Positions /\ t.committed \in Positions BY <2>4, <2>6, PosIs
    <3>2. t.nextId \in Nat \ {0} /\ Ids(t) \subseteq 1 .. t.nextId - 1 BY <2>1, <2>2, <2>4, <2>6, <2>7
    <3> QED BY <2>6, <2>7, <2>8, <3>1, <3>2 DEF StoreOK
  <2> QED BY <1>3, <2>6, <2>9 DEF t, hi, lo, k
<1> QED BY <1>2, <1>3

--------------------
(* Type correctness, whatever fails. *)
LEMMA OrderOps ==
  ASSUME NEW o \in OrderStates, NEW m \in Nat, NEW n \in Nat, NEW p \in Positions, NEW b \in BOOLEAN
  PROVE  /\ ReleaseMemory(o, n) \in OrderStates /\ FinishHandoff(o, m, n) \in OrderStates
         /\ SetBlocked(o, b) \in OrderStates /\ SetCommitted(o, p) \in OrderStates
         /\ SetConsumed(o, p) \in OrderStates /\ TryResumeMemory(o) \in OrderStates
         /\ Route(o, n) \in OrderStates
<1>1. Minus(o.memoryBytes, n) \in Nat /\ Minus(o.handoffBytes, n) \in Nat /\ Minus(o.handoffJobs, m) \in Nat
  BY DEF Minus, OrderStates
<1>2. Later(o.committed, p) \in Positions /\ Later(o.consumed, p) \in Positions
  BY LaterIs DEF OrderStates
<1>3. ReleaseMemory(o, n) \in OrderStates /\ FinishHandoff(o, m, n) \in OrderStates
  BY <1>1 DEF ReleaseMemory, FinishHandoff, OrderStates
<1>4. /\ SetBlocked(o, b) \in OrderStates /\ SetCommitted(o, p) \in OrderStates
      /\ SetConsumed(o, p) \in OrderStates /\ TryResumeMemory(o) \in OrderStates
  BY <1>2 DEF SetBlocked, SetCommitted, SetConsumed, TryResumeMemory, OrderStates
<1>5. Route(o, n) \in OrderStates
  <2>a. o.memoryBytes + n \in Nat /\ o.handoffBytes + n \in Nat /\ o.handoffJobs + 1 \in Nat
    BY DEF OrderStates
  <2> DEFINE x == o.memoryBytes + n  y == o.handoffBytes + n  z == o.handoffJobs + 1
             spills == o.spilling \/ ~o.blocked
  <2>b. x \in Nat /\ y \in Nat /\ z \in Nat /\ spills \in BOOLEAN BY <2>a
  <2> HIDE DEF x, y, z, spills
  <2>c. [o EXCEPT !.memoryBytes = x] \in OrderStates BY <2>b DEF OrderStates
  <2>d. [o EXCEPT !.spilling = spills] \in OrderStates BY <2>b DEF OrderStates
  <2>e. [o EXCEPT !.spilling = TRUE, !.handoffBytes = y, !.handoffJobs = z] \in OrderStates
    BY <2>b DEF OrderStates
  <2>1. /\ [o EXCEPT !.memoryBytes = @ + n] \in OrderStates
        /\ [o EXCEPT !.spilling = o.spilling \/ ~o.blocked] \in OrderStates
        /\ [o EXCEPT !.spilling = TRUE, !.handoffBytes = @ + n, !.handoffJobs = @ + 1] \in OrderStates
    BY <2>c, <2>d, <2>e DEF x, y, z, spills
  <2>2. Destination(o, n) \in {"memory", "drop", "spill"} BY DEF Destination
  <2>3. CASE Destination(o, n) = "memory" BY <2>1, <2>3 DEF Route
  <2>4. CASE Destination(o, n) = "drop" BY <2>1, <2>4 DEF Route
  <2>5. CASE Destination(o, n) = "spill" BY <2>1, <2>5 DEF Route
  <2> QED BY <2>2, <2>3, <2>4, <2>5
<1> QED BY <1>3, <1>4, <1>5

LEMMA NewOrderTyped ==
  ASSUME NEW p \in Positions, NEW q \in Positions, NEW b \in BOOLEAN
  PROVE  NewOrder(p, q) \in OrderStates /\ SetBlocked(NewOrder(p, q), b) \in OrderStates
<1> DEFINE x == Before(p, q)
<1>1. x \in BOOLEAN BY DEF Before
<1> HIDE DEF x
<1>2. [spilling |-> x, blocked |-> FALSE, memoryBytes |-> 0, handoffBytes |-> 0, handoffJobs |-> 0,
       committed |-> q, consumed |-> p] \in OrderStates
  BY <1>1 DEF OrderStates
<1>3. NewOrder(p, q) \in OrderStates BY <1>2 DEF NewOrder, x
<1> HIDE DEF x
<1>4. SetBlocked(NewOrder(p, q), b) \in OrderStates BY <1>3 DEF SetBlocked, OrderStates
<1> QED BY <1>3, <1>4

LEMMA SettleTyped ==
  ASSUME Types, NEW S, NEW outcome \in Fates
  PROVE  Settle(S, outcome) \in [Jobs -> Fates]
BY DEF Types, Settle

LEMMA EntriesIs ==
  ASSUME NEW u \in Seq(Entries)
  PROVE  /\ JobsOf(u) \in Seq(Jobs) /\ Len(JobsOf(u)) = Len(u) /\ Bytes(JobsOf(u)) \in Nat
         /\ \A i \in 1 .. Len(u) : JobsOf(u)[i] = u[i].job /\ u[i] \in Entries
<1>1. \A x \in Entries : x.job \in Jobs BY DEF Entries
<1>2. /\ JobsOf(u) \in Seq(Jobs) /\ Len(JobsOf(u)) = Len(u)
      /\ \A i \in 1 .. Len(u) : JobsOf(u)[i] = u[i].job
  BY <1>1, JobsOfIs
<1> QED BY <1>2, BytesNat, ElementOfSeq

LEMMA PublishedTyped ==
  ASSUME NEW o \in OrderStates, NEW s, StoreOK(s), NEW u \in Seq(Entries)
  PROVE  Published(o, s, u) \in OrderStates
<1>1. Len(u) \in Nat /\ Bytes(JobsOf(u)) \in Nat /\ s.committed \in Positions
  BY EntriesIs, LenProperties DEF StoreOK
<1>2. FinishHandoff(o, Len(u), Bytes(JobsOf(u))) \in OrderStates BY <1>1, OrderOps
<1>3. SetCommitted(FinishHandoff(o, Len(u), Bytes(JobsOf(u))), s.committed) \in OrderStates
  BY <1>1, <1>2, OrderOps
<1> QED BY <1>3 DEF Published, JobsOf

LEMMA NoneIs == None \in Positions /\ None.segment = 0 /\ None.offset = 1
BY DEF None, Positions

LEMMA IdleSpillTyped ==
  /\ IdleSpill \in SpillStates
  /\ IdleSpill.pc = "idle" /\ IdleSpill.hand = <<>> /\ IdleSpill.unflushed = <<>>
<1>1. <<>> \in Seq(Jobs) /\ <<>> \in Seq(Entries) OBVIOUS
<1> QED BY <1>1, NoneIs DEF IdleSpill, SpillStates

LEMMA IdleWriterTyped ==
  ASSUME NEW c \in Positions, NEW n \in Nat
  PROVE  /\ IdleWriter(c, n) \in WriterStates
         /\ IdleWriter(c, n).pc = "idle" /\ IdleWriter(c, n).batch = <<>>
         /\ IdleWriter(c, n).taken = <<>>
<1>1. <<>> \in Seq(Jobs) OBVIOUS
<1> QED BY <1>1, NoneIs DEF IdleWriter, WriterStates

LEMMA CursorTyped ==
  ASSUME Types
  PROVE  Cursor \in Positions /\ Seen \in Nat
<1>1. order.consumed \in Positions /\ readStart \in Positions /\ writer.cursor \in Positions /\ writer.seen \in Nat
      /\ purgeSeq \in Nat
  BY DEF Types, OrderStates, WriterTyped, WriterStates
<1> QED BY <1>1, LaterIs DEF Cursor, Seen

LEMMA InitTyped ==
  ASSUME Init PROVE Types
<1>1. <<>> \in [{} -> Seq(Jobs)] /\ {} \subseteq 1 .. 0 /\ 0 \in Nat BY SMT
<1>2. StoreOK(store) BY <1>1, OpenStoreIs DEF Init
<1>3. order \in OrderStates
  <2>1. Pos(1, 0) \in Positions BY PosIs
  <2> QED BY <2>1, NewOrderTyped, OrderOps DEF Init
<1>4. SpillTyped BY IdleSpillTyped DEF Init, SpillTyped
<1>5. WriterTyped
  <2>1. Pos(1, 0) \in Positions BY PosIs
  <2> QED BY <2>1, IdleWriterTyped DEF Init, WriterTyped
<1>6. memory \in Seq(Jobs) /\ handoff \in Seq(Jobs) /\ held \in Seq(Jobs) BY DEF Init
<1>7. /\ boundary \in [Clears -> Positions]
      /\ threshold \in [Clears -> Nat \cup {Unresolved, NotRunning}]
      /\ releaseUpto \in Positions /\ readStart \in Positions
      /\ inFlight \in [start : Positions, next : Positions, panics : {0, 1}]
  BY NoneIs, PosIs DEF Init
<1>8. /\ clear \in [Clears -> {"idle", "begun", "committed", "done", "failed", "aborted"}]
      /\ cap \in [Jobs -> [gen : Nat \cup {Unresolved}, begun : Nat, clean : BOOLEAN, boot : Nat]]
      /\ fate \in [Jobs -> Fates]
  BY DEF Init, Fates
<1>9. /\ rolls \subseteq Clears /\ purges \subseteq Clears /\ purgeSeq \in Nat
      /\ generation \in Nat /\ mirror \in Nat \cup {Unresolved}
      /\ begun \in Nat /\ captured \in Nat /\ boot \in Nat
  BY DEF Init
<1>10. readerBusy \in BOOLEAN BY DEF Init
<1>11. writerAlive \in BOOLEAN /\ spillRunning \in BOOLEAN BY Zenon DEF Init
<1> QED BY <1>2, <1>3, <1>4, <1>5, <1>6, <1>7, <1>8, <1>9, <1>10, <1>11 DEF Types

LEMMA SubmitTyped ==
  ASSUME Types, Submit PROVE Types'
<1> DEFINE j == captured + 1
<1>1. captured \in Nat /\ captured < MaxJobs /\ MaxJobs \in Nat BY QueueAssumption DEF Types, Submit
<1>2. j \in Jobs /\ j \in Nat BY <1>1 DEF Jobs
<1> DEFINE to == IF writerAlive THEN Destination(order, Size[j]) ELSE "drop"
           clean == Running = {}
           c == [gen |-> mirror, begun |-> begun, clean |-> clean, boot |-> boot]
<1>3. /\ captured' = j /\ cap' = [cap EXCEPT ![j] = c]
      /\ order' = (IF writerAlive THEN Route(order, Size[j]) ELSE order)
      /\ memory' = (IF to = "memory" THEN Append(memory, j) ELSE memory)
      /\ handoff' = (IF to = "spill" THEN Append(handoff, j) ELSE handoff)
      /\ fate' = [fate EXCEPT ![j] = IF to = "drop" THEN "dropped" ELSE "pending"]
  BY DEF Submit
<1>4. c \in [gen : Nat \cup {Unresolved}, begun : Nat, clean : BOOLEAN, boot : Nat]
  <2>1. clean \in BOOLEAN OBVIOUS
  <2> HIDE DEF clean
  <2> QED BY <2>1 DEF Types
<1> HIDE DEF j, to, c
<1>5. order' \in OrderStates BY <1>2, <1>3, SizesAreNat, OrderOps, NoneIs DEF Types
<1>6. memory' \in Seq(Jobs) /\ handoff' \in Seq(Jobs) BY <1>2, <1>3 DEF Types
<1>7. cap' \in [Jobs -> [gen : Nat \cup {Unresolved}, begun : Nat, clean : BOOLEAN, boot : Nat]]
  BY <1>3, <1>4 DEF Types
<1>8. fate' \in [Jobs -> Fates] BY <1>3 DEF Types, Fates
<1>9. SpillTyped' /\ WriterTyped' BY DEF Types, Submit, SpillTyped, WriterTyped, readVars, spillVars
<1> QED BY <1>2, <1>3, <1>5, <1>6, <1>7, <1>8, <1>9
        DEF Types, Submit, clearReqVars, readVars, spillVars, clearVars, fixedVars

(* What the order operations change, and a finishing clear. *)
LEMMA ReleaseMemoryIs ==
  ASSUME NEW o \in OrderStates, NEW n \in Nat
  PROVE  LET q == ReleaseMemory(o, n) IN
         /\ q.memoryBytes = Minus(o.memoryBytes, n) /\ q.handoffBytes = o.handoffBytes
         /\ q.handoffJobs = o.handoffJobs /\ q.spilling = o.spilling
         /\ q.committed = o.committed /\ q.consumed = o.consumed
BY DEF ReleaseMemory, OrderStates

LEMMA FinishHandoffIs ==
  ASSUME NEW o \in OrderStates, NEW m \in Nat, NEW n \in Nat
  PROVE  LET q == FinishHandoff(o, m, n) IN
         /\ q.memoryBytes = o.memoryBytes /\ q.handoffBytes = Minus(o.handoffBytes, n)
         /\ q.handoffJobs = Minus(o.handoffJobs, m) /\ q.spilling = o.spilling
         /\ q.committed = o.committed /\ q.consumed = o.consumed
BY DEF FinishHandoff, OrderStates

LEMMA ResumeIs ==
  ASSUME NEW o \in OrderStates
  PROVE  LET q == TryResumeMemory(o) IN
         /\ q.memoryBytes = o.memoryBytes /\ q.handoffBytes = o.handoffBytes
         /\ q.handoffJobs = o.handoffJobs
         /\ q.committed = o.committed /\ q.consumed = o.consumed
         /\ ~q.spilling => ~o.spilling \/ (o.handoffJobs = 0 /\ ~Before(o.consumed, o.committed))
         /\ q.spilling => o.spilling
BY DEF TryResumeMemory, MayResume, HasDiskBacklog, OrderStates

LEMMA TryResumes ==
  ASSUME NEW o \in OrderStates, NEW q \in OrderStates, q.spilling = o.spilling,
         q.handoffJobs <= o.handoffJobs
  PROVE  Resumes(o, q) /\ Resumes(o, TryResumeMemory(q))
<1> DEFINE n == TryResumeMemory(q)
<1>1. /\ n.handoffJobs = q.handoffJobs /\ n.committed = q.committed /\ n.consumed = q.consumed
      /\ ~n.spilling => ~q.spilling \/ (q.handoffJobs = 0 /\ ~Before(q.consumed, q.committed))
  BY ResumeIs
<1> HIDE DEF n
<1>2. Resumes(o, n) BY <1>1 DEF Resumes
<1>3. Resumes(o, q) BY DEF Resumes
<1> QED BY <1>2, <1>3 DEF n

(* FinishClear: the stale jobs gone and out leave, with the held ones when *)
(* no other clear runs, and order ends their accounting.                   *)
LEMMA FinishIs ==
  ASSUME Types, NEW c, NEW read, FinishClear(c, read)
  PROVE  \E fresh, gone, stale, let, out : Finished(fresh, gone, stale, let, out)
<1> DEFINE raised == IF read > mirror THEN read ELSE mirror
           fresh == {j \in Jobs : Fresh(j, IF read = Unresolved THEN raised ELSE read)}
           gone == Among(memory, Jobs \ fresh)
           stale == Among(handoff, Jobs \ fresh)
           let == IF Running = {c} THEN held ELSE <<>>
           out == stale \o let
           m == Len(out)
           n == Bytes(out)
           a == ReleaseMemory(order, Bytes(gone))
           b == FinishHandoff(a, m, n)
<1>1. /\ memory' = Among(memory, fresh) /\ handoff' = Among(handoff, fresh)
      /\ held' = (IF Running = {c} THEN <<>> ELSE held) /\ order' = TryResumeMemory(b)
      /\ fate' = Settle(ToSet(gone) \cup ToSet(out), "discarded")
  BY DEF FinishClear
<1>2. /\ memory \in Seq(Jobs) /\ handoff \in Seq(Jobs) /\ let \in Seq(Jobs) /\ order \in OrderStates
      /\ order.handoffJobs \in Nat /\ fresh \in SUBSET Jobs
  BY DEF Types, OrderStates
<1>3. (let = held /\ held' = <<>>) \/ (let = <<>> /\ held' = held) BY <1>1
<1> HIDE DEF fresh, let
<1>4. /\ gone \in Seq(Jobs) /\ stale \in Seq(Jobs) /\ memory' \in Seq(Jobs) /\ handoff' \in Seq(Jobs)
  BY <1>1, <1>2, AmongTyped
<1>5. out \in Seq(Jobs) BY <1>2, <1>4, ConcatProperties
<1> HIDE DEF gone, stale, out
<1>6. m \in Nat /\ n \in Nat /\ Bytes(gone) \in Nat BY <1>4, <1>5, BytesNat, LenProperties
<1> HIDE DEF m, n
<1>7. /\ a \in OrderStates /\ a.memoryBytes = Minus(order.memoryBytes, Bytes(gone))
      /\ a.handoffBytes = order.handoffBytes /\ a.handoffJobs = order.handoffJobs
      /\ a.spilling = order.spilling /\ a.committed = order.committed /\ a.consumed = order.consumed
  BY <1>2, <1>6, NoneIs, OrderOps, ReleaseMemoryIs
<1> HIDE DEF a
<1>8. /\ b \in OrderStates /\ b.memoryBytes = a.memoryBytes
      /\ b.handoffBytes = Minus(a.handoffBytes, n) /\ b.handoffJobs = Minus(a.handoffJobs, m)
      /\ b.spilling = a.spilling /\ b.committed = a.committed /\ b.consumed = a.consumed
  BY <1>6, <1>7, NoneIs, OrderOps, FinishHandoffIs
<1> HIDE DEF b
<1>9. b.handoffJobs <= order.handoffJobs BY <1>2, <1>6, <1>7, <1>8 DEF Minus
<1>10. Resumes(order, order') BY <1>1, <1>2, <1>7, <1>8, <1>9, TryResumes
<1>11. /\ order' \in OrderStates /\ order'.memoryBytes = Minus(order.memoryBytes, Bytes(gone))
       /\ order'.handoffBytes = Minus(order.handoffBytes, n)
       /\ order'.handoffJobs = Minus(order.handoffJobs, m)
       /\ order'.committed = order.committed /\ order'.consumed = order.consumed
  BY <1>1, <1>7, <1>8, NoneIs, OrderOps, ResumeIs
<1>12. Finished(fresh, gone, stale, let, out)
  BY <1>1, <1>2, <1>3, <1>4, <1>5, <1>10, <1>11 DEF Finished, gone, stale, out, m, n
<1> QED BY <1>12

LEMMA ClearTyped ==
  ASSUME Types, ClearStep PROVE Types'
<1>1. CASE BeginClear
  <2> DEFINE c == begun + 1
  <2>1. c \in Clears /\ c \in Nat BY <1>1, QueueAssumption DEF Types, BeginClear, Clears
  <2>2. /\ clear' = [clear EXCEPT ![c] = "begun"] /\ begun' = c
        /\ threshold' = [threshold EXCEPT ![c] = mirror]
        /\ rolls' = IF spillRunning THEN rolls \cup {c} ELSE rolls
    BY <1>1 DEF BeginClear
  <2> HIDE DEF c
  <2>3. /\ clear' \in [Clears -> {"idle", "begun", "committed", "done", "failed", "aborted"}]
        /\ threshold' \in [Clears -> Nat \cup {Unresolved, NotRunning}]
        /\ rolls' \subseteq Clears /\ begun' \in Nat
    BY <2>1, <2>2 DEF Types
  <2> QED BY <1>1, <2>3 DEF Types, BeginClear, SpillTyped, WriterTyped, queueVars, readVars,
                            spillVars, jobVars, fixedVars
<1>2. ASSUME NEW c \in Clears, CommitClear(c) PROVE Types'
  <2>1. /\ clear' \in [Clears -> {"idle", "begun", "committed", "done", "failed", "aborted"}]
        /\ generation' \in Nat
    BY <1>2 DEF Types, CommitClear
  <2> QED BY <1>2, <2>1 DEF Types, CommitClear, SpillTyped, WriterTyped, queueVars, clearReqVars,
                            readVars, spillVars, jobVars, fixedVars
<1>3. ASSUME NEW c \in Clears, AbandonClear(c) PROVE Types'
  <2>1. /\ clear' \in [Clears -> {"idle", "begun", "committed", "done", "failed", "aborted"}]
        /\ rolls' \subseteq Clears
        /\ boundary' \in [Clears -> Positions]
        /\ threshold' \in [Clears -> Nat \cup {Unresolved, NotRunning}]
    BY <1>3, NoneIs DEF Types, AbandonClear
  <2>2. handoff' \in Seq(Jobs) /\ held' \in Seq(Jobs)
    BY <1>3, ConcatProperties DEF Types, AbandonClear, Requeue
  <2> QED BY <1>3, <2>1, <2>2 DEF Types, AbandonClear, SpillTyped, WriterTyped, readVars,
                                  spillVars, jobVars, fixedVars
<1>4. ASSUME NEW c \in Clears, NEW read \in Nat \cup {Unresolved}, FinishClear(c, read) PROVE Types'
  <2> DEFINE raised == IF read > mirror THEN read ELSE mirror
  <2>1. /\ clear' = [clear EXCEPT ![c] = "done"] /\ mirror' = raised
        /\ threshold' = [threshold EXCEPT ![c] = NotRunning] /\ rolls' = rolls \ {c}
        /\ purges' = (IF spillRunning THEN purges \cup {c} ELSE purges) /\ purgeSeq' = purgeSeq + 1
    BY <1>4 DEF FinishClear
  <2>2. raised \in Nat \cup {Unresolved} BY DEF Types
  <2>3. PICK fresh, gone, stale, let, out : Finished(fresh, gone, stale, let, out) BY <1>4, FinishIs
  <2>4. memory' \in Seq(Jobs) /\ handoff' \in Seq(Jobs) /\ held' \in Seq(Jobs) /\ order' \in OrderStates
    <3>1. held \in Seq(Jobs) /\ <<>> \in Seq(Jobs) BY DEF Types
    <3> QED BY <2>3, <3>1 DEF Finished
  <2>5. fate' \in [Jobs -> Fates] BY <2>3, SettleTyped DEF Finished, Fates
  <2> HIDE DEF raised
  <2>6. /\ clear' \in [Clears -> {"idle", "begun", "committed", "done", "failed", "aborted"}]
        /\ threshold' \in [Clears -> Nat \cup {Unresolved, NotRunning}]
        /\ rolls' \subseteq Clears /\ purges' \subseteq Clears /\ purgeSeq' \in Nat
    BY <2>1 DEF Types
  <2> QED BY <1>4, <2>1, <2>2, <2>4, <2>5, <2>6
          DEF Types, FinishClear, SpillTyped, WriterTyped, readVars, spillVars, fixedVars
<1>5. ASSUME NEW c \in Clears, EndClear(c) PROVE Types' BY <1>4, <1>5 DEF EndClear, Types
<1> QED BY <1>1, <1>2, <1>3, <1>5 DEF ClearStep

LEMMA KeepableIs == ASSUME StoreOK(store) PROVE Keepable \subseteq MayKeep(store)
BY EverythingKept DEF Keepable

LEMMA Bounded ==
  ASSUME NEW N \in Nat, NEW f \in [1 .. N -> Nat]
  PROVE  \E k \in Nat : \A n \in 1 .. N : f[n] <= k
<1> DEFINE S == {m \in Nat : \E k \in Nat : \A n \in 1 .. N : n <= m => f[n] <= k}
<1>1. 0 \in S BY 0 \in Nat
<1>2. ASSUME NEW m \in Nat, m \in S PROVE m + 1 \in S
  <2>1. PICK k \in Nat : \A n \in 1 .. N : n <= m => f[n] <= k BY <1>2
  <2>2. CASE m + 1 \in 1 .. N
    <3> DEFINE q == IF f[m + 1] <= k THEN k ELSE f[m + 1]
    <3>1. q \in Nat /\ k <= q /\ f[m + 1] <= q BY <2>2
    <3> HIDE DEF q
    <3>2. \A n \in 1 .. N : f[n] \in Nat /\ (n <= m + 1 => n <= m \/ n = m + 1) OBVIOUS
    <3>3. \A n \in 1 .. N : n <= m + 1 => f[n] <= q BY <2>1, <3>1, <3>2
    <3> QED BY <3>1, <3>3
  <2>3. CASE m + 1 \notin 1 .. N
    <3>1. \A n \in 1 .. N : n <= m + 1 => n <= m BY <2>3
    <3>2. \A n \in 1 .. N : n <= m + 1 => f[n] <= k BY <2>1, <3>1
    <3> QED BY <3>2
  <2> QED BY <2>2, <2>3
<1> HIDE DEF S
<1>3. N \in S BY <1>1, <1>2, Induction
<1> QED BY <1>3 DEF S

LEMMA RecordedIs ==
  ASSUME boundary \in [Clears -> Positions], Recorded # {}, purges \subseteq Clears
  PROVE  LET top == Max({boundary[c].segment : c \in Recorded}) IN
         top \in Nat /\ (\E c \in Recorded : top = boundary[c].segment)
<1> DEFINE f == [c \in 1 .. MaxClears |-> boundary[c].segment]
           S == {boundary[c].segment : c \in Recorded}
<1>1. MaxClears \in Nat BY QueueAssumption
<1>2. \A c \in Clears : boundary[c].segment \in Nat BY DEF Positions
<1>3. f \in [1 .. MaxClears -> Nat] BY <1>2 DEF Clears
<1>4. PICK k \in Nat : \A n \in 1 .. MaxClears : f[n] <= k
  <2> HIDE DEF f
  <2> QED BY <1>1, <1>3, Bounded
<1>5. Recorded \subseteq Clears BY DEF Recorded
<1>6. S \subseteq Nat /\ S # {} /\ \A n \in S : n <= k BY <1>2, <1>4, <1>5 DEF Clears
<1>7. Max(S) \in S
  <2> HIDE DEF S
  <2> QED BY <1>6, MaxIs
<1> QED BY <1>6, <1>7

(* SpillTake: the held back, the one taken and those behind it. *)
LEMMA TakeIs ==
  ASSUME NEW h \in Seq(Jobs), NEW free, free \subseteq DOMAIN h
  PROVE  LET first == IF free = {} THEN Len(h) + 1 ELSE Min(free)
             front == SubSeq(h, 1, first - 1)
             rest == SubSeq(h, first + 1, Len(h))
         IN /\ front \in Seq(Jobs) /\ rest \in Seq(Jobs)
            /\ free = {} => /\ ToSet(h) = ToSet(front) \cup ToSet(rest)
                            /\ Len(h) = Len(front) + Len(rest)
                            /\ Bytes(h) = Bytes(front) + Bytes(rest)
            /\ free # {} => /\ h[first] \in Jobs
                            /\ ToSet(h) = ToSet(front) \cup ToSet(<<h[first]>>) \cup ToSet(rest)
                            /\ Len(h) = Len(front) + 1 + Len(rest)
                            /\ Bytes(h) = Bytes(front) + Bytes(<<h[first]>>) + Bytes(rest)
<1> DEFINE first == IF free = {} THEN Len(h) + 1 ELSE Min(free)
           front == SubSeq(h, 1, first - 1)
           rest == SubSeq(h, first + 1, Len(h))
<1>1. DOMAIN h = 1 .. Len(h) /\ Len(h) \in Nat BY LenProperties
<1>2. CASE free = {}
  <2>1. front = h
    <3>1. first - 1 = Len(h) BY <1>1, <1>2
    <3> QED BY <3>1, SubSeqFull
  <2>2. rest = <<>>
    <3>1. first = Len(h) + 1 BY <1>2
    <3> HIDE DEF first
    <3> QED BY <1>1, <3>1, EmptySeq
  <2> HIDE DEF front, rest
  <2>3. Len(rest) = 0 /\ Bytes(rest) = 0 /\ ToSet(rest) = {} /\ rest \in Seq(Jobs)
    BY <2>2, BytesEmpty, ToSetEmpty, EmptySeq
  <2>4. Bytes(h) \in Nat BY BytesNat
  <2>5. Len(h) = Len(h) + 0 /\ Bytes(h) = Bytes(h) + 0 BY <1>1, <2>4
  <2> QED BY <1>2, <2>1, <2>3, <2>5, ZenonT(30) DEF front, rest
<1>3. CASE free # {}
  <2>1. first \in 1 .. Len(h)
    <3>1. free \subseteq Nat BY <1>1
    <3> QED BY <1>1, <1>3, <3>1, MinIs
  <2> HIDE DEF first
  <2>2. first \in 0 .. Len(h) /\ first - 1 \in 0 .. Len(h) /\ first \in Nat /\ first - 1 \in Nat
        /\ h[first] \in Jobs
    BY <1>1, <2>1
  <2> DEFINE head == SubSeq(h, 1, first)  x == h[first]
  <2>3. front \in Seq(Jobs) /\ Len(front) = first - 1 /\ \A i \in 1 .. first - 1 : front[i] = h[i]
    BY <2>2, CutInTwo
  <2>4. /\ head \in Seq(Jobs) /\ rest \in Seq(Jobs) /\ head \o rest = h /\ Len(head) = first
        /\ \A i \in 1 .. first : head[i] = h[i]
    BY <2>2, CutInTwo
  <2>5. head = Append(front, x)
    <3> DEFINE a == Append(front, x)
    <3>1. a \in Seq(Jobs) /\ Len(a) = first /\ \A i \in 1 .. first : a[i] = h[i]
      <4>1. /\ a \in Seq(Jobs) /\ Len(a) = Len(front) + 1
            /\ \A i \in 1 .. Len(front) : a[i] = front[i]
            /\ a[Len(front) + 1] = x
        BY <2>2, <2>3, AppendProperties
      <4> HIDE DEF a, front
      <4>2. \A i \in 1 .. first : i \in 1 .. first - 1 \/ i = Len(front) + 1 BY <2>2, <2>3
      <4>3. Len(front) + 1 = first BY <2>2, <2>3
      <4> QED BY <2>3, <4>1, <4>2, <4>3 DEF x
    <3> HIDE DEF a, head
    <3> QED BY <2>4, <3>1, SeqEqual DEF a
  <2> HIDE DEF front, rest, head, x
  <2>6. x \in Jobs BY <2>2 DEF x
  <2>7. /\ Len(head) = Len(front) + 1 /\ Bytes(head) = Bytes(front) + Bytes(<<x>>)
        /\ ToSet(head) = ToSet(front) \cup ToSet(<<x>>)
    <3>1. Bytes(head) = Bytes(front) + Size[x] BY <2>3, <2>5, <2>6, BytesAppend
    <3>2. Bytes(<<x>>) = Size[x] /\ ToSet(<<x>>) = {x} BY <2>6, BytesOne, ToSetOne
    <3>3. ToSet(head) = ToSet(front) \cup {x} BY <2>3, <2>5, <2>6, ToSetAppend
    <3>4. Len(head) = Len(front) + 1
      <4> HIDE DEF first
      <4> QED BY <2>2, <2>3, <2>4
    <3> QED BY <3>1, <3>2, <3>3, <3>4
  <2>8. /\ Len(h) = Len(head) + Len(rest) /\ Bytes(h) = Bytes(head) + Bytes(rest)
        /\ ToSet(h) = ToSet(head) \cup ToSet(rest)
    <3>1. Len(h) = Len(head) + Len(rest) BY <2>4, ConcatProperties
    <3>2. Bytes(h) = Bytes(head) + Bytes(rest) BY <2>4, BytesConcat
    <3>3. ToSet(h) = ToSet(head) \cup ToSet(rest) BY <2>4, ToSetConcat, ZenonT(30)
    <3> QED BY <3>1, <3>2, <3>3
  <2>9. Len(front) \in Nat /\ Len(rest) \in Nat /\ Bytes(front) \in Nat /\ Bytes(rest) \in Nat
        /\ Bytes(<<x>>) \in Nat
    <3>1. <<x>> \in Seq(Jobs) BY <2>6
    <3> QED BY <2>3, <2>4, <3>1, BytesNat, LenProperties
  <2> QED BY <1>3, <2>2, <2>3, <2>4, <2>7, <2>8, <2>9 DEF front, rest, x, first
<1> QED BY <1>2, <1>3, Zenon

LEMMA SpillTyping ==
  ASSUME Types, SpillStep \/ SpillOther PROVE Types'
<1>t. /\ StoreOK(store) /\ spill \in SpillStates /\ order \in OrderStates
      /\ spill.unflushed \in Seq(Entries) /\ spill.hand \in Seq(Jobs) /\ spill.at \in Positions
  BY DEF Types, SpillTyped, SpillStates
<1>h. ASSUME spill.pc = "job"
      PROVE  /\ spill.hand[1] \in Jobs /\ spill.hand = <<spill.hand[1]>> /\ Bytes(spill.hand) \in Nat
  BY <1>h, <1>t, BytesNat DEF Types, SpillTyped
<1>n. None \in Positions /\ 1 \in Nat BY NoneIs
<1>i. spill' = IdleSpill => SpillTyped' BY IdleSpillTyped DEF SpillTyped
<1>f. \A S : Settle(S, "dropped") \in [Jobs -> Fates] /\ Settle(S, "discarded") \in [Jobs -> Fates]
  <2>1. "dropped" \in Fates /\ "discarded" \in Fates BY DEF Fates
  <2> QED BY <2>1, SettleTyped
<1>1. CASE SpillRoll
  <2>1. PICK kept \in Keepable :
          /\ store' = Roll(store, kept)
          /\ spill' = [spill EXCEPT !.pc = "rolled", !.seqs = rolls, !.at = Pos(store'.nextId, 0)]
    BY <1>1 DEF SpillRoll
  <2>2. StoreOK(store') BY <1>t, <2>1, KeepableIs, RollIs
  <2>3. Pos(store'.nextId, 0) \in Positions BY <2>2, PosIs DEF StoreOK
  <2>4. SpillTyped' /\ rolls' \subseteq Clears
    BY <1>1, <1>t, <2>1, <2>3 DEF SpillTyped, SpillStates, Types, SpillRoll, SpillIdle
  <2> QED BY <1>1, <2>2, <2>4 DEF Types, SpillRoll, WriterTyped, queueVars, readVars, clearVars, jobVars, fixedVars
<1>2. CASE SpillRollSettle
  <2>1. order' \in OrderStates /\ fate' \in [Jobs -> Fates]
    BY <1>2, <1>t, <1>f, PublishedTyped DEF SpillRollSettle
  <2>2. SpillTyped'
    <3>1. <<>> \in Seq(Entries) OBVIOUS
    <3> QED BY <1>2, <1>t, <3>1 DEF SpillTyped, SpillStates, Types, SpillRollSettle
  <2> QED BY <1>2, <2>1, <2>2 DEF Types, SpillRollSettle, WriterTyped, clearReqVars, readVars, clearVars, fixedVars
<1>3. CASE SpillRollRecord
  <2>1. boundary' \in [Clears -> Positions] BY <1>3, <1>t DEF SpillRollRecord, Types
  <2>2. SpillTyped' BY <1>3, <1>t, <1>n DEF SpillTyped, SpillStates, Types, SpillRollRecord
  <2> QED BY <1>3, <2>1, <2>2 DEF Types, SpillRollRecord, WriterTyped, queueVars, readVars, clearVars, jobVars, fixedVars
<1>4. CASE SpillPurge
  <2>1. boundary' \in [Clears -> Positions] /\ purges' \subseteq Clears
    BY <1>4, <1>n DEF SpillPurge, Types
  <2>2. SpillTyped'
    <3>1. CASE Recorded = {} BY <1>4, <3>1 DEF SpillPurge, Types, SpillTyped
    <3>2. CASE Recorded # {}
      <4> DEFINE top == Max({boundary[c].segment : c \in Recorded})
      <4>1. top \in Nat BY <3>2, RecordedIs DEF Types
      <4>2. Pos(top, 0) \in Positions BY <4>1, PosIs
      <4> HIDE DEF top
      <4>3. spill' = [spill EXCEPT !.pc = "purging", !.at = Pos(top, 0)]
        BY <1>4, <3>2 DEF SpillPurge, top
      <4> QED BY <1>4, <1>t, <4>2, <4>3 DEF SpillTyped, SpillStates, Types, SpillPurge, SpillIdle
    <3> QED BY <3>1, <3>2
  <2> QED BY <1>4, <2>1, <2>2 DEF Types, SpillPurge, WriterTyped, queueVars, readVars, clearVars, jobVars, fixedVars
<1>5. CASE SpillPurgeDelete
  <2>1. StoreOK(store') BY <1>5, <1>t, PurgeIs DEF SpillPurgeDelete
  <2>2. SpillTyped' /\ fate' \in [Jobs -> Fates]
    BY <1>5, <1>t, <1>f DEF SpillTyped, SpillStates, Types, SpillPurgeDelete
  <2> QED BY <1>5, <2>1, <2>2 DEF Types, SpillPurgeDelete, WriterTyped, queueVars, clearReqVars, readVars, clearVars, fixedVars
<1>6. CASE SpillPurgeSkip
  <2>1. SkipStreamTo(order, spill.at) \in OrderStates
    <3> DEFINE a == SetCommitted(order, spill.at)  b == SetConsumed(a, spill.at)
    <3>1. a \in OrderStates BY <1>t, <1>n, OrderOps
    <3> HIDE DEF a
    <3>2. b \in OrderStates BY <1>t, <1>n, <3>1, OrderOps
    <3> HIDE DEF b
    <3>3. TryResumeMemory(b) \in OrderStates BY <1>n, <3>2, OrderOps
    <3> QED BY <3>3 DEF SkipStreamTo, a, b
  <2>2. readStart' \in Positions BY <1>6, <1>t, LaterIs DEF SpillPurgeSkip, Types
  <2>3. SpillTyped' /\ fate' \in [Jobs -> Fates]
    BY <1>6, <1>t, <1>f, <1>n DEF SpillTyped, SpillStates, Types, SpillPurgeSkip
  <2> QED BY <1>6, <2>1, <2>2, <2>3 DEF Types, SpillPurgeSkip, WriterTyped, clearReqVars, clearVars, fixedVars
<1>7. CASE SpillRelease
  <2>1. StoreOK(store') BY <1>7, <1>t, ReleaseIs DEF SpillRelease, Types
  <2> QED BY <1>7, <1>n, <2>1 DEF Types, SpillRelease, SpillTyped, WriterTyped, queueVars, clearReqVars, clearVars, jobVars, fixedVars
<1>8. CASE SpillTake
  <2> DEFINE free == {i \in DOMAIN handoff : ~MustHold(handoff[i])}
             first == IF free = {} THEN Len(handoff) + 1 ELSE Min(free)
             front == SubSeq(handoff, 1, first - 1)
             rest == SubSeq(handoff, first + 1, Len(handoff))
  <2>1. /\ held' = held \o front /\ handoff' = rest
        /\ spill' = IF free = {} THEN spill ELSE [spill EXCEPT !.pc = "job", !.hand = <<handoff[first]>>]
    BY <1>8 DEF SpillTake
  <2>2. handoff \in Seq(Jobs) /\ held \in Seq(Jobs) /\ free \subseteq DOMAIN handoff BY DEF Types
  <2>3. front \in Seq(Jobs) /\ rest \in Seq(Jobs) /\ (free # {} => handoff[first] \in Jobs)
    <3> HIDE DEF free
    <3> QED BY <2>2, TakeIs
  <2> HIDE DEF front, rest, first, free
  <2>4. held' \in Seq(Jobs) /\ handoff' \in Seq(Jobs) BY <2>1, <2>2, <2>3, ConcatProperties
  <2>5. SpillTyped'
    <3>1. CASE free = {} BY <2>1, <3>1 DEF SpillTyped, Types
    <3>2. CASE free # {}
      <4> DEFINE j == handoff[first]
      <4>1. j \in Jobs /\ <<j>> \in Seq(Jobs) BY <2>3, <3>2
      <4>2. spill' = [spill EXCEPT !.pc = "job", !.hand = <<j>>] BY <2>1, <3>2
      <4> HIDE DEF j
      <4>3. spill' \in SpillStates /\ spill'.pc = "job" /\ spill'.hand = <<j>>
        BY <1>t, <4>1, <4>2 DEF SpillStates
      <4> QED BY <4>1, <4>3 DEF SpillTyped
    <3> QED BY <3>1, <3>2
  <2> QED BY <1>8, <2>4, <2>5 DEF Types, SpillTake, WriterTyped, clearReqVars, readVars, clearVars, jobVars, fixedVars
<1>9. CASE SpillAppend
  <2> DEFINE j == spill.hand[1]  e == [job |-> j, end |-> WritePosition(store')]
  <2>1. j \in Jobs /\ spill.pc = "job" /\ store' = AppendRecord(store, j)
        /\ spill' = [spill EXCEPT !.pc = "idle", !.hand = <<>>, !.unflushed = Append(@, e)]
    BY <1>9, <1>h DEF SpillAppend
  <2> HIDE DEF j
  <2>2. StoreOK(store') BY <1>t, <2>1, AppendIs
  <2>3. WritePosition(store') \in Positions BY <2>2, IdsAreNat, Lengths, PosIs DEF WritePosition
  <2>4. e \in Entries BY <2>1, <2>3 DEF Entries
  <2> HIDE DEF e
  <2>5. Append(spill.unflushed, e) \in Seq(Entries) /\ <<>> \in Seq(Jobs) BY <1>t, <2>4
  <2>6. SpillTyped' BY <1>t, <2>1, <2>5 DEF SpillTyped, SpillStates
  <2> QED BY <1>9, <2>2, <2>6 DEF Types, SpillAppend, WriterTyped, queueVars, clearReqVars, readVars, clearVars, jobVars, fixedVars
<1>10. CASE SpillFlush
  <2>1. StoreOK(store') BY <1>10, <1>t, FlushedIs, AbandonIs DEF SpillFlush
  <2>2. order' \in OrderStates /\ fate' \in [Jobs -> Fates]
    BY <1>10, <1>t, <1>f, <2>1, PublishedTyped DEF SpillFlush
  <2> QED BY <1>10, <1>i, <2>1, <2>2 DEF Types, SpillFlush, WriterTyped, clearReqVars, readVars, clearVars, fixedVars
<1>11. CASE SpillRetryDeletes
  <2>1. StoreOK(store')
    <3>1. store.deletes \subseteq Ids(store) BY <1>t DEF StoreOK
    <3> QED BY <1>11, <1>t, <3>1, DeleteIs DEF SpillRetryDeletes, Deleted
  <2> QED BY <1>11, <2>1 DEF Types, SpillRetryDeletes, SpillTyped, WriterTyped, queueVars, clearReqVars, readVars, clearVars, jobVars, fixedVars
<1>12. CASE SpillUnblock
  <2>1. order' \in OrderStates BY <1>12, <1>t, <1>n, OrderOps DEF SpillUnblock
  <2> QED BY <1>12, <2>1 DEF Types, SpillUnblock, SpillTyped, WriterTyped, clearReqVars, readVars, spillVars, clearVars, jobVars, fixedVars
<1>13. CASE SpillFull
  <2>1. FinishHandoff(order, 1, Bytes(spill.hand)) \in OrderStates
    BY <1>13, <1>t, <1>n, <1>h, OrderOps DEF SpillFull
  <2>2. order' \in OrderStates BY <1>13, <1>n, <2>1, OrderOps DEF SpillFull
  <2>3. <<>> \in Seq(Jobs) OBVIOUS
  <2>4. SpillTyped' /\ fate' \in [Jobs -> Fates]
    BY <1>13, <1>t, <1>f, <2>3 DEF SpillTyped, SpillStates, SpillFull
  <2> QED BY <1>13, <2>2, <2>4 DEF Types, SpillFull, WriterTyped, clearReqVars, readVars, clearVars, fixedVars
<1>a. ASSUME NEW s, StoreOK(s), AppendFailed(s) PROVE Types'
  <2>1. Published(order, s, spill.unflushed) \in OrderStates BY <1>a, <1>t, PublishedTyped
  <2>2. order' \in OrderStates BY <1>a, <1>n, <1>h, <2>1, OrderOps DEF AppendFailed
  <2>3. fate' \in [Jobs -> Fates] BY <1>a, <1>f DEF AppendFailed
  <2> QED BY <1>a, <1>i, <2>2, <2>3 DEF Types, AppendFailed, WriterTyped, clearReqVars, readVars, clearVars, fixedVars
<1>14. CASE SpillAppendError
  <2>1. ASSUME NEW kept \in MayKeep(store)
        PROVE  StoreOK(CloseActive(store, kept)) /\ StoreOK(AbandonActive(store, kept))
    BY <1>t, CloseIs, AbandonIs
  <2>2. ASSUME store.active = NoSegment \/ NeedsRoll(store)
        PROVE  StoreOK(AbandonActive(ReadyToAppend(store), 0))
    <3> DEFINE r == ReadyToAppend(store)
    <3>1. StoreOK(r) BY <1>t, ReadyIs
    <3>2. r.flushed = 0 BY <1>t, <2>2, ReadyFlushed
    <3> HIDE DEF r
    <3>3. 0 \in MayKeep(r) BY <3>1, <3>2, EverythingKept
    <3> QED BY <3>1, <3>3, AbandonIs DEF r
  <2>3. CASE \E kept \in MayKeep(store) :
               AppendFailed(IF NeedsRoll(store) THEN CloseActive(store, kept)
                            ELSE AbandonActive(store, kept))
    BY <1>a, <2>1, <2>3
  <2>4. CASE (store.active = NoSegment \/ NeedsRoll(store)) /\ AppendFailed(AbandonActive(ReadyToAppend(store), 0))
    BY <1>a, <2>2, <2>4
  <2> QED BY <1>14, <2>3, <2>4 DEF SpillAppendError
<1>15. CASE SpillTooLarge BY <1>15, <1>t, <1>a DEF SpillTooLarge
<1>16. CASE SpillSync
  <2>1. StoreOK(store') BY <1>16, <1>t, FlushedIs, AbandonIs DEF SpillSync
  <2> QED BY <1>16, <2>1 DEF Types, SpillSync, SpillTyped, WriterTyped, queueVars, clearReqVars, readVars, clearVars, jobVars, fixedVars
<1>17. CASE SpillPanic
  <2>1. StoreOK(store') BY <1>17, <1>t, KeepableIs, CloseIs DEF SpillPanic
  <2>2. Published(order, store', spill.unflushed) \in OrderStates BY <1>t, <2>1, PublishedTyped
  <2>3. order' \in OrderStates BY <1>17, <1>n, <1>h, <2>2, OrderOps DEF SpillPanic
  <2>4. fate' \in [Jobs -> Fates] BY <1>17, <1>f DEF SpillPanic
  <2> QED BY <1>17, <1>i, <2>1, <2>3, <2>4 DEF Types, SpillPanic, WriterTyped, clearReqVars, readVars, clearVars, fixedVars
<1> QED BY <1>1, <1>2, <1>3, <1>4, <1>5, <1>6, <1>7, <1>8, <1>9, <1>10, <1>11, <1>12, <1>13, <1>14,
           <1>15, <1>16, <1>17 DEF SpillStep, SpillOther

LEMMA WriterTyping ==
  ASSUME Types, WriterStep \/ WriterOther PROVE Types'
<1>t. /\ StoreOK(store) /\ writer \in WriterStates /\ order \in OrderStates
      /\ writer.batch \in Seq(Jobs) /\ writer.taken \in Seq(Jobs) /\ writer.from \in Positions
      /\ writer.upto \in Positions /\ writer.cursor \in Positions /\ writer.seen \in Nat
      /\ inFlight.start \in Positions /\ inFlight.next \in Positions /\ inFlight.panics \in {0, 1}
      /\ readStart \in Positions /\ purgeSeq \in Nat /\ releaseUpto \in Positions
      /\ writer.pc \in {"idle", "reading", "memory", "disk"}
  BY DEF Types, WriterTyped, WriterStates
<1>n. None \in Positions /\ 1 \in Nat /\ 0 \in {0, 1} /\ Cursor \in Positions /\ Seen \in Nat
  BY NoneIs, CursorTyped
<1>f. \A S : \A x \in {"dropped", "discarded", "lost", "stale"} : Settle(S, x) \in [Jobs -> Fates]
  <2>1. {"dropped", "discarded", "lost", "stale"} \subseteq Fates BY DEF Fates
  <2> QED BY <2>1, SettleTyped
<1>w. ASSUME NEW c \in Positions, NEW n \in Nat, writer' = IdleWriter(c, n) PROVE WriterTyped'
  BY <1>w, IdleWriterTyped DEF WriterTyped
<1>o. \A o \in OrderStates : \A q \in Positions :
        SetConsumed(o, q) \in OrderStates /\ TryResumeMemory(o) \in OrderStates
  BY <1>n, OrderOps
<1>1. CASE WriterTakeMemory
  <2> DEFINE n == Smaller(Len(memory), BatchJobs)  jobs == SubSeq(memory, 1, n)
             w == IdleWriter(Cursor, Seen)
  <2>1. n \in 0 .. Len(memory) BY LenProperties, StoreAssumption DEF Types, Smaller
  <2>2. jobs \in Seq(Jobs) /\ SubSeq(memory, n + 1, Len(memory)) \in Seq(Jobs)
    <3> HIDE DEF n
    <3> QED BY <2>1, CutInTwo DEF Types
  <2>3. writer' = [w EXCEPT !.pc = "memory", !.batch = jobs, !.taken = jobs]
        /\ memory' = SubSeq(memory, n + 1, Len(memory))
    BY <1>1 DEF WriterTakeMemory
  <2>4. w \in WriterStates BY <1>n, IdleWriterTyped
  <2> HIDE DEF n, jobs, w
  <2>5. WriterTyped' BY <2>2, <2>3, <2>4 DEF WriterTyped, WriterStates
  <2> QED BY <1>1, <2>2, <2>3, <2>5 DEF Types, WriterTakeMemory, SpillTyped, clearReqVars, readVars, spillVars, clearVars, jobVars, fixedVars
<1>2. CASE WriterStartRead
  <2> DEFINE w == IdleWriter(Cursor, Seen)  c == Cursor
  <2>1. w \in WriterStates /\ w.batch = <<>> /\ w.taken = <<>> /\ order.committed \in Positions
    BY <1>t, <1>n, IdleWriterTyped DEF OrderStates
  <2>2. writer' = [w EXCEPT !.pc = "reading", !.from = c, !.upto = order.committed, !.seq = purgeSeq]
    BY <1>2 DEF WriterStartRead
  <2>3. c \in Positions BY <1>n
  <2> HIDE DEF w, c
  <2>4. WriterTyped' BY <1>t, <2>1, <2>2, <2>3 DEF WriterTyped, WriterStates
  <2> QED BY <1>2, <2>4 DEF Types, WriterStartRead, SpillTyped, queueVars, clearReqVars, spillVars, clearVars, jobVars, fixedVars
<1>3. CASE DiscardRead
  <2>1. WriterTyped' BY <1>3, <1>t, <1>w DEF DiscardRead
  <2> QED BY <1>3, <2>1 DEF Types, DiscardRead, SpillTyped, queueVars, clearReqVars, spillVars, clearVars, jobVars, fixedVars
<1>4. ASSUME NEW damaged, EndRead(damaged) PROVE Types'
  <2> DEFINE read == ReadBatch(store, writer.from, writer.upto, damaged)
             jobs == JobsOf(read.records)
             fly == [start |-> writer.from, next |-> read.next,
                     panics |-> IF inFlight.start = writer.from THEN inFlight.panics ELSE 0]
             w == IdleWriter(read.next, writer.seen)
  <2>1. read.records \in Seq(Records) /\ read.next \in Positions BY <1>t, ReadBatchIs
  <2>2. jobs \in Seq(Jobs)
    <3>1. \A x \in Records : x.job \in Jobs BY DEF Records
    <3> QED BY <2>1, <3>1, JobsOfIs
  <2>3. /\ readerBusy' = FALSE
        /\ \E S : fate' = Settle(S, "lost")
        /\ \/ /\ writer' = w /\ SkipTo(read.next) /\ inFlight' = inFlight
           \/ /\ writer' = [w EXCEPT !.pc = "disk", !.batch = jobs, !.upto = read.next]
              /\ inFlight' = fly
              /\ UNCHANGED <<order, releaseUpto>>
        /\ UNCHANGED <<memory, handoff, held, clearReqVars, readStart, writerAlive, spillVars,
                       clearVars, captured, cap, fixedVars>>
    BY <1>4, Zenon DEF EndRead, JobsOf
  <2>4. w \in WriterStates /\ w.batch = <<>> /\ w.taken = <<>> BY <1>t, <2>1, IdleWriterTyped
  <2>5. fly \in [start : Positions, next : Positions, panics : {0, 1}] BY <1>t, <2>1
  <2>6. fate' \in [Jobs -> Fates] BY <2>3, <1>f
  <2> DEFINE p == read.next
  <2>p. p \in Positions BY <2>1
  <2>7. CASE writer' = w /\ SkipTo(p) /\ inFlight' = inFlight
    <3>1. WriterTyped' BY <1>t, <1>w, <2>1, <2>7
    <3>2. order' \in OrderStates /\ releaseUpto' \in Positions
      <4> HIDE DEF p
      <4>1. order' = TryResumeMemory(SetConsumed(order, p)) /\ releaseUpto' = p BY <2>7 DEF SkipTo
      <4> QED BY <4>1, <1>t, <1>o, <2>p
    <3> HIDE DEF read, jobs, fly, w, p
    <3> QED BY <2>3, <2>6, <2>7, <3>1, <3>2 DEF Types, SpillTyped, clearReqVars, spillVars, clearVars, fixedVars
  <2>8. CASE /\ writer' = [w EXCEPT !.pc = "disk", !.batch = jobs, !.upto = p]
             /\ inFlight' = fly
             /\ UNCHANGED <<order, releaseUpto>>
    <3> HIDE DEF read, jobs, fly, w, p
    <3>1. WriterTyped' BY <2>2, <2>4, <2>8, <2>p DEF WriterTyped, WriterStates
    <3> QED BY <2>3, <2>5, <2>6, <2>8, <3>1 DEF Types, SpillTyped, clearReqVars, spillVars, clearVars, fixedVars
  <2> QED BY <2>3, <2>7, <2>8
<1>5. CASE WriterEndRead BY <1>4, <1>5 DEF WriterEndRead
<1>6. CASE WriterReadFails
  <2>1. \/ /\ writer' = IdleWriter(writer.cursor, writer.seen)
           /\ UNCHANGED <<order, releaseUpto, fate>>
        \/ /\ writer' = IdleWriter(writer.upto, writer.seen)
           /\ \E S : fate' = Settle(S, "lost")
           /\ SkipTo(writer.upto)
    BY <1>6 DEF WriterReadFails
  <2>2. WriterTyped' /\ order' \in OrderStates /\ releaseUpto' \in Positions /\ fate' \in [Jobs -> Fates]
    <3>1. CASE /\ writer' = IdleWriter(writer.cursor, writer.seen)
               /\ UNCHANGED <<order, releaseUpto, fate>>
      BY <1>t, <1>w, <3>1 DEF Types
    <3>2. CASE /\ writer' = IdleWriter(writer.upto, writer.seen)
               /\ \E S : fate' = Settle(S, "lost")
               /\ SkipTo(writer.upto)
      <4>1. SetConsumed(order, writer.upto) \in OrderStates BY <1>t, <1>o
      <4> QED BY <1>t, <1>w, <1>f, <1>o, <3>2, <4>1 DEF SkipTo
    <3> QED BY <2>1, <3>1, <3>2
  <2> QED BY <1>6, <2>2 DEF Types, WriterReadFails, SpillTyped, clearReqVars, spillVars, clearVars, fixedVars
<1>7. CASE WriterResume
  <2>1. WriterTyped' /\ order' \in OrderStates BY <1>7, <1>t, <1>n, <1>w, <1>o DEF WriterResume
  <2> QED BY <1>7, <2>1 DEF Types, WriterResume, SpillTyped, clearReqVars, readVars, spillVars, clearVars, jobVars, fixedVars
<1>8. CASE WriterRefresh
  BY <1>8 DEF Types, WriterRefresh, SpillTyped, WriterTyped, queueVars, clearReqVars, readVars, spillVars, jobVars, fixedVars
<1>9. CASE WriterTransaction
  <2>0. PICK n \in 1 .. Len(writer.batch) :
          /\ \E failed :
               fate' = [j \in Jobs |->
                          IF j \notin ToSet(SubSeq(writer.batch, 1, n)) THEN fate[j]
                          ELSE IF j \in failed THEN Settle({j}, "dropped")[j]
                          ELSE IF Accepted(j) THEN "written"
                          ELSE Settle({j}, "stale")[j]]
          /\ writer' = [writer EXCEPT !.batch = SubSeq(@, n + 1, Len(@))]
    BY <1>9 DEF WriterTransaction
  <2>1. PICK failed :
          /\ fate' = [j \in Jobs |->
                        IF j \notin ToSet(SubSeq(writer.batch, 1, n)) THEN fate[j]
                        ELSE IF j \in failed THEN Settle({j}, "dropped")[j]
                        ELSE IF Accepted(j) THEN "written"
                        ELSE Settle({j}, "stale")[j]]
          /\ writer' = [writer EXCEPT !.batch = SubSeq(@, n + 1, Len(@))]
    BY <2>0
  <2>2. fate' \in [Jobs -> Fates]
    <3> DEFINE S == ToSet(SubSeq(writer.batch, 1, n))
               d(j) == Settle({j}, "dropped")[j]  t(j) == Settle({j}, "stale")[j]  a(j) == Accepted(j)
    <3>1. \A j \in Jobs : d(j) \in Fates /\ t(j) \in Fates /\ fate[j] \in Fates /\ "written" \in Fates
      BY <1>f DEF Types, Fates
    <3>2. fate' = [j \in Jobs |-> IF j \notin S THEN fate[j] ELSE IF j \in failed THEN d(j)
                                  ELSE IF a(j) THEN "written" ELSE t(j)]
      BY <2>1
    <3> HIDE DEF S, d, t, a
    <3> QED BY <3>1, <3>2
  <2>3. n \in 0 .. Len(writer.batch) BY <1>t, LenProperties
  <2> DEFINE rest == SubSeq(writer.batch, n + 1, Len(writer.batch))
  <2>4. rest \in Seq(Jobs) BY <1>t, <2>3, CutInTwo
  <2>5. writer' = [writer EXCEPT !.batch = rest] BY <1>t, <2>1 DEF WriterStates
  <2>6. writer.pc \notin {"idle", "reading"} BY <1>9 DEF WriterTransaction, Types, WriterTyped
  <2> HIDE DEF rest
  <2>7. WriterTyped' BY <1>t, <2>4, <2>5, <2>6 DEF WriterTyped, WriterStates, Types
  <2> QED BY <1>9, <2>2, <2>7 DEF Types, WriterTransaction, SpillTyped, queueVars, clearReqVars, readVars, spillVars, fixedVars
<1>10. CASE WriterDone
  <2>1. WriterTyped' BY <1>10, <1>t, <1>w DEF WriterDone
  <2>2. ReleaseMemory(order, Bytes(writer.taken)) \in OrderStates BY <1>t, <1>n, BytesNat, OrderOps
  <2>3. /\ SetConsumed(order, writer.upto) \in OrderStates
        /\ TryResumeMemory(SetConsumed(order, writer.upto)) \in OrderStates
    BY <1>t, <1>o
  <2>4. order' \in OrderStates /\ releaseUpto' \in Positions
        /\ inFlight' \in [start : Positions, next : Positions, panics : {0, 1}]
    <3>1. CASE writer.pc = "memory" BY <1>10, <3>1, <2>2 DEF WriterDone, Types
    <3>2. CASE writer.pc # "memory"
      BY <1>10, <3>2, <2>3, <1>n, SMTT(20) DEF WriterDone, Types, OrderStates
    <3> QED BY <3>1, <3>2
  <2> QED BY <1>10, <2>1, <2>4 DEF Types, WriterDone, SpillTyped, clearReqVars, spillVars, clearVars, jobVars, fixedVars
<1>11. CASE WriterPanic
  <2> DEFINE released == ReleaseMemory(order, Bytes(writer.taken))
             skipped == SetConsumed(released, inFlight.next)
             now == IF Poisoned THEN TryResumeMemory(skipped) ELSE released
             cursor == Later(readStart, now.consumed)
  <2>1. /\ order' = now /\ releaseUpto' = (IF Poisoned THEN inFlight.next ELSE releaseUpto)
        /\ inFlight' = IF Poisoned THEN [start |-> None, next |-> None, panics |-> 0]
                       ELSE IF inFlight.start = None THEN inFlight
                       ELSE [inFlight EXCEPT !.panics = @ + 1]
        /\ \E S : \E x \in {"dropped", "lost"} : fate' = Settle(S, x)
        /\ writer' = IdleWriter(cursor, purgeSeq)
    BY <1>11 DEF WriterPanic
  <2>2. released \in OrderStates BY <1>t, <1>n, BytesNat, OrderOps
  <2> HIDE DEF released
  <2>3. skipped \in OrderStates BY <1>t, <1>o, <2>2
  <2> HIDE DEF skipped
  <2>4. now \in OrderStates
    <3>1. TryResumeMemory(skipped) \in OrderStates BY <1>t, <1>o, <2>3
    <3> QED BY <2>2, <3>1
  <2> HIDE DEF now
  <2>5. cursor \in Positions BY <1>t, <2>4, LaterIs DEF OrderStates
  <2>6. inFlight' \in [start : Positions, next : Positions, panics : {0, 1}]
    <3>1. ~Poisoned /\ inFlight.start # None => inFlight.panics + 1 \in {0, 1} BY <1>t DEF Poisoned
    <3>2. inFlight \in [start : Positions, next : Positions, panics : {0, 1}] BY DEF Types
    <3>3. CASE Poisoned BY <2>1, <3>3, <1>n
    <3>4. CASE ~Poisoned /\ inFlight.start = None BY <2>1, <3>4, <3>2
    <3>5. CASE ~Poisoned /\ inFlight.start # None
      <4> DEFINE q == inFlight.panics + 1
      <4>1. q \in {0, 1} /\ inFlight' = [inFlight EXCEPT !.panics = q] BY <2>1, <3>1, <3>5
      <4> HIDE DEF q
      <4> QED BY <4>1, <3>2
    <3> QED BY <3>3, <3>4, <3>5
  <2>7. WriterTyped' /\ fate' \in [Jobs -> Fates] /\ releaseUpto' \in Positions
    BY <1>t, <1>f, <1>w, <2>1, <2>5
  <2> QED BY <1>11, <2>1, <2>4, <2>6, <2>7, Zenon DEF Types, WriterPanic, SpillTyped, clearReqVars, spillVars, clearVars, fixedVars
<1>12. CASE RespawnWriter
  BY <1>12 DEF Types, RespawnWriter, SpillTyped, WriterTyped, queueVars, clearReqVars, readVars, spillVars, clearVars, jobVars, fixedVars
<1> QED BY <1>1, <1>2, <1>3, <1>4, <1>5, <1>6, <1>7, <1>8, <1>9, <1>10, <1>11, <1>12 DEF WriterStep, WriterOther

LEMMA TruncatedIs ==
  ASSUME NEW s, StoreOK(s), s.active # NoSegment, NEW kept \in 0 .. Length(s, s.active)
  PROVE  /\ Truncated(s, kept) \in [Ids(s) -> Seq(Jobs)]
         /\ \A id \in Ids(s) \ {s.active} : Truncated(s, kept)[id] = s.files[id]
         /\ Len(Truncated(s, kept)[s.active]) = kept
         /\ \A k \in 1 .. kept : Truncated(s, kept)[s.active][k] = s.files[s.active][k]
<1>1. s.files \in [Ids(s) -> Seq(Jobs)] /\ s.active \in Ids(s) BY DEF StoreOK
<1>2. s.files[s.active] \in Seq(Jobs) /\ Length(s, s.active) = Len(s.files[s.active])
  BY <1>1 DEF Length
<1> DEFINE cut == SubSeq(s.files[s.active], 1, kept)
<1>3. cut \in Seq(Jobs) /\ Len(cut) = kept /\ \A k \in 1 .. kept : cut[k] = s.files[s.active][k]
  BY <1>2, CutInTwo
<1>4. Truncated(s, kept) = [s.files EXCEPT ![s.active] = cut] BY <1>1 DEF Truncated
<1> HIDE DEF cut
<1> QED BY <1>1, <1>3, <1>4

LEMMA FoundIs ==
  ASSUME StoreOK(store), NEW kept \in 0 .. Length(store, store.active)
  PROVE  /\ Found(kept) \in [Ids(store) -> Seq(Jobs)]
         /\ Ids(store) \subseteq 1 .. store.nextId - 1 /\ store.nextId - 1 \in Nat
         /\ StoreOK(OpenStore(Found(kept)))
<1>1. /\ store.files \in [Ids(store) -> Seq(Jobs)]
      /\ Ids(store) \subseteq 1 .. store.nextId - 1 /\ store.nextId - 1 \in Nat
  BY DEF StoreOK
<1>2. Found(kept) \in [Ids(store) -> Seq(Jobs)] BY <1>1, TruncatedIs DEF Found
<1> QED BY <1>1, <1>2, OpenStoreIs

LEMMA RestartTyped ==
  ASSUME Types, Restart PROVE Types'
<1>1. PICK kept \in 0 .. Length(store, store.active) : store' = OpenStore(Found(kept))
  BY DEF Restart, Found
<1>2. StoreOK(store') BY <1>1, FoundIs DEF Types
<1>3. store'.start \in Positions /\ store'.committed \in Positions BY <1>2 DEF StoreOK
<1>4. order' \in OrderStates
  <2>1. order' = SetBlocked(NewOrder(store'.start, store'.committed), ~spillRunning) BY DEF Restart
  <2> DEFINE b == ~spillRunning
  <2>2. b \in BOOLEAN OBVIOUS
  <2> HIDE DEF b
  <2> QED BY <1>3, <2>1, <2>2, NewOrderTyped DEF b
<1>5. SpillTyped' BY IdleSpillTyped DEF Restart, SpillTyped
<1>6. WriterTyped'
  <2>1. writer' = IdleWriter(store'.start, 0) /\ 0 \in Nat BY DEF Restart
  <2> QED BY <1>3, <2>1, IdleWriterTyped DEF WriterTyped
<1>7. fate' \in [Jobs -> Fates]
  <2>1. \E S : fate' = Settle(S, "lost") BY DEF Restart
  <2> QED BY <2>1, SettleTyped DEF Fates
<1>8. /\ memory' \in Seq(Jobs) /\ handoff' \in Seq(Jobs) /\ held' \in Seq(Jobs) BY DEF Restart
<1>9. /\ rolls' \subseteq Clears /\ purges' \subseteq Clears
      /\ boundary' \in [Clears -> Positions]
      /\ threshold' \in [Clears -> Nat \cup {Unresolved, NotRunning}]
      /\ purgeSeq' \in Nat /\ readerBusy' \in BOOLEAN
      /\ releaseUpto' \in Positions /\ readStart' \in Positions
      /\ inFlight' \in [start : Positions, next : Positions, panics : {0, 1}]
  BY <1>3, NoneIs DEF Restart
<1>10. /\ generation' \in Nat /\ mirror' \in Nat \cup {Unresolved}
       /\ clear' \in [Clears -> {"idle", "begun", "committed", "done", "failed", "aborted"}]
       /\ begun' \in Nat /\ captured' \in Nat /\ boot' \in Nat
       /\ cap' \in [Jobs -> [gen : Nat \cup {Unresolved}, begun : Nat, clean : BOOLEAN, boot : Nat]]
  BY DEF Restart, Types
<1>11. writerAlive' \in BOOLEAN /\ spillRunning' \in BOOLEAN BY DEF Restart, Types
<1> QED BY <1>2, <1>4, <1>5, <1>6, <1>7, <1>8, <1>9, <1>10, <1>11 DEF Types

LEMMA TypesStep == Types /\ [Next]_vars => Types'
<1>1. Types /\ UNCHANGED vars => Types'
  BY DEF Types, vars, SpillTyped, WriterTyped, queueVars, clearReqVars, readVars, spillVars, clearVars, jobVars, fixedVars
<1> QED BY <1>1, SubmitTyped, ClearTyped, SpillTyping, WriterTyping, RestartTyped DEF Next

LEMMA TypesImply ==
  ASSUME Types PROVE TypeOK
<1>1. Positions \subseteq PositionsOrNone BY DEF PositionsOrNone
<1>2. StoreOK(store) /\ spill \in SpillStates /\ writer \in WriterStates
  BY DEF Types, SpillTyped, WriterTyped
<1>3. store.committed \in Positions /\ store.deletes \subseteq Ids(store) BY <1>2 DEF StoreOK
<1>4. \A id \in Ids(store) : id < store.nextId /\ store.files[id] \in Seq(Jobs)
  BY <1>2, IdsAreNat, Lengths
<1>5. spill.pc \in {"idle", "rolled", "settled", "purging", "purged", "job"}
      /\ writer.pc \in {"idle", "reading", "memory", "disk"}
  BY <1>2 DEF SpillStates, WriterStates
<1>6. inFlight.start \in PositionsOrNone /\ inFlight.panics \in {0, 1}
      /\ boundary \in [Clears -> PositionsOrNone] /\ releaseUpto \in PositionsOrNone
  BY <1>1 DEF Types
<1> QED BY <1>3, <1>4, <1>5, <1>6 DEF TypeOK, Types, Fates

(* TypeOK: every variable keeps its type, through all failures, clears and
   restarts. *)
THEOREM TypeCorrect == Spec => []TypeOK
<1>1. Spec => []Types BY InitTyped, TypesStep, PTL DEF Spec
<1> QED BY <1>1, TypesImply, PTL

--------------------
(* The accounting, whatever fails. *)
LEMMA SetBlockedIs ==
  ASSUME NEW o \in OrderStates, NEW b \in BOOLEAN
  PROVE  LET q == SetBlocked(o, b) IN
         /\ q.memoryBytes = o.memoryBytes /\ q.handoffBytes = o.handoffBytes
         /\ q.handoffJobs = o.handoffJobs /\ q.spilling = o.spilling
         /\ q.committed = o.committed /\ q.consumed = o.consumed
BY DEF SetBlocked, OrderStates

LEMMA SetCommittedIs ==
  ASSUME NEW o \in OrderStates, NEW p \in Positions
  PROVE  LET q == SetCommitted(o, p) IN
         /\ q.memoryBytes = o.memoryBytes /\ q.handoffBytes = o.handoffBytes
         /\ q.handoffJobs = o.handoffJobs /\ q.spilling = o.spilling
         /\ q.committed = Later(o.committed, p) /\ q.consumed = o.consumed
BY DEF SetCommitted, OrderStates

LEMMA SetConsumedIs ==
  ASSUME NEW o \in OrderStates, NEW p \in Positions
  PROVE  LET q == SetConsumed(o, p) IN
         /\ q.memoryBytes = o.memoryBytes /\ q.handoffBytes = o.handoffBytes
         /\ q.handoffJobs = o.handoffJobs /\ q.spilling = o.spilling
         /\ q.committed = o.committed /\ q.consumed = Later(o.consumed, p)
BY DEF SetConsumed, OrderStates

LEMMA RouteIs ==
  ASSUME NEW o \in OrderStates, NEW n \in Nat
  PROVE  LET q == Route(o, n)  to == Destination(o, n) IN
         /\ to \in {"memory", "drop", "spill"}
         /\ q.committed = o.committed /\ q.consumed = o.consumed
         /\ q.memoryBytes = IF to = "memory" THEN o.memoryBytes + n ELSE o.memoryBytes
         /\ q.handoffBytes = IF to = "spill" THEN o.handoffBytes + n ELSE o.handoffBytes
         /\ q.handoffJobs = IF to = "spill" THEN o.handoffJobs + 1 ELSE o.handoffJobs
         /\ to = "memory" => ~o.spilling
         /\ to = "spill" => q.spilling
         /\ o.spilling => q.spilling
<1>1. Destination(o, n) \in {"memory", "drop", "spill"}
      /\ (Destination(o, n) = "memory" => ~o.spilling)
  BY DEF Destination, FitsMemory
<1>2. CASE Destination(o, n) = "memory" BY <1>1, <1>2 DEF Route, OrderStates
<1>3. CASE Destination(o, n) = "drop" BY <1>3 DEF Route, OrderStates
<1>4. CASE Destination(o, n) = "spill" BY <1>4 DEF Route, OrderStates
<1> QED BY <1>1, <1>2, <1>3, <1>4

LEMMA PublishedIs ==
  ASSUME NEW o \in OrderStates, NEW s, StoreOK(s), NEW u \in Seq(Entries)
  PROVE  LET q == Published(o, s, u) IN
         /\ q \in OrderStates
         /\ q.memoryBytes = o.memoryBytes /\ q.handoffBytes = Minus(o.handoffBytes, Bytes(JobsOf(u)))
         /\ q.handoffJobs = Minus(o.handoffJobs, Len(u)) /\ q.spilling = o.spilling
         /\ q.committed = Later(o.committed, s.committed) /\ q.consumed = o.consumed
<1> DEFINE n == Len(u)  b == Bytes(JobsOf(u))  f == FinishHandoff(o, n, b)
<1>1. n \in Nat /\ b \in Nat /\ s.committed \in Positions BY EntriesIs, LenProperties DEF StoreOK
<1>2. Published(o, s, u) = SetCommitted(f, s.committed) BY DEF Published, JobsOf
<1> HIDE DEF n, b
<1>3. /\ f \in OrderStates /\ f.memoryBytes = o.memoryBytes /\ f.handoffBytes = Minus(o.handoffBytes, b)
      /\ f.handoffJobs = Minus(o.handoffJobs, n) /\ f.spilling = o.spilling
      /\ f.committed = o.committed /\ f.consumed = o.consumed
  BY <1>1, OrderOps, NoneIs, FinishHandoffIs
<1> HIDE DEF f
<1> QED BY <1>1, <1>2, <1>3, SetCommittedIs, PublishedTyped DEF n, b

LEMMA HandoffSums ==
  ASSUME NEW h \in Seq(Jobs), NEW e \in Seq(Jobs), NEW d \in Seq(Jobs), NEW u \in Seq(Entries)
  PROVE  LET all == h \o e \o d \o JobsOf(u) IN
         /\ Bytes(all) = Bytes(h) + Bytes(e) + Bytes(d) + Bytes(JobsOf(u))
         /\ Len(all) = Len(h) + Len(e) + Len(d) + Len(u)
         /\ ToSet(all) = ToSet(h) \cup ToSet(e) \cup ToSet(d) \cup ToSet(JobsOf(u))
<1> DEFINE x == h \o e  y == x \o d  j == JobsOf(u)  all == y \o j
<1>1. x \in Seq(Jobs) /\ Len(x) = Len(h) + Len(e) /\ Bytes(x) = Bytes(h) + Bytes(e)
      /\ ToSet(x) = ToSet(h) \cup ToSet(e)
  BY ConcatProperties, BytesConcat, ToSetConcat
<1> HIDE DEF x
<1>2. y \in Seq(Jobs) /\ Len(y) = Len(x) + Len(d) /\ Bytes(y) = Bytes(x) + Bytes(d)
      /\ ToSet(y) = ToSet(x) \cup ToSet(d)
  <2>1. x \in Seq(Jobs) BY <1>1
  <2>2. y \in Seq(Jobs) /\ Len(y) = Len(x) + Len(d) BY <2>1, ConcatProperties
  <2>3. Bytes(y) = Bytes(x) + Bytes(d) /\ ToSet(y) = ToSet(x) \cup ToSet(d)
    BY <2>1, BytesConcat, ToSetConcat
  <2> QED BY <2>2, <2>3
<1> HIDE DEF y
<1>3. j \in Seq(Jobs) /\ Len(j) = Len(u) BY EntriesIs
<1> HIDE DEF j
<1>4. Len(all) = Len(y) + Len(j) /\ Bytes(all) = Bytes(y) + Bytes(j)
      /\ ToSet(all) = ToSet(y) \cup ToSet(j)
  <2>1. y \in Seq(Jobs) /\ j \in Seq(Jobs) BY <1>2, <1>3
  <2>2. Len(all) = Len(y) + Len(j) BY <2>1, ConcatProperties
  <2>3. Bytes(all) = Bytes(y) + Bytes(j) /\ ToSet(all) = ToSet(y) \cup ToSet(j)
    BY <2>1, BytesConcat, ToSetConcat
  <2> QED BY <2>2, <2>3
<1> QED BY <1>1, <1>2, <1>3, <1>4 DEF x, y, j

LEMMA JobsOfAppend ==
  ASSUME NEW u \in Seq(Entries), NEW r \in Entries
  PROVE  /\ Append(u, r) \in Seq(Entries) /\ Len(Append(u, r)) = Len(u) + 1
         /\ JobsOf(Append(u, r)) = Append(JobsOf(u), r.job)
<1> DEFINE v == Append(u, r)  a == JobsOf(v)  b == Append(JobsOf(u), r.job)
<1>1. /\ v \in Seq(Entries) /\ Len(v) = Len(u) + 1 /\ v[Len(u) + 1] = r
      /\ \A i \in 1 .. Len(u) : v[i] = u[i]
  BY AppendProperties
<1> HIDE DEF v
<1>2. /\ a \in Seq(Jobs) /\ Len(a) = Len(v) /\ \A i \in 1 .. Len(v) : a[i] = v[i].job
  BY <1>1, EntriesIs
<1>3. /\ JobsOf(u) \in Seq(Jobs) /\ Len(JobsOf(u)) = Len(u)
      /\ \A i \in 1 .. Len(u) : JobsOf(u)[i] = u[i].job
      /\ r.job \in Jobs /\ Len(u) \in Nat
  BY EntriesIs, LenProperties DEF Entries
<1>4. /\ b \in Seq(Jobs) /\ Len(b) = Len(u) + 1 /\ b[Len(u) + 1] = r.job
      /\ \A i \in 1 .. Len(u) : b[i] = JobsOf(u)[i]
  BY <1>3, AppendProperties
<1> HIDE DEF a, b
<1>5. \A i \in 1 .. Len(a) : a[i] = b[i]
  <2> SUFFICES ASSUME NEW i \in 1 .. Len(u) + 1 PROVE a[i] = b[i]
    BY <1>1, <1>2
  <2>1. CASE i = Len(u) + 1 BY <1>1, <1>2, <1>3, <1>4, <2>1
  <2>2. CASE i \in 1 .. Len(u) BY <1>1, <1>2, <1>3, <1>4, <2>2
  <2> QED BY <1>3, <2>1, <2>2
<1>6. a = b BY <1>1, <1>2, <1>4, <1>5, SeqEqual
<1> QED BY <1>1, <1>6 DEF a, b, v

LEMMA CountedIs == ASSUME Types PROVE Counted <=> AccountingExact
<1> DEFINE h == handoff  e == held  d == spill.hand  u == spill.unflushed
<1>1. h \in Seq(Jobs) /\ e \in Seq(Jobs) /\ d \in Seq(Jobs) /\ u \in Seq(Entries)
  BY DEF Types, SpillTyped, SpillStates
<1>2. InHandoff = h \o e \o d \o JobsOf(u) BY DEF InHandoff, JobsOf
<1> HIDE DEF h, e, d, u
<1>3. /\ Bytes(InHandoff) = Bytes(h) + Bytes(e) + Bytes(d) + Bytes(JobsOf(u))
      /\ Len(InHandoff) = Len(h) + Len(e) + Len(d) + Len(u)
  BY <1>1, <1>2, HandoffSums
<1> QED BY <1>3 DEF Counted, AccountingExact, h, e, d, u

LEMMA Numbers ==
  ASSUME Types
  PROVE  /\ Bytes(memory) \in Nat /\ Bytes(writer.taken) \in Nat /\ Bytes(handoff) \in Nat
         /\ Bytes(held) \in Nat /\ Bytes(spill.hand) \in Nat /\ Bytes(JobsOf(spill.unflushed)) \in Nat
         /\ Len(memory) \in Nat /\ Len(handoff) \in Nat /\ Len(held) \in Nat
         /\ Len(spill.hand) \in Nat /\ Len(spill.unflushed) \in Nat
         /\ order.memoryBytes \in Nat /\ order.handoffBytes \in Nat /\ order.handoffJobs \in Nat
<1>1. /\ memory \in Seq(Jobs) /\ writer.taken \in Seq(Jobs) /\ handoff \in Seq(Jobs) /\ held \in Seq(Jobs)
      /\ spill.hand \in Seq(Jobs) /\ spill.unflushed \in Seq(Entries)
  BY DEF Types, SpillTyped, SpillStates, WriterTyped, WriterStates
<1>2. order.memoryBytes \in Nat /\ order.handoffBytes \in Nat /\ order.handoffJobs \in Nat
  BY DEF Types, OrderStates
<1> QED BY <1>1, <1>2, BytesNat, EntriesIs, LenProperties

LEMMA Empty == /\ Bytes(<<>>) = 0 /\ Len(<<>>) = 0 /\ JobsOf(<<>>) = <<>>
               /\ \A x : Len(<<x>>) = 1
<1>1. DOMAIN <<>> = {} OBVIOUS
<1> QED BY <1>1, BytesEmpty DEF JobsOf

LEMMA InitCounted == Init => Counted
BY Empty DEF Init, Counted, IdleSpill, IdleWriter, SetBlocked, NewOrder

LEMMA SubmitCounted ==
  ASSUME Types, Counted, Submit PROVE Counted'
<1> DEFINE j == captured + 1  z == Size[j]
           to == IF writerAlive THEN Destination(order, z) ELSE "drop"
<1>1. j \in Jobs /\ z \in Nat BY QueueAssumption, SizesAreNat DEF Types, Submit, Jobs
<1>2. /\ order' = (IF writerAlive THEN Route(order, z) ELSE order)
      /\ memory' = (IF to = "memory" THEN Append(memory, j) ELSE memory)
      /\ handoff' = (IF to = "spill" THEN Append(handoff, j) ELSE handoff)
      /\ held' = held /\ spill' = spill /\ writer' = writer
  BY DEF Submit, spillVars
<1>3. /\ Bytes(Append(memory, j)) = Bytes(memory) + z /\ Bytes(Append(handoff, j)) = Bytes(handoff) + z
      /\ Len(Append(handoff, j)) = Len(handoff) + 1
  BY <1>1, BytesAppend, AppendProperties DEF Types
<1>4. /\ order'.memoryBytes = IF to = "memory" THEN order.memoryBytes + z ELSE order.memoryBytes
      /\ order'.handoffBytes = IF to = "spill" THEN order.handoffBytes + z ELSE order.handoffBytes
      /\ order'.handoffJobs = IF to = "spill" THEN order.handoffJobs + 1 ELSE order.handoffJobs
  <2> HIDE DEF j, z
  <2> QED BY <1>1, <1>2, RouteIs DEF Types
<1> HIDE DEF j, z, to
<1> DEFINE m == Bytes(memory)  t == Bytes(writer.taken)  om == order.memoryBytes
           h == Bytes(handoff)  e == Bytes(held)  d == Bytes(spill.hand)
           u == Bytes(JobsOf(spill.unflushed))  oh == order.handoffBytes
           hl == Len(handoff)  el == Len(held)  dl == Len(spill.hand)  ul == Len(spill.unflushed)
           ol == order.handoffJobs
<1>5. /\ m \in Nat /\ t \in Nat /\ om = m + t
      /\ h \in Nat /\ e \in Nat /\ d \in Nat /\ u \in Nat /\ oh = h + e + d + u
      /\ hl \in Nat /\ el \in Nat /\ dl \in Nat /\ ul \in Nat /\ ol = hl + el + dl + ul
  BY Numbers DEF Counted
<1>6. /\ order'.memoryBytes = (IF to = "memory" THEN om + z ELSE om)
      /\ Bytes(memory') = (IF to = "memory" THEN m + z ELSE m)
      /\ Bytes(writer'.taken) = t
      /\ order'.handoffBytes = (IF to = "spill" THEN oh + z ELSE oh)
      /\ Bytes(handoff') = (IF to = "spill" THEN h + z ELSE h)
      /\ Bytes(held') = e /\ Bytes(spill'.hand) = d /\ Bytes(JobsOf(spill'.unflushed)) = u
      /\ order'.handoffJobs = (IF to = "spill" THEN ol + 1 ELSE ol)
      /\ Len(handoff') = (IF to = "spill" THEN hl + 1 ELSE hl)
      /\ Len(held') = el /\ Len(spill'.hand) = dl /\ Len(spill'.unflushed) = ul
  BY <1>2, <1>3, <1>4
<1> HIDE DEF m, t, om, h, e, d, u, oh, hl, el, dl, ul, ol
<1>7. /\ (IF to = "memory" THEN om + z ELSE om) = (IF to = "memory" THEN m + z ELSE m) + t
      /\ (IF to = "spill" THEN oh + z ELSE oh) = (IF to = "spill" THEN h + z ELSE h) + e + d + u
      /\ (IF to = "spill" THEN ol + 1 ELSE ol) = (IF to = "spill" THEN hl + 1 ELSE hl) + el + dl + ul
  BY <1>1, <1>5
<1> QED BY <1>6, <1>7 DEF Counted

LEMMA FinishClearCounted ==
  ASSUME Types, Counted, NEW c, NEW read, FinishClear(c, read) PROVE Counted'
<1>1. PICK fresh, gone, stale, let, out : Finished(fresh, gone, stale, let, out) BY FinishIs
<1>2. spill' = spill /\ writer' = writer BY DEF FinishClear, spillVars
<1>3. memory \in Seq(Jobs) /\ handoff \in Seq(Jobs) /\ held \in Seq(Jobs) BY DEF Types
<1>4. /\ Len(handoff') + Len(stale) = Len(handoff) /\ Bytes(handoff') + Bytes(stale) = Bytes(handoff)
      /\ Bytes(memory') + Bytes(gone) = Bytes(memory)
  BY <1>1, <1>3, AmongSplits DEF Finished
<1>5. Len(held') + Len(let) = Len(held) /\ Bytes(held') + Bytes(let) = Bytes(held)
  <2>1. Len(held) \in Nat /\ Bytes(held) \in Nat BY Numbers
  <2>2. (let = held /\ held' = <<>>) \/ (let = <<>> /\ held' = held) BY <1>1 DEF Finished
  <2> QED BY <2>1, <2>2, Empty
<1>6. Len(out) = Len(stale) + Len(let) /\ Bytes(out) = Bytes(stale) + Bytes(let)
  BY <1>1, ConcatProperties, BytesConcat DEF Finished
<1>7. /\ Bytes(stale) \in Nat /\ Len(stale) \in Nat /\ Bytes(gone) \in Nat /\ Bytes(memory') \in Nat
      /\ Bytes(handoff') \in Nat /\ Len(handoff') \in Nat /\ Bytes(let) \in Nat /\ Len(let) \in Nat
      /\ Len(held') \in Nat /\ Bytes(held') \in Nat
  BY <1>1, <1>3, EmptySeq, BytesNat, LenProperties DEF Finished
<1>8. /\ order'.memoryBytes = Minus(order.memoryBytes, Bytes(gone))
      /\ order'.handoffBytes = Minus(order.handoffBytes, Bytes(out))
      /\ order'.handoffJobs = Minus(order.handoffJobs, Len(out))
  BY <1>1 DEF Finished
<1>9. /\ order.memoryBytes = Bytes(memory) + Bytes(writer.taken)
      /\ order.handoffBytes = Bytes(handoff) + Bytes(held) + Bytes(spill.hand) + Bytes(JobsOf(spill.unflushed))
      /\ order.handoffJobs = Len(handoff) + Len(held) + Len(spill.hand) + Len(spill.unflushed)
  BY DEF Counted
<1>10. order'.memoryBytes = Bytes(memory') + Bytes(writer'.taken)
  <2> DEFINE b1 == Bytes(memory')  c1 == Bytes(gone)  d1 == Bytes(writer.taken)  t1 == order.memoryBytes
  <2>1. /\ b1 \in Nat /\ c1 \in Nat /\ d1 \in Nat /\ t1 = b1 + c1 + d1
        /\ order'.memoryBytes = Minus(t1, c1) /\ Bytes(writer'.taken) = d1
    BY <1>2, <1>4, <1>7, <1>8, <1>9, Numbers
  <2> HIDE DEF b1, c1, d1, t1
  <2>2. Minus(t1, c1) = b1 + d1 BY <2>1 DEF Minus
  <2> QED BY <2>1, <2>2 DEF b1
<1>11. order'.handoffBytes = Bytes(handoff') + Bytes(held') + Bytes(spill'.hand) + Bytes(JobsOf(spill'.unflushed))
  <2> DEFINE d1 == Bytes(spill.hand)  u1 == Bytes(JobsOf(spill.unflushed))  t1 == order.handoffBytes
             h2 == Bytes(handoff')  hx == Bytes(stale)  e2 == Bytes(held')  ex == Bytes(let)
  <2>1. /\ d1 \in Nat /\ u1 \in Nat /\ h2 \in Nat /\ hx \in Nat /\ e2 \in Nat /\ ex \in Nat
        /\ t1 = (h2 + hx) + (e2 + ex) + d1 + u1 /\ order'.handoffBytes = Minus(t1, hx + ex)
        /\ Bytes(spill'.hand) = d1 /\ Bytes(JobsOf(spill'.unflushed)) = u1
    BY <1>2, <1>4, <1>5, <1>6, <1>7, <1>8, <1>9, Numbers
  <2> HIDE DEF d1, u1, t1, h2, hx, e2, ex
  <2>2. Minus(t1, hx + ex) = h2 + e2 + d1 + u1 BY <2>1 DEF Minus
  <2> QED BY <2>1, <2>2 DEF h2, e2
<1>12. order'.handoffJobs = Len(handoff') + Len(held') + Len(spill'.hand) + Len(spill'.unflushed)
  <2> DEFINE d1 == Len(spill.hand)  u1 == Len(spill.unflushed)  t1 == order.handoffJobs
             h2 == Len(handoff')  hx == Len(stale)  e2 == Len(held')  ex == Len(let)
  <2>1. /\ d1 \in Nat /\ u1 \in Nat /\ h2 \in Nat /\ hx \in Nat /\ e2 \in Nat /\ ex \in Nat
        /\ t1 = (h2 + hx) + (e2 + ex) + d1 + u1 /\ order'.handoffJobs = Minus(t1, hx + ex)
        /\ Len(spill'.hand) = d1 /\ Len(spill'.unflushed) = u1
    BY <1>2, <1>4, <1>5, <1>6, <1>7, <1>8, <1>9, Numbers
  <2> HIDE DEF d1, u1, t1, h2, hx, e2, ex
  <2>2. Minus(t1, hx + ex) = h2 + e2 + d1 + u1 BY <2>1 DEF Minus
  <2> QED BY <2>1, <2>2 DEF h2, e2
<1> QED BY <1>10, <1>11, <1>12 DEF Counted

(* The rest: every step but Submit and FinishClear moves jobs from one
   place to another, or releases them where they were. *)
LEMMA SpillCounted ==
  ASSUME Types, Counted, SpillStep \/ SpillOther PROVE Counted'
<1>t. /\ StoreOK(store) /\ spill \in SpillStates /\ order \in OrderStates
      /\ spill.unflushed \in Seq(Entries) /\ spill.hand \in Seq(Jobs) /\ spill.at \in Positions
      /\ handoff \in Seq(Jobs) /\ held \in Seq(Jobs) /\ memory \in Seq(Jobs)
  BY DEF Types, SpillTyped, SpillStates
<1> DEFINE m == Bytes(memory)  t == Bytes(writer.taken)  om == order.memoryBytes
           h == Bytes(handoff)  e == Bytes(held)  d == Bytes(spill.hand)
           u == Bytes(JobsOf(spill.unflushed))  oh == order.handoffBytes
           hl == Len(handoff)  el == Len(held)  dl == Len(spill.hand)  ul == Len(spill.unflushed)
           ol == order.handoffJobs
<1>n. /\ m \in Nat /\ t \in Nat /\ om = m + t
      /\ h \in Nat /\ e \in Nat /\ d \in Nat /\ u \in Nat /\ oh = h + e + d + u /\ oh \in Nat
      /\ hl \in Nat /\ el \in Nat /\ dl \in Nat /\ ul \in Nat /\ ol = hl + el + dl + ul /\ ol \in Nat
  BY Numbers DEF Counted
<1>j. spill.pc = "job" => dl = 1 /\ \E x \in Jobs : spill.hand = <<x>> BY Empty DEF Types, SpillTyped
<1>e. spill.pc # "job" => spill.hand = <<>> BY DEF Types, SpillTyped
<1>same. ASSUME UNCHANGED <<memory, handoff, held, writer>>,
                spill'.hand = spill.hand, spill'.unflushed = spill.unflushed,
                order'.memoryBytes = om, order'.handoffBytes = oh, order'.handoffJobs = ol
         PROVE  Counted'
  BY <1>same, <1>n DEF Counted
<1>flush. ASSUME UNCHANGED <<memory, handoff, held, writer>>,
                 spill'.hand = spill.hand, spill'.unflushed = <<>>,
                 order'.memoryBytes = om, order'.handoffBytes = Minus(oh, u), order'.handoffJobs = Minus(ol, ul)
          PROVE  Counted'
  <2>1. /\ Bytes(memory') = m /\ Bytes(writer'.taken) = t /\ Bytes(handoff') = h /\ Bytes(held') = e
        /\ Bytes(spill'.hand) = d /\ Bytes(JobsOf(spill'.unflushed)) = 0
        /\ Len(handoff') = hl /\ Len(held') = el /\ Len(spill'.hand) = dl /\ Len(spill'.unflushed) = 0
    BY <1>flush, Empty
  <2>a. order'.memoryBytes = om /\ order'.handoffBytes = Minus(oh, u) /\ order'.handoffJobs = Minus(ol, ul)
    BY <1>flush
  <2> HIDE DEF m, t, om, h, e, d, u, oh, hl, el, dl, ul, ol
  <2>2. Minus(oh, u) = h + e + d + 0 /\ Minus(ol, ul) = hl + el + dl + 0 BY <1>n DEF Minus
  <2> QED BY <1>n, <2>1, <2>2, <2>a DEF Counted
<1>drop. ASSUME UNCHANGED <<memory, handoff, held, writer>>,
                spill'.hand = <<>>, spill'.unflushed = spill.unflushed, spill.pc = "job",
                order'.memoryBytes = om, order'.handoffBytes = Minus(oh, d), order'.handoffJobs = Minus(ol, 1)
         PROVE  Counted'
  <2>1. /\ Bytes(memory') = m /\ Bytes(writer'.taken) = t /\ Bytes(handoff') = h /\ Bytes(held') = e
        /\ Bytes(spill'.hand) = 0 /\ Bytes(JobsOf(spill'.unflushed)) = u
        /\ Len(handoff') = hl /\ Len(held') = el /\ Len(spill'.hand) = 0 /\ Len(spill'.unflushed) = ul
    BY <1>drop, Empty
  <2>a. order'.memoryBytes = om /\ order'.handoffBytes = Minus(oh, d) /\ order'.handoffJobs = Minus(ol, 1)
        /\ dl = 1
    BY <1>drop, <1>j
  <2> HIDE DEF m, t, om, h, e, d, u, oh, hl, el, dl, ul, ol
  <2>2. Minus(oh, d) = h + e + 0 + u /\ Minus(ol, 1) = hl + el + 0 + ul BY <1>n, <2>a DEF Minus
  <2> QED BY <1>n, <2>1, <2>2, <2>a DEF Counted
<1>both. ASSUME UNCHANGED <<memory, handoff, held, writer>>, spill' = IdleSpill, spill.pc = "job",
                order'.memoryBytes = om, order'.handoffBytes = Minus(Minus(oh, u), d),
                order'.handoffJobs = Minus(Minus(ol, ul), 1)
         PROVE  Counted'
  <2>1. /\ Bytes(memory') = m /\ Bytes(writer'.taken) = t /\ Bytes(handoff') = h /\ Bytes(held') = e
        /\ Bytes(spill'.hand) = 0 /\ Bytes(JobsOf(spill'.unflushed)) = 0
        /\ Len(handoff') = hl /\ Len(held') = el /\ Len(spill'.hand) = 0 /\ Len(spill'.unflushed) = 0
    BY <1>both, Empty, IdleSpillTyped
  <2>a. order'.memoryBytes = om /\ order'.handoffBytes = Minus(Minus(oh, u), d)
        /\ order'.handoffJobs = Minus(Minus(ol, ul), 1) /\ dl = 1
    BY <1>both, <1>j
  <2> HIDE DEF m, t, om, h, e, d, u, oh, hl, el, dl, ul, ol
  <2>2. Minus(Minus(oh, u), d) = h + e + 0 + 0 /\ Minus(Minus(ol, ul), 1) = hl + el + 0 + 0
    BY <1>n, <2>a DEF Minus
  <2> QED BY <1>n, <2>1, <2>2, <2>a DEF Counted
<1>p. ASSUME NEW s, StoreOK(s)
      PROVE  LET q == Published(order, s, spill.unflushed)  w == FinishHandoff(q, 1, Bytes(spill.hand)) IN
             /\ q.memoryBytes = om /\ q.handoffBytes = Minus(oh, u) /\ q.handoffJobs = Minus(ol, ul)
             /\ w.memoryBytes = om /\ w.handoffBytes = Minus(Minus(oh, u), d)
             /\ w.handoffJobs = Minus(Minus(ol, ul), 1)
  <2> DEFINE q == Published(order, s, spill.unflushed)
  <2>1. /\ q \in OrderStates
        /\ q.memoryBytes = om /\ q.handoffBytes = Minus(oh, u) /\ q.handoffJobs = Minus(ol, ul)
    BY <1>t, <1>p, PublishedIs
  <2>2. d \in Nat /\ 1 \in Nat BY <1>n
  <2> HIDE DEF q
  <2>3. LET w == FinishHandoff(q, 1, d) IN
             /\ w.memoryBytes = q.memoryBytes /\ w.handoffBytes = Minus(q.handoffBytes, d)
             /\ w.handoffJobs = Minus(q.handoffJobs, 1)
    <3> HIDE DEF d
    <3> QED BY <2>1, <2>2, FinishHandoffIs
  <2> QED BY <2>1, <2>3 DEF q
<1>s. StoreOK(store') BY SpillTyping DEF Types
<1> HIDE DEF m, t, om, h, e, d, u, oh, hl, el, dl, ul, ol
<1>1. CASE SpillRoll
  <2>1. spill'.hand = spill.hand /\ spill'.unflushed = spill.unflushed
    BY <1>1, <1>t DEF SpillRoll, SpillStates
  <2> QED BY <1>1, <1>same, <2>1 DEF SpillRoll, queueVars, om, oh, ol
<1>2. CASE SpillRollSettle
  <2>1. spill'.hand = spill.hand /\ spill'.unflushed = <<>>
    BY <1>2, <1>t DEF SpillRollSettle, SpillStates
  <2> QED BY <1>2, <1>t, <1>p, <1>flush, <2>1 DEF SpillRollSettle
<1>3. CASE SpillRollRecord
  <2>1. spill'.hand = spill.hand /\ spill'.unflushed = spill.unflushed
    BY <1>3, <1>t DEF SpillRollRecord, SpillStates
  <2> QED BY <1>3, <1>same, <2>1 DEF SpillRollRecord, queueVars, om, oh, ol
<1>4. CASE SpillPurge
  <2>1. spill'.hand = spill.hand /\ spill'.unflushed = spill.unflushed
    BY <1>4, <1>t DEF SpillPurge, SpillStates
  <2> QED BY <1>4, <1>same, <2>1 DEF SpillPurge, queueVars, om, oh, ol
<1>5. CASE SpillPurgeDelete
  <2>1. spill'.hand = spill.hand /\ spill'.unflushed = spill.unflushed
    BY <1>5, <1>t DEF SpillPurgeDelete, SpillStates
  <2> QED BY <1>5, <1>same, <2>1 DEF SpillPurgeDelete, queueVars, om, oh, ol
<1>6. CASE SpillPurgeSkip
  <2>1. spill'.hand = spill.hand /\ spill'.unflushed = spill.unflushed
    BY <1>6, <1>t DEF SpillPurgeSkip, SpillStates
  <2> DEFINE a == SetCommitted(order, spill.at)  b == SetConsumed(a, spill.at)
  <2>2. a \in OrderStates /\ a.memoryBytes = om /\ a.handoffBytes = oh /\ a.handoffJobs = ol
    BY <1>t, NoneIs, OrderOps, SetCommittedIs DEF om, oh, ol
  <2>3. order' = TryResumeMemory(b) BY <1>6 DEF SpillPurgeSkip, SkipStreamTo
  <2> HIDE DEF a
  <2>4. b \in OrderStates /\ b.memoryBytes = om /\ b.handoffBytes = oh /\ b.handoffJobs = ol
    BY <1>t, <2>2, NoneIs, OrderOps, SetConsumedIs
  <2> HIDE DEF b
  <2>5. order'.memoryBytes = om /\ order'.handoffBytes = oh /\ order'.handoffJobs = ol
    BY <2>3, <2>4, ResumeIs
  <2> QED BY <1>6, <1>same, <2>1, <2>5 DEF SpillPurgeSkip
<1>7. CASE SpillRelease BY <1>7, <1>same DEF SpillRelease, queueVars, om, oh, ol
<1>8. CASE SpillTake
  <2> DEFINE free == {i \in DOMAIN handoff : ~MustHold(handoff[i])}
             first == IF free = {} THEN Len(handoff) + 1 ELSE Min(free)
             front == SubSeq(handoff, 1, first - 1)
             rest == SubSeq(handoff, first + 1, Len(handoff))
             x == handoff[first]
  <2>1. /\ held' = held \o front /\ handoff' = rest
        /\ spill' = IF free = {} THEN spill ELSE [spill EXCEPT !.pc = "job", !.hand = <<x>>]
        /\ order' = order /\ memory' = memory /\ writer' = writer /\ spill.pc = "idle"
    BY <1>8 DEF SpillTake, SpillIdle
  <2>2. free \subseteq DOMAIN handoff OBVIOUS
  <2>3. /\ front \in Seq(Jobs) /\ rest \in Seq(Jobs)
        /\ free = {} => hl = Len(front) + Len(rest) /\ h = Bytes(front) + Bytes(rest)
        /\ free # {} => /\ x \in Jobs /\ hl = Len(front) + 1 + Len(rest)
                        /\ h = Bytes(front) + Bytes(<<x>>) + Bytes(rest)
    <3> HIDE DEF free
    <3> QED BY <1>t, <2>2, TakeIs DEF h, hl
  <2> HIDE DEF front, rest, first, free, x
  <2>4. held' \in Seq(Jobs) /\ Bytes(held') = e + Bytes(front) /\ Len(held') = el + Len(front)
    BY <1>t, <2>1, <2>3, ConcatProperties, BytesConcat DEF e, el
  <2>5. spill'.unflushed = spill.unflushed /\ spill'.hand = (IF free = {} THEN <<>> ELSE <<x>>)
        /\ d = 0 /\ dl = 0
    BY <1>t, <1>e, <2>1, Empty DEF SpillStates, d, dl
  <2> DEFINE fl == Len(front)  rl == Len(rest)  fb == Bytes(front)  rb == Bytes(rest)
             xb == Bytes(spill'.hand)  xl == Len(spill'.hand)
  <2>6. /\ fl \in Nat /\ rl \in Nat /\ fb \in Nat /\ rb \in Nat /\ xb \in Nat /\ xl \in Nat
        /\ hl = fl + xl + rl /\ h = fb + xb + rb
    <3>1. fl \in Nat /\ rl \in Nat /\ fb \in Nat /\ rb \in Nat BY <2>3, BytesNat, LenProperties
    <3>2. CASE free = {}
      <4>1. xb = 0 /\ xl = 0 BY <2>5, <3>2, Empty
      <4>2. hl = fl + rl /\ h = fb + rb BY <2>3, <3>2
      <4> HIDE DEF fl, rl, fb, rb, xb, xl
      <4> QED BY <3>1, <4>1, <4>2
    <3>3. CASE free # {}
      <4>1. xb = Bytes(<<x>>) /\ xl = 1 /\ <<x>> \in Seq(Jobs) BY <2>3, <2>5, <3>3, Empty
      <4>2. xb \in Nat BY <4>1, BytesNat
      <4> QED BY <2>3, <3>1, <3>3, <4>1, <4>2
    <3> QED BY <3>2, <3>3
  <2>7. /\ order'.memoryBytes = om /\ order'.handoffBytes = oh /\ order'.handoffJobs = ol
        /\ Bytes(memory') = m /\ Bytes(writer'.taken) = t
        /\ Bytes(handoff') = rb /\ Bytes(held') = e + fb /\ Bytes(JobsOf(spill'.unflushed)) = u
        /\ Len(handoff') = rl /\ Len(held') = el + fl /\ Len(spill'.unflushed) = ul
    BY <2>1, <2>4, <2>5 DEF om, oh, ol, m, t, u, ul
  <2> HIDE DEF fl, rl, fb, rb, xb, xl
  <2>8. oh = rb + (e + fb) + xb + u /\ ol = rl + (el + fl) + xl + ul /\ om = m + t BY <1>n, <2>5, <2>6
  <2> QED BY <2>7, <2>8 DEF Counted, xb, xl
<1>9. CASE SpillAppend
  <2> DEFINE j == spill.hand[1]  r == [job |-> j, end |-> WritePosition(store')]
  <2>1. /\ spill.pc = "job" /\ order' = order /\ memory' = memory /\ writer' = writer
        /\ handoff' = handoff /\ held' = held
        /\ spill' = [spill EXCEPT !.pc = "idle", !.hand = <<>>, !.unflushed = Append(@, r)]
    BY <1>9 DEF SpillAppend, queueVars
  <2>2. j \in Jobs /\ spill.hand = <<j>> BY <1>j, <2>1
  <2>3. r \in Entries
    <3>1. WritePosition(store') \in Positions BY <1>s, IdsAreNat, Lengths, PosIs DEF WritePosition
    <3> QED BY <2>2, <3>1 DEF Entries
  <2>4. r.job = j OBVIOUS
  <2> HIDE DEF r
  <2> DEFINE v == Append(spill.unflushed, r)
  <2>5. spill'.hand = <<>> /\ spill'.unflushed = v BY <1>t, <2>1 DEF SpillStates
  <2>6. v \in Seq(Entries) /\ Len(v) = ul + 1 /\ JobsOf(v) = Append(JobsOf(spill.unflushed), j)
    BY <1>t, <2>2, <2>3, <2>4, JobsOfAppend DEF ul
  <2>7. Bytes(JobsOf(v)) = u + Size[j] /\ d = Size[j] /\ dl = 1
    <3>1. JobsOf(spill.unflushed) \in Seq(Jobs) BY <1>t, EntriesIs
    <3>2. Bytes(JobsOf(v)) = u + Size[j] BY <2>2, <2>6, <3>1, BytesAppend DEF u
    <3>3. d = Size[j]
      <4> HIDE DEF j
      <4> QED BY <2>2, BytesOne DEF d
    <3> QED BY <1>j, <2>1, <3>2, <3>3
  <2> HIDE DEF v
  <2> DEFINE z == Size[j]
  <2>8. /\ order'.memoryBytes = om /\ order'.handoffBytes = oh /\ order'.handoffJobs = ol
        /\ Bytes(memory') = m /\ Bytes(writer'.taken) = t /\ Bytes(handoff') = h /\ Bytes(held') = e
        /\ Bytes(spill'.hand) = 0 /\ Bytes(JobsOf(spill'.unflushed)) = u + z
        /\ Len(handoff') = hl /\ Len(held') = el /\ Len(spill'.hand) = 0 /\ Len(spill'.unflushed) = ul + 1
        /\ d = z /\ dl = 1
    BY <2>1, <2>5, <2>6, <2>7, Empty DEF om, oh, ol, m, t, h, e, hl, el
  <2> HIDE DEF z
  <2>9. oh = h + e + 0 + (u + z) /\ ol = hl + el + 0 + (ul + 1) /\ om = m + t BY <1>n, <2>8
  <2> QED BY <2>8, <2>9 DEF Counted
<1>10. CASE SpillFlush
  <2>1. spill'.hand = spill.hand /\ spill'.unflushed = <<>>
    BY <1>10, <1>e, IdleSpillTyped DEF SpillFlush
  <2> QED BY <1>10, <1>s, <1>p, <1>flush, <2>1 DEF SpillFlush
<1>11. CASE SpillRetryDeletes BY <1>11, <1>same DEF SpillRetryDeletes, queueVars, om, oh, ol
<1>12. CASE SpillUnblock
  <2>1. order'.memoryBytes = om /\ order'.handoffBytes = oh /\ order'.handoffJobs = ol
    BY <1>12, <1>t, SetBlockedIs DEF SpillUnblock, om, oh, ol
  <2> QED BY <1>12, <1>same, <2>1 DEF SpillUnblock, spillVars
<1>13. CASE SpillFull
  <2> DEFINE w == FinishHandoff(order, 1, Bytes(spill.hand))
  <2>1. w \in OrderStates /\ w.memoryBytes = om /\ w.handoffBytes = Minus(oh, d) /\ w.handoffJobs = Minus(ol, 1)
    <3>1. d \in Nat /\ 1 \in Nat /\ w = FinishHandoff(order, 1, d) BY <1>n DEF d
    <3> HIDE DEF w
    <3> QED BY <1>t, <3>1, NoneIs, OrderOps, FinishHandoffIs DEF om, oh, ol
  <2>2. order' = SetBlocked(w, TRUE) BY <1>13 DEF SpillFull
  <2> HIDE DEF w
  <2>3. order'.memoryBytes = om /\ order'.handoffBytes = Minus(oh, d) /\ order'.handoffJobs = Minus(ol, 1)
    BY <2>1, <2>2, SetBlockedIs
  <2>4. spill'.hand = <<>> /\ spill'.unflushed = spill.unflushed
    BY <1>13, <1>t DEF SpillFull, SpillStates
  <2> QED BY <1>13, <1>drop, <2>3, <2>4 DEF SpillFull
<1>a. ASSUME NEW s, StoreOK(s), AppendFailed(s) PROVE Counted' BY <1>a, <1>p, <1>both DEF AppendFailed
<1>14. CASE SpillAppendError \/ SpillTooLarge
  <2>1. PICK s : AppendFailed(s) BY <1>14 DEF SpillAppendError, SpillTooLarge
  <2>2. s = store' BY <2>1 DEF AppendFailed
  <2> QED BY <1>a, <1>s, <2>1, <2>2
<1>15. CASE SpillSync BY <1>15, <1>same DEF SpillSync, queueVars, om, oh, ol
<1>16. CASE SpillPanic BY <1>16, <1>s, <1>p, <1>both DEF SpillPanic
<1> QED BY <1>1, <1>2, <1>3, <1>4, <1>5, <1>6, <1>7, <1>8, <1>9, <1>10, <1>11, <1>12, <1>13, <1>14,
           <1>15, <1>16 DEF SpillStep, SpillOther

LEMMA ClearCounted ==
  ASSUME Types, Counted, ClearStep PROVE Counted'
<1>1. CASE BeginClear BY <1>1 DEF BeginClear, Counted, queueVars, spillVars
<1>2. ASSUME NEW c \in Clears, CommitClear(c) PROVE Counted'
  BY <1>2 DEF CommitClear, Counted, queueVars, spillVars
<1>3. ASSUME NEW c \in Clears, AbandonClear(c) PROVE Counted'
  <2>1. /\ order' = order /\ memory' = memory /\ spill' = spill /\ writer' = writer
        /\ handoff' = IF Running \ {c} = {} THEN held \o handoff ELSE handoff
        /\ held' = IF Running = {c} THEN <<>> ELSE held
    BY <1>3 DEF AbandonClear, Requeue, spillVars
  <2>2. c \in Running BY <1>3 DEF AbandonClear, Running
  <2>3. CASE Running = {c}
    <3>1. handoff' = held \o handoff /\ held' = <<>> BY <2>1, <2>3
    <3>2. Len(handoff') = Len(held) + Len(handoff) /\ Bytes(handoff') = Bytes(held) + Bytes(handoff)
      BY <3>1, ConcatProperties, BytesConcat DEF Types
    <3>3. Len(held') = 0 /\ Bytes(held') = 0 BY <3>1, Empty
    <3> DEFINE h == Bytes(handoff)  e == Bytes(held)  d == Bytes(spill.hand)
               u == Bytes(JobsOf(spill.unflushed))
               hl == Len(handoff)  el == Len(held)  dl == Len(spill.hand)  ul == Len(spill.unflushed)
    <3>4. /\ h \in Nat /\ e \in Nat /\ d \in Nat /\ u \in Nat
          /\ hl \in Nat /\ el \in Nat /\ dl \in Nat /\ ul \in Nat
      BY Numbers
    <3>5. /\ order'.handoffBytes = h + e + d + u /\ order'.handoffJobs = hl + el + dl + ul
          /\ Bytes(handoff') = e + h /\ Len(handoff') = el + hl
          /\ Bytes(spill'.hand) = d /\ Len(spill'.hand) = dl
          /\ Bytes(JobsOf(spill'.unflushed)) = u /\ Len(spill'.unflushed) = ul
      BY <2>1, <3>2 DEF Counted
    <3> HIDE DEF h, e, d, u, hl, el, dl, ul
    <3>6. /\ h + e + d + u = (e + h) + 0 + d + u
          /\ hl + el + dl + ul = (el + hl) + 0 + dl + ul
      BY <3>4
    <3>7. order'.memoryBytes = Bytes(memory') + Bytes(writer'.taken) BY <2>1 DEF Counted
    <3> QED BY <3>3, <3>5, <3>6, <3>7 DEF Counted
  <2>4. CASE Running # {c}
    <3>1. handoff' = handoff /\ held' = held BY <2>1, <2>2, <2>4
    <3> QED BY <2>1, <3>1 DEF Counted
  <2> QED BY <2>3, <2>4
<1>4. ASSUME NEW c \in Clears, EndClear(c) PROVE Counted' BY <1>4, FinishClearCounted DEF EndClear
<1> QED BY <1>1, <1>2, <1>3, <1>4 DEF ClearStep

LEMMA TakeMemoryIs ==
  ASSUME Types, memory # <<>>
  PROVE  LET n == Smaller(Len(memory), BatchJobs)
             front == SubSeq(memory, 1, n)
             back == SubSeq(memory, n + 1, Len(memory))
         IN /\ n \in 1 .. Len(memory)
            /\ front \in Seq(Jobs) /\ back \in Seq(Jobs)
            /\ Bytes(front) + Bytes(back) = Bytes(memory)
            /\ ToSet(memory) = ToSet(front) \cup ToSet(back)
<1> DEFINE n == Smaller(Len(memory), BatchJobs)
           front == SubSeq(memory, 1, n)  back == SubSeq(memory, n + 1, Len(memory))
<1>1. memory \in Seq(Jobs) /\ Len(memory) \in Nat /\ Len(memory) # 0
  BY EmptySeq, LenProperties DEF Types
<1>2. n \in 1 .. Len(memory) BY <1>1, StoreAssumption DEF Smaller
<1>3. /\ front \in Seq(Jobs) /\ back \in Seq(Jobs) /\ memory = front \o back
  <2>1. n \in 0 .. Len(memory) BY <1>1, <1>2
  <2> HIDE DEF n
  <2> QED BY <1>1, <2>1, CutInTwo
<1> HIDE DEF n, front, back
<1>4. Bytes(memory) = Bytes(front) + Bytes(back) /\ ToSet(memory) = ToSet(front) \cup ToSet(back)
  BY <1>3, BytesConcat, ToSetConcat
<1> QED BY <1>2, <1>3, <1>4 DEF n, front, back

LEMMA WriterCounted ==
  ASSUME Types, Counted, WriterStep \/ WriterOther PROVE Counted'
<1>t. /\ order \in OrderStates /\ writer \in WriterStates /\ writer.taken \in Seq(Jobs)
      /\ Bytes(writer.taken) \in Nat /\ writer.upto \in Positions /\ inFlight.next \in Positions
      /\ inFlight.next \in Positions
  BY Numbers DEF Types, WriterTyped, WriterStates
<1>e. writer.pc # "memory" => Bytes(writer.taken) = 0
  BY Empty DEF Types, WriterTyped
(* What the writer does to the budgets: nothing, or a release of what it
   took. *)
<1>a. ASSUME /\ memory' = memory /\ handoff' = handoff /\ held' = held /\ spill' = spill
             /\ order'.memoryBytes = order.memoryBytes
             /\ order'.handoffBytes = order.handoffBytes /\ order'.handoffJobs = order.handoffJobs
             /\ Bytes(writer'.taken) = Bytes(writer.taken)
      PROVE  Counted'
  BY <1>a DEF Counted
<1>b. ASSUME /\ memory' = memory /\ handoff' = handoff /\ held' = held /\ spill' = spill
             /\ order'.memoryBytes = Minus(order.memoryBytes, Bytes(writer.taken))
             /\ order'.handoffBytes = order.handoffBytes /\ order'.handoffJobs = order.handoffJobs
             /\ Bytes(writer'.taken) = 0
      PROVE  Counted'
  <2> DEFINE m == Bytes(memory)  t == Bytes(writer.taken)  om == order.memoryBytes
  <2>1. m \in Nat /\ t \in Nat /\ om = m + t BY Numbers DEF Counted
  <2>2. order'.memoryBytes = Minus(om, t) /\ Bytes(memory') = m BY <1>b
  <2> HIDE DEF m, t, om
  <2>3. Minus(om, t) = m + 0 BY <2>1 DEF Minus
  <2>4. order'.memoryBytes = Bytes(memory') + Bytes(writer'.taken) BY <1>b, <2>2, <2>3
  <2> QED BY <1>b, <2>4 DEF Counted
<1>i. \A c, n : Bytes(IdleWriter(c, n).taken) = 0 BY Empty DEF IdleWriter
<1>1. CASE WriterTakeMemory
  <2> DEFINE n == Smaller(Len(memory), BatchJobs)
             front == SubSeq(memory, 1, n)  back == SubSeq(memory, n + 1, Len(memory))
  <2>1. /\ memory' = back /\ memory # <<>> /\ writer.pc = "idle"
        /\ order' = order /\ handoff' = handoff /\ held' = held /\ spill' = spill
        /\ writer' = [IdleWriter(Cursor, Seen) EXCEPT !.pc = "memory", !.batch = front, !.taken = front]
    BY <1>1 DEF WriterTakeMemory, WriterIdle, spillVars
  <2>2. Bytes(front) + Bytes(back) = Bytes(memory) /\ front \in Seq(Jobs) /\ back \in Seq(Jobs)
    BY <2>1, TakeMemoryIs
  <2>3. writer'.taken = front BY <2>1 DEF IdleWriter
  <2> HIDE DEF n, front, back
  <2> DEFINE f == Bytes(front)  b == Bytes(back)  m == Bytes(memory)
  <2>4. f \in Nat /\ b \in Nat /\ m = f + b /\ order'.memoryBytes = m + 0
        /\ Bytes(memory') = b /\ Bytes(writer'.taken) = f
    BY <2>1, <2>2, <2>3, <1>e, BytesNat DEF Counted
  <2> HIDE DEF f, b, m
  <2>5. order'.memoryBytes = Bytes(memory') + Bytes(writer'.taken) BY <2>4
  <2> QED BY <2>1, <2>5 DEF Counted
<1>2. CASE WriterStartRead
  <2>1. /\ order' = order /\ memory' = memory /\ handoff' = handoff /\ held' = held /\ spill' = spill
        /\ writer.pc = "idle" /\ writer'.taken = <<>>
    BY <1>2 DEF WriterStartRead, WriterIdle, queueVars, spillVars, IdleWriter
  <2> QED BY <2>1, <1>a, <1>e, Empty
<1>3. CASE DiscardRead
  <2>1. /\ order' = order /\ memory' = memory /\ handoff' = handoff /\ held' = held /\ spill' = spill
        /\ writer.pc = "reading" /\ writer' = IdleWriter(writer.cursor, writer.seen)
    BY <1>3 DEF DiscardRead, queueVars, spillVars
  <2> QED BY <2>1, <1>a, <1>e, <1>i
<1>s. ASSUME NEW p \in Positions, order' = TryResumeMemory(SetConsumed(order, p))
      PROVE  /\ order'.memoryBytes = order.memoryBytes
             /\ order'.handoffBytes = order.handoffBytes /\ order'.handoffJobs = order.handoffJobs
  <2>1. /\ SetConsumed(order, p) \in OrderStates
        /\ SetConsumed(order, p).memoryBytes = order.memoryBytes
        /\ SetConsumed(order, p).handoffBytes = order.handoffBytes
        /\ SetConsumed(order, p).handoffJobs = order.handoffJobs
    BY <1>t, OrderOps, SetConsumedIs
  <2> QED BY <1>s, <2>1, ResumeIs
<1>4. ASSUME NEW damaged, EndRead(damaged) PROVE Counted'
  <2> DEFINE read == ReadBatch(store, writer.from, writer.upto, damaged)
             jobs == [i \in DOMAIN read.records |-> read.records[i].job]
  <2>1. /\ memory' = memory /\ handoff' = handoff /\ held' = held /\ spill' = spill
        /\ writer.pc = "reading"
    BY <1>4 DEF EndRead, spillVars
  <2>2. \/ writer' = IdleWriter(read.next, writer.seen) /\ SkipTo(read.next)
        \/ /\ writer' = [IdleWriter(read.next, writer.seen) EXCEPT
                              !.pc = "disk", !.batch = jobs, !.upto = read.next]
           /\ order' = order
    BY <1>4 DEF EndRead
  <2>3. read.next \in Positions BY <2>1, <1>t, ReadBatchIs DEF Types, WriterTyped, WriterStates
  <2> HIDE DEF read, jobs
  <2>4. CASE writer' = IdleWriter(read.next, writer.seen) /\ SkipTo(read.next)
    BY <2>1, <2>3, <2>4, <1>s, <1>a, <1>e, <1>i DEF SkipTo
  <2>5. CASE /\ writer' = [IdleWriter(read.next, writer.seen) EXCEPT
                              !.pc = "disk", !.batch = jobs, !.upto = read.next]
             /\ order' = order
    <3>1. writer'.taken = <<>> BY <2>5 DEF IdleWriter
    <3> QED BY <2>1, <2>5, <3>1, <1>a, <1>e, Empty
  <2> QED BY <2>2, <2>4, <2>5
<1>5. CASE WriterResume
  <2>1. /\ order' = TryResumeMemory(order) /\ memory' = memory /\ handoff' = handoff /\ held' = held
        /\ spill' = spill /\ writer.pc = "idle" /\ writer' = IdleWriter(Cursor, Seen)
    BY <1>5 DEF WriterResume, WriterIdle, spillVars
  <2> QED BY <2>1, <1>t, <1>a, <1>e, <1>i, ResumeIs
<1>6. CASE WriterTransaction
  <2>1. /\ order' = order /\ memory' = memory /\ handoff' = handoff /\ held' = held /\ spill' = spill
        /\ writer'.taken = writer.taken
    BY <1>6, <1>t DEF WriterTransaction, queueVars, spillVars, WriterStates
  <2> QED BY <2>1, <1>a
<1>7. CASE WriterDone
  <2>1. /\ memory' = memory /\ handoff' = handoff /\ held' = held /\ spill' = spill
        /\ writer' = IdleWriter(writer.cursor, writer.seen)
    BY <1>7 DEF WriterDone, spillVars
  <2>2. CASE writer.pc = "memory"
    <3>1. order' = ReleaseMemory(order, Bytes(writer.taken)) BY <1>7, <2>2 DEF WriterDone
    <3> QED BY <2>1, <3>1, <1>t, <1>b, <1>i, ReleaseMemoryIs
  <2>3. CASE writer.pc = "disk"
    <3>1. order' = TryResumeMemory(SetConsumed(order, writer.upto)) BY <1>7, <2>3 DEF WriterDone
    <3>2. /\ order'.memoryBytes = order.memoryBytes
          /\ order'.handoffBytes = order.handoffBytes /\ order'.handoffJobs = order.handoffJobs
      BY <3>1, <1>t, <1>s
    <3> QED BY <2>1, <2>3, <3>2, <1>a, <1>e, <1>i
  <2> QED BY <1>7, <2>2, <2>3 DEF WriterDone
<1>8. CASE RespawnWriter BY <1>8 DEF RespawnWriter, Counted, queueVars, spillVars
<1>9. CASE WriterReadFails
  <2>1. /\ memory' = memory /\ handoff' = handoff /\ held' = held /\ spill' = spill
        /\ writer.pc = "reading" /\ Bytes(writer'.taken) = 0
        /\ order' = order \/ SkipTo(writer.upto)
    BY <1>9, <1>i DEF WriterReadFails, spillVars
  <2> QED BY <2>1, <1>t, <1>a, <1>e, <1>s DEF SkipTo
<1>10. CASE WriterRefresh BY <1>10 DEF WriterRefresh, Counted, queueVars, spillVars
<1>11. CASE WriterPanic
  <2> DEFINE released == ReleaseMemory(order, Bytes(writer.taken))
             skipped == SetConsumed(released, inFlight.next)
             now == IF Poisoned THEN TryResumeMemory(skipped) ELSE released
             cursor == Later(readStart, now.consumed)
  <2>1. /\ memory' = memory /\ handoff' = handoff /\ held' = held /\ spill' = spill
        /\ order' = now /\ writer' = IdleWriter(cursor, purgeSeq)
    BY <1>11 DEF WriterPanic, spillVars
  <2> HIDE DEF cursor
  <2>2. /\ released \in OrderStates /\ released.memoryBytes = Minus(order.memoryBytes, Bytes(writer.taken))
        /\ released.handoffBytes = order.handoffBytes /\ released.handoffJobs = order.handoffJobs
    BY <1>t, NoneIs, OrderOps, ReleaseMemoryIs
  <2> HIDE DEF released
  <2>3. /\ now.memoryBytes = released.memoryBytes
        /\ now.handoffBytes = released.handoffBytes /\ now.handoffJobs = released.handoffJobs
    <3>1. CASE ~Poisoned BY <3>1
    <3>2. CASE Poisoned
      <4>1. /\ skipped \in OrderStates /\ skipped.memoryBytes = released.memoryBytes
            /\ skipped.handoffBytes = released.handoffBytes /\ skipped.handoffJobs = released.handoffJobs
        BY <2>2, <1>t, NoneIs, OrderOps, SetConsumedIs
      <4> HIDE DEF skipped
      <4> QED BY <3>2, <4>1, ResumeIs
    <3> QED BY <3>1, <3>2
  <2> HIDE DEF now
  <2> QED BY <2>1, <2>2, <2>3, <1>b, <1>i
<1> QED BY <1>1, <1>2, <1>3, <1>4, <1>5, <1>6, <1>7, <1>8, <1>9, <1>10, <1>11
        DEF WriterStep, WriterOther, WriterEndRead

LEMMA RestartCounted ==
  ASSUME Types, Restart PROVE Counted'
<1>1. /\ memory' = <<>> /\ handoff' = <<>> /\ held' = <<>> /\ spill' = IdleSpill
      /\ writer' = IdleWriter(store'.start, 0)
      /\ order' = SetBlocked(NewOrder(store'.start, store'.committed), ~spillRunning)
  BY DEF Restart
<1> QED BY <1>1, Empty DEF Counted, IdleSpill, IdleWriter, SetBlocked, NewOrder

LEMMA CountedStep == Types /\ Counted /\ [Next]_vars => Counted'
<1>1. Counted /\ UNCHANGED vars => Counted' BY DEF Counted, vars, queueVars, spillVars
<1> QED BY <1>1, SubmitCounted, ClearCounted, SpillCounted, WriterCounted, RestartCounted DEF Next

(* AccountingExact: whatever fails, the budgets count exactly the jobs
   that wait, and each job's bytes are released once. *)
THEOREM AccountingIsExact == Spec => []AccountingExact
<1>1. Spec => []Types BY InitTyped, TypesStep, PTL DEF Spec
<1>2. Init => Counted BY InitCounted
<1>3. Types /\ Counted /\ [Next]_vars => Counted' BY CountedStep
<1>4. Spec => []Counted BY <1>1, <1>2, <1>3, PTL DEF Spec
<1>5. Types /\ Counted => AccountingExact BY CountedIs
<1> QED BY <1>1, <1>4, <1>5, PTL

--------------------
(* Nothing is lost: what a store keeps. *)
LEMMA KeepsItself ==
  ASSUME NEW s, StoreOK(s), Placed(s)
  PROVE  Keeps(s, s) /\ (s.active = NoSegment => Whole(s))
<1>1. s.committed \in Positions /\ s.nextId \in Nat BY DEF StoreOK
<1>2. ~Before(s.committed, s.committed) BY <1>1, NotBefore
<1>3. \A id \in Ids(s) : OnDisk(s, id) \in Nat /\ Length(s, id) \in Nat BY Lengths
<1>4. s.active = NoSegment => Whole(s) BY IdsAreNat, Lengths DEF Whole
<1> QED BY <1>1, <1>2, <1>3, <1>4 DEF Keeps

LEMMA CutKeeps ==
  ASSUME NEW s, StoreOK(s), Placed(s), s.active # NoSegment, NEW kept \in MayKeep(s),
         NEW t, StoreOK(t), Cut(s, t, kept),
         t.committed = Pos(s.nextId, 0) \/ (t.committed = Pos(s.active, kept) /\ kept = Length(s, s.active))
  PROVE  Keeps(s, t) /\ Whole(t)
<1> DEFINE a == s.active  n == s.nextId  c == s.committed
<1>1. /\ a \in Ids(s) /\ a \in Nat /\ n \in Nat /\ c.segment \in Nat /\ c.offset \in Nat /\ c \in Positions
      /\ kept \in Nat /\ s.flushed \in Nat /\ s.flushed <= kept /\ kept <= Length(s, a)
      /\ a = n - 1 /\ Length(s, a) \in Nat
  <2>1. kept \in Nat /\ kept <= Length(s, a) /\ s.flushed \in Nat /\ s.flushed <= kept /\ Length(s, a) \in Nat
    BY KeptIs, Lengths
  <2>2. a \in Ids(s) /\ a \in Nat /\ n \in Nat /\ c \in Positions /\ a = n - 1
    BY IdsAreNat DEF StoreOK, Placed
  <2> QED BY <2>1, <2>2 DEF Positions
<1>2. /\ Ids(t) = Ids(s) /\ t.nextId = n /\ t.active = NoSegment /\ t.flushed = 0 /\ t.deletes = s.deletes
      /\ \A id \in Ids(s) \ {a} : t.files[id] = s.files[id]
      /\ Len(t.files[a]) = kept /\ \A k \in 1 .. kept : t.files[a][k] = s.files[a][k]
  BY DEF Cut
<1>3. /\ \A id \in Ids(s) \ {a} : Length(t, id) = Length(s, id) /\ OnDisk(s, id) = Length(s, id)
      /\ Length(t, a) = kept /\ OnDisk(s, a) = s.flushed
      /\ \A id \in Ids(s) : OnDisk(t, id) = Length(t, id)
  BY <1>1, <1>2, IdsAreNat DEF Length, OnDisk
<1>4. /\ \A id \in Ids(s) : id \in Nat /\ id < n /\ Length(s, id) \in Nat
      /\ \A id \in Ids(s) : OnDisk(s, id) \in Nat
  BY IdsAreNat, Lengths
<1>5. /\ \A id \in Ids(s) : \A k \in 1 .. OnDisk(s, id) : ~Before(c, Pos(id, k))
      /\ ~Before(Pos(n, 0), c) /\ ~Before(Pos(a, s.flushed), c)
  BY DEF Placed
<1>6. ~Before(t.committed, c) /\ ~Before(Pos(n, 0), t.committed) /\ ~Before(t.committed, Pos(a, Length(s, a)))
      /\ t.committed \in Positions
  <2> HIDE DEF n, a, c
  <2>1. CASE t.committed = Pos(n, 0) BY <1>1, <1>5, <2>1 DEF Before, Pos, Positions
  <2>2. CASE t.committed = Pos(a, kept) /\ kept = Length(s, a)
    BY <1>1, <1>5, <2>2 DEF Before, Pos, Positions
  <2> QED BY <2>1, <2>2 DEF n, a
<1>7. \A id \in Ids(t) : \A k \in 1 .. OnDisk(t, id) : ~Before(t.committed, Pos(id, k))
  <2> SUFFICES ASSUME NEW id \in Ids(s), NEW k \in 1 .. OnDisk(t, id) PROVE ~Before(t.committed, Pos(id, k))
    BY <1>2
  <2>1. id \in Nat /\ k \in Nat BY <1>4
  <2> HIDE DEF n, c
  <2>2. CASE id # a
    <3>1. ~Before(c, Pos(id, k)) BY <1>3, <1>5, <2>2
    <3>2. Pos(id, k) \in Positions BY <2>1, PosIs
    <3> QED BY <1>1, <1>6, <3>1, <3>2, NotBefore
  <2>3. CASE id = a
    <3>1. k <= kept BY <1>1, <1>3, <2>3
    <3> HIDE DEF a
    <3>2. ~Before(Pos(a, Length(s, a)), Pos(a, k)) BY <1>1, <2>1, <3>1 DEF Before, Pos
    <3>3. Pos(a, k) \in Positions /\ Pos(a, Length(s, a)) \in Positions BY <1>1, <2>1, PosIs
    <3> QED BY <1>6, <2>3, <3>2, <3>3, NotBefore
  <2> QED BY <2>2, <2>3
<1>8. Placed(t) BY <1>2, <1>6, <1>7 DEF Placed
<1>9. \A id \in Ids(t) : \A k \in 1 .. Length(t, id) :
        id \in Ids(s) /\ k <= Length(s, id) /\ t.files[id][k] = s.files[id][k]
  <2> SUFFICES ASSUME NEW id \in Ids(s), NEW k \in 1 .. Length(t, id)
               PROVE  k <= Length(s, id) /\ t.files[id][k] = s.files[id][k]
    BY <1>2
  <2>1. CASE id = a
    <3>1. k \in 1 .. kept BY <1>3, <2>1
    <3> QED BY <1>1, <1>2, <2>1, <3>1
  <2>2. CASE id # a BY <1>2, <1>3, <1>4, <2>2
  <2> QED BY <2>1, <2>2
<1>10. \A id \in Ids(s) : OnDisk(s, id) <= OnDisk(t, id) BY <1>1, <1>3, <1>4
<1>11. Whole(t) BY <1>2, <1>3 DEF Whole
<1>12. t.active # s.active BY <1>2
<1> QED BY <1>1, <1>2, <1>6, <1>8, <1>9, <1>10, <1>11, <1>12 DEF Keeps

LEMMA CloseKeeps ==
  ASSUME NEW s, StoreOK(s), Placed(s), NEW kept \in MayKeep(s)
  PROVE  /\ Keeps(s, CloseActive(s, kept)) /\ Whole(CloseActive(s, kept))
         /\ Keeps(s, AbandonActive(s, kept)) /\ Whole(AbandonActive(s, kept))
<1> DEFINE t == CloseActive(s, kept)  u == AbandonActive(s, kept)
<1>1. CASE s.active = NoSegment
  <2>1. t = s /\ u = s BY <1>1, CloseIs, AbandonIs
  <2> HIDE DEF t, u
  <2> QED BY <1>1, <2>1, KeepsItself DEF t, u
<1>2. CASE s.active # NoSegment
  <2>1. /\ StoreOK(t) /\ Cut(s, t, kept) /\ StoreOK(u) /\ Cut(s, u, kept)
        /\ t.committed = IF kept = Length(s, s.active) THEN Later(Pos(s.active, kept), s.committed)
                         ELSE Later(Pos(s.nextId, 0), Later(Pos(s.active, kept), s.committed))
        /\ u.committed = Later(Pos(s.nextId, 0), s.committed)
    BY <1>2, CloseIs, AbandonIs
  <2> HIDE DEF t, u
  <2> DEFINE a == s.active  n == s.nextId  c == s.committed
  <2>2. /\ a \in Nat /\ n \in Nat /\ c.segment \in Nat /\ c.offset \in Nat
        /\ kept \in Nat /\ s.flushed \in Nat /\ s.flushed <= kept /\ a = n - 1
        /\ ~Before(Pos(n, 0), c) /\ ~Before(Pos(a, s.flushed), c)
    BY <1>2, KeptIs, IdsAreNat DEF StoreOK, Positions, Placed
  <2>3. /\ Later(Pos(a, kept), c) = Pos(a, kept) /\ Later(Pos(n, 0), c) = Pos(n, 0)
        /\ Later(Pos(n, 0), Pos(a, kept)) = Pos(n, 0)
    <3> HIDE DEF a, n, c
    <3> QED BY <2>2 DEF Later, Before, Pos
  <2>4. u.committed = Pos(n, 0)
        /\ (t.committed = Pos(n, 0) \/ (t.committed = Pos(a, kept) /\ kept = Length(s, a)))
    <3>u. u.committed = Pos(n, 0)
      <4>1. u.committed = Later(Pos(n, 0), c) BY <2>1
      <4> HIDE DEF n, a, c
      <4> QED BY <4>1, <2>3
    <3>1. CASE kept = Length(s, a)
      <4>1. t.committed = Later(Pos(a, kept), c) BY <2>1, <3>1
      <4> QED BY <2>3, <3>u, <3>1, <4>1
    <3>2. CASE kept # Length(s, a)
      <4>1. t.committed = Later(Pos(n, 0), Later(Pos(a, kept), c)) BY <2>1, <3>2
      <4>2. t.committed = Pos(n, 0)
        <5> HIDE DEF n, a, c
        <5>1. t.committed = Later(Pos(n, 0), Pos(a, kept)) BY <4>1, <2>3
        <5> QED BY <5>1, <2>3
      <4> QED BY <3>u, <4>2
    <3> QED BY <3>1, <3>2
  <2>5. Keeps(s, t) /\ Whole(t) BY <1>2, <2>1, <2>4, CutKeeps
  <2>6. Keeps(s, u) /\ Whole(u) BY <1>2, <2>1, <2>4, CutKeeps
  <2> QED BY <2>5, <2>6 DEF t, u
<1> QED BY <1>1, <1>2

LEMMA RollKeeps ==
  ASSUME NEW s, StoreOK(s), Placed(s), NEW kept \in MayKeep(s)
  PROVE  Keeps(s, Roll(s, kept)) /\ Whole(Roll(s, kept))
<1> DEFINE u == CloseActive(s, kept)  t == Roll(s, kept)
<1>1. /\ StoreOK(t) /\ t.committed = Later(u.committed, Pos(u.nextId, 0)) /\ t.files = u.files
      /\ t.active = NoSegment /\ t.flushed = 0 /\ t.nextId = u.nextId /\ t.deletes = u.deletes
      /\ u.nextId = s.nextId
  BY RollIs
<1>2. Keeps(s, u) /\ Whole(u) /\ StoreOK(u) /\ u.active = NoSegment BY CloseKeeps, CloseIs
<1> HIDE DEF t, u
<1>3. /\ Ids(t) = Ids(u) /\ \A id : Length(t, id) = Length(u, id) /\ OnDisk(t, id) = OnDisk(u, id)
  BY <1>1, <1>2, NoneActive DEF Ids, Length, OnDisk
<1>4. u.committed \in Positions /\ t.committed \in Positions /\ s.committed \in Positions
      /\ u.nextId \in Nat /\ Pos(u.nextId, 0) \in Positions
  <2>1. u.committed \in Positions /\ t.committed \in Positions /\ s.committed \in Positions /\ u.nextId \in Nat
    BY <1>1, <1>2 DEF StoreOK
  <2> QED BY <2>1, PosIs
<1>5. t.committed = Pos(u.nextId, 0) /\ ~Before(t.committed, u.committed)
  <2>1. ~Before(Pos(u.nextId, 0), u.committed) BY <1>2 DEF Keeps, Placed
  <2>2. Later(u.committed, Pos(u.nextId, 0)) = Pos(u.nextId, 0)
    <3> DEFINE c == u.committed  n == u.nextId
    <3>1. c \in [segment : Nat, offset : Nat] /\ n \in Nat /\ ~Before(Pos(n, 0), c)
      BY <1>4, <2>1 DEF Positions
    <3> HIDE DEF c, n
    <3>2. Later(c, Pos(n, 0)) = Pos(n, 0) BY <3>1 DEF Later, Before, Pos
    <3> QED BY <3>2 DEF c, n
  <2> QED BY <1>1, <2>1, <2>2
<1>6. \A id \in Ids(u) : \A k \in 1 .. OnDisk(u, id) : ~Before(t.committed, Pos(id, k))
  <2> SUFFICES ASSUME NEW id \in Ids(u), NEW k \in 1 .. OnDisk(u, id) PROVE ~Before(t.committed, Pos(id, k))
    OBVIOUS
  <2>1. ~Before(u.committed, Pos(id, k)) /\ Pos(id, k) \in Positions
    BY <1>2, PosIs, IdsAreNat, Lengths DEF Keeps, Placed
  <2> QED BY <1>4, <1>5, <2>1, NotBefore
<1>7. ~Before(Pos(t.nextId, 0), t.committed) BY <1>1, <1>4, <1>5, NotBefore
<1>8. Placed(t) BY <1>1, <1>3, <1>6, <1>7 DEF Placed
<1>9. ~Before(t.committed, s.committed) BY <1>2, <1>4, <1>5, NotBefore DEF Keeps
<1>10. s.active # NoSegment => ~Before(t.committed, Pos(s.active, Length(s, s.active)))
  <2>1. s.active # NoSegment => ~Before(u.committed, Pos(s.active, Length(s, s.active)))
    BY <1>2 DEF Keeps
  <2>2. Pos(s.active, Length(s, s.active)) \in Positions BY PosIs, IdsAreNat, Lengths
  <2> QED BY <1>4, <1>5, <2>1, <2>2, NotBefore
<1>11. Whole(t) BY <1>2, <1>3 DEF Whole
<1>12. /\ Ids(s) \subseteq Ids(t) /\ s.nextId <= t.nextId /\ t.deletes = s.deletes
       /\ \A id \in Ids(t) : \A k \in 1 .. Length(t, id) :
             id \in Ids(s) /\ k <= Length(s, id) /\ t.files[id][k] = s.files[id][k]
       /\ \A id \in Ids(s) : OnDisk(s, id) <= OnDisk(t, id)
  BY <1>1, <1>2, <1>3 DEF Keeps
<1>13. t.active = s.active => Length(t, t.active) = Length(s, s.active) BY <1>1, <1>2, <1>3 DEF Keeps
<1> QED BY <1>1, <1>8, <1>9, <1>10, <1>11, <1>12, <1>13 DEF Keeps, t

LEMMA FlushKeeps ==
  ASSUME NEW s, StoreOK(s), Placed(s)
  PROVE  Keeps(s, Flush(s)) /\ Whole(Flush(s))
<1> DEFINE t == Flush(s)
<1>1. CASE s.active = NoSegment BY <1>1, KeepsItself DEF Flush
<1>2. CASE s.active # NoSegment
  <2> DEFINE a == s.active  n == s.nextId  c == s.committed  l == Length(s, s.active)
  <2>1. /\ StoreOK(t) /\ t.files = s.files /\ t.active = a /\ t.nextId = n
        /\ t.deletes = s.deletes /\ t.flushed = l /\ t.committed = Pos(a, l)
    BY <1>2, FlushedIs DEF WritePosition
  <2> HIDE DEF t
  <2>2. /\ Ids(t) = Ids(s) /\ \A id : Length(t, id) = Length(s, id)
        /\ \A id : OnDisk(t, id) = Length(s, id)
    BY <2>1 DEF Ids, Length, OnDisk
  <2>3. /\ a \in Nat /\ n \in Nat /\ c \in Positions /\ s.flushed \in Nat /\ l \in Nat /\ s.flushed <= l
        /\ a = n - 1 /\ ~Before(Pos(n, 0), c) /\ ~Before(Pos(a, s.flushed), c)
    BY <1>2, IdsAreNat, Lengths DEF StoreOK, Placed
  <2>4. ~Before(t.committed, c) /\ ~Before(Pos(n, 0), t.committed) /\ ~Before(t.committed, Pos(a, l))
        /\ t.committed \in Positions
    <3> HIDE DEF a, n, c, l
    <3> QED BY <2>1, <2>3 DEF Before, Pos, Positions
  <2>5. \A id \in Ids(s) : \A k \in 1 .. Length(s, id) : ~Before(t.committed, Pos(id, k))
    <3> SUFFICES ASSUME NEW id \in Ids(s), NEW k \in 1 .. Length(s, id) PROVE ~Before(t.committed, Pos(id, k))
      OBVIOUS
    <3>1. Pos(id, k) \in Positions /\ id \in Nat /\ k \in Nat BY IdsAreNat, Lengths, PosIs
    <3>2. CASE id = a
      <4>1. k <= l BY <2>3, <3>2
      <4> HIDE DEF a, n, c, l
      <4> QED BY <2>1, <2>3, <3>1, <3>2, <4>1 DEF Before, Pos
    <3>3. CASE id # a
      <4>1. ~Before(c, Pos(id, k)) BY <3>3, Lengths DEF Placed
      <4> QED BY <2>3, <2>4, <3>1, <4>1, NotBefore
    <3> QED BY <3>2, <3>3
  <2>6. Placed(t)
    <3>1. t.active = t.nextId - 1 /\ ~Before(Pos(t.active, t.flushed), t.committed) /\ t.committed = Pos(t.active, t.flushed)
      BY <2>1, <2>3, <2>4, NotBefore
    <3> QED BY <2>1, <2>2, <2>4, <2>5, <3>1 DEF Placed
  <2>7. Whole(t) BY <2>2 DEF Whole
  <2>8. \A id \in Ids(s) : OnDisk(s, id) <= OnDisk(t, id) /\ Length(s, id) \in Nat BY <2>2, Lengths
  <2> QED BY <1>2, <2>1, <2>2, <2>3, <2>4, <2>6, <2>7, <2>8 DEF Keeps, t
<1> QED BY <1>1, <1>2

LEMMA OpenedKeeps ==
  ASSUME NEW s, StoreOK(s), Placed(s), s.active = NoSegment
  PROVE  Keeps(s, Opened(s))
<1> DEFINE t == Opened(s)  n == s.nextId  c == s.committed
<1>1. /\ StoreOK(t) /\ t.active = n /\ t.nextId = n + 1 /\ t.flushed = 0
      /\ t.committed = c /\ t.deletes = s.deletes /\ Ids(t) = Ids(s) \cup {n}
      /\ n \notin Ids(s) /\ t.files[n] = <<>>
      /\ \A id \in Ids(s) : t.files[id] = s.files[id]
  BY OpenedIs
<1> HIDE DEF t
<1>2. /\ \A id \in Ids(s) : Length(t, id) = Length(s, id) /\ OnDisk(t, id) = OnDisk(s, id)
      /\ Length(t, n) = 0 /\ OnDisk(t, n) = 0
  BY <1>1, IdsAreNat DEF Length, OnDisk
<1>3. /\ n \in Nat /\ c \in Positions /\ ~Before(Pos(n, 0), c) /\ n # NoSegment
  BY DEF StoreOK, Placed, NoSegment
<1>4. ~Before(Pos(n + 1, 0), c) /\ ~Before(c, c)
  <2> HIDE DEF n, c
  <2> QED BY <1>3 DEF Before, Pos, Positions
<1>5. \A id \in Ids(t) : \A k \in 1 .. OnDisk(t, id) : ~Before(c, Pos(id, k)) BY <1>1, <1>2 DEF Placed
<1>6. Placed(t) BY <1>1, <1>3, <1>4, <1>5 DEF Placed
<1>7. \A id \in Ids(s) : OnDisk(s, id) <= OnDisk(t, id) /\ Length(s, id) \in Nat BY <1>2, Lengths
<1>8. \A id \in Ids(t) : \A k \in 1 .. Length(t, id) :
        id \in Ids(s) /\ k <= Length(s, id) /\ t.files[id][k] = s.files[id][k]
  BY <1>1, <1>2, <1>7
<1> QED BY <1>1, <1>3, <1>4, <1>6, <1>7, <1>8 DEF Keeps, t

LEMMA KeepsBoth ==
  ASSUME NEW s, NEW u, NEW t, StoreOK(s), StoreOK(u), StoreOK(t), Keeps(s, u), Keeps(u, t)
  PROVE  Keeps(s, t)
<1>1. /\ s.nextId \in Nat /\ u.nextId \in Nat /\ t.nextId \in Nat
      /\ s.active \in Nat /\ u.active \in Nat /\ t.active \in Nat
      /\ s.committed \in Positions /\ u.committed \in Positions /\ t.committed \in Positions
      /\ Length(s, s.active) \in Nat /\ s.active < s.nextId
  <2>1. s.active < s.nextId BY DEF StoreOK, NoSegment
  <2> QED BY <2>1, IdsAreNat, Lengths DEF StoreOK
<1>2. /\ Placed(t) /\ Ids(s) \subseteq Ids(t) /\ s.nextId <= t.nextId /\ t.deletes = s.deletes
  BY <1>1 DEF Keeps
<1>3. ~Before(t.committed, s.committed) BY <1>1, NotBefore DEF Keeps
<1>4. \A id \in Ids(t) : \A k \in 1 .. Length(t, id) :
        id \in Ids(s) /\ k <= Length(s, id) /\ t.files[id][k] = s.files[id][k]
  BY Lengths DEF Keeps
<1>5. \A id \in Ids(s) : OnDisk(s, id) <= OnDisk(t, id)
  <2> SUFFICES ASSUME NEW id \in Ids(s) PROVE OnDisk(s, id) <= OnDisk(t, id) OBVIOUS
  <2>1. OnDisk(s, id) \in Nat /\ OnDisk(u, id) \in Nat /\ OnDisk(t, id) \in Nat BY Lengths
  <2>2. OnDisk(s, id) <= OnDisk(u, id) /\ OnDisk(u, id) <= OnDisk(t, id) BY DEF Keeps
  <2> QED BY <2>1, <2>2
<1>6. /\ u.active \in {s.active, NoSegment} \/ u.active >= s.nextId
      /\ t.active \in {u.active, NoSegment} \/ t.active >= u.nextId
      /\ s.nextId <= u.nextId
  BY DEF Keeps
<1>7. t.active \in {s.active, NoSegment} \/ t.active >= s.nextId BY <1>1, <1>6
<1>8. t.active = s.active => Length(t, t.active) = Length(s, s.active)
  <2>1. CASE s.active = NoSegment
    <3>1. \A r : StoreOK(r) /\ r.active = NoSegment => Length(r, r.active) = 0 BY NoneActive
    <3> QED BY <2>1, <3>1
  <2>2. CASE s.active # NoSegment /\ t.active = s.active
    <3>1. u.active = s.active BY <1>1, <1>6, <2>2 DEF NoSegment
    <3> QED BY <2>2, <3>1 DEF Keeps
  <2> QED BY <2>1, <2>2
<1>9. s.active # NoSegment /\ t.active # s.active =>
       ~Before(t.committed, Pos(s.active, Length(s, s.active)))
  <2> SUFFICES ASSUME s.active # NoSegment, t.active # s.active
               PROVE  ~Before(t.committed, Pos(s.active, Length(s, s.active))) OBVIOUS
  <2>1. Pos(s.active, Length(s, s.active)) \in Positions BY <1>1, PosIs
  <2>2. CASE u.active = s.active BY <2>2 DEF Keeps
  <2>3. CASE u.active # s.active
    <3>1. ~Before(u.committed, Pos(s.active, Length(s, s.active))) /\ ~Before(t.committed, u.committed)
      BY <2>3 DEF Keeps
    <3> QED BY <1>1, <2>1, <3>1, NotBefore
  <2> QED BY <2>2, <2>3
<1> QED BY <1>2, <1>3, <1>4, <1>5, <1>7, <1>8, <1>9 DEF Keeps

LEMMA ReadyKeeps ==
  ASSUME NEW s, StoreOK(s), Placed(s)
  PROVE  Keeps(s, ReadyToAppend(s))
<1> DEFINE u == BeforeOpening(s)  t == ReadyToAppend(s)
<1>1. /\ StoreOK(u) /\ StoreOK(t) /\ t = IF u.active = NoSegment THEN Opened(u) ELSE u BY ReadyIs
<1>2. Keeps(s, u) BY EverythingKept, CloseKeeps, KeepsItself DEF BeforeOpening
<1> HIDE DEF u, t
<1>3. Keeps(u, t) BY <1>1, <1>2, OpenedKeeps, KeepsItself DEF Keeps
<1>4. Keeps(s, t) BY <1>1, <1>2, <1>3, KeepsBoth
<1> QED BY <1>4 DEF t

(* ... and what of the invariant it keeps with it. *)
LEMMA NewlyOnDisk ==
  ASSUME NEW s, NEW t, StoreOK(s), StoreOK(t), Placed(s), Keeps(s, t),
         NEW id \in Ids(t), NEW k \in 1 .. OnDisk(t, id)
  PROVE  /\ id \in Ids(s) /\ k \in 1 .. Length(s, id) /\ t.files[id][k] = s.files[id][k]
         /\ k \in 1 .. OnDisk(s, id) \/ Before(s.committed, Pos(id, k))
<1>1. k \in 1 .. Length(t, id) /\ k \in Nat BY Lengths
<1>2. id \in Ids(s) /\ k \in 1 .. Length(s, id) /\ t.files[id][k] = s.files[id][k]
  BY <1>1, Lengths DEF Keeps
<1>3. OnDisk(s, id) \in Nat /\ (id # s.active => OnDisk(s, id) = Length(s, id)) /\ id \in Nat
  BY <1>2, Lengths, IdsAreNat
<1>4. CASE k > OnDisk(s, id)
  <2>1. id = s.active /\ OnDisk(s, id) = s.flushed /\ s.active # NoSegment
    BY <1>2, <1>3, <1>4, IdsAreNat DEF OnDisk
  <2>2. ~Before(Pos(id, s.flushed), s.committed) /\ s.committed \in Positions /\ s.flushed \in Nat /\ s.flushed < k
    BY <1>3, <1>4, <2>1 DEF Placed, StoreOK
  <2>3. Before(Pos(id, s.flushed), Pos(id, k)) BY <1>1, <1>3, <2>2 DEF Before, Pos
  <2>4. Pos(id, k) \in Positions /\ Pos(id, s.flushed) \in Positions BY <1>1, <1>3, <2>2, PosIs
  <2> QED BY <1>2, <2>2, <2>3, <2>4, NotBefore
<1> QED BY <1>1, <1>2, <1>3, <1>4

LEMMA KeepsNumbered ==
  ASSUME NEW s, NEW t, Keeps(s, t), StoreOK(s), StoreOK(t), NEW n, Numbered(s, n)
  PROVE  Numbered(t, n)
BY Lengths DEF Keeps, Numbered

LEMMA KeepsClean ==
  ASSUME NEW s, NEW t, Keeps(s, t), StoreOK(s), StoreOK(t), NEW from, NEW n, Clean(s, from, n)
  PROVE  Clean(t, from, n)
<1> SUFFICES ASSUME NEW id \in t.deletes, NEW k \in 1 .. Length(t, id)
             PROVE  ~Before(from, Pos(id, k)) \/ id < n
  BY DEF Clean
<1>1. id \in s.deletes /\ id \in Ids(t) BY DEF Keeps, StoreOK
<1>2. k \in 1 .. Length(s, id) BY <1>1, Lengths DEF Keeps
<1> QED BY <1>1, <1>2 DEF Clean

LEMMA KeepsSeparates ==
  ASSUME NEW s, NEW t, Keeps(s, t), StoreOK(s), StoreOK(t), NEW u, NEW p \in Positions, Separates(s, u, p)
  PROVE  Separates(t, u, p)
<1>1. s.nextId \in Nat /\ t.nextId \in Nat /\ t.active \in Nat /\ p.segment \in Nat
  BY IdsAreNat DEF StoreOK, Positions
<1>2. s.nextId <= t.nextId /\ (t.active \in {s.active, NoSegment} \/ t.active >= s.nextId)
  BY DEF Keeps
<1>3. p.segment <= s.nextId /\ (s.active # NoSegment => p.segment <= s.active) BY DEF Separates
<1>4. p.segment <= t.nextId /\ (t.active # NoSegment => p.segment <= t.active) BY <1>1, <1>2, <1>3
<1> QED BY <1>4 DEF Separates

LEMMA KeepsRemembered ==
  ASSUME NEW s, NEW t, Keeps(s, t), StoreOK(s), StoreOK(t), NEW e \in Entries, NEW c, Remembered(s, c, e)
  PROVE  Remembered(t, c, e)
<1> DEFINE id == e.end.segment  k == e.end.offset
<1>1. /\ id \in Ids(s) \ s.deletes /\ k > 0 /\ Before(c, e.end)
      /\ k <= Length(s, id) => s.files[id][k] = e.job
      /\ id = s.active => k <= Length(s, id)
      /\ id # s.active => ~Before(s.committed, e.end)
  BY DEF Remembered
<1>2. e.end \in Positions /\ e.end = Pos(id, k) /\ id \in Nat /\ k \in Nat
  BY DEF Entries, Positions, Pos
<1>3. id \in Ids(t) \ t.deletes BY <1>1 DEF Keeps
<1>4. k <= Length(t, id) => t.files[id][k] = e.job
  <2> SUFFICES ASSUME k <= Length(t, id) PROVE t.files[id][k] = e.job OBVIOUS
  <2> HIDE DEF id, k
  <2>1. Length(t, id) \in Nat /\ k \in 1 .. Length(t, id) BY <1>1, <1>2, Lengths
  <2>2. k <= Length(s, id) /\ t.files[id][k] = s.files[id][k] BY <1>3, <2>1 DEF Keeps
  <2> QED BY <1>1, <2>2
<1>5. s.nextId \in Nat /\ id < s.nextId /\ id # NoSegment BY <1>1, IdsAreNat DEF StoreOK
<1>6. id = t.active => k <= Length(t, id)
  <2> SUFFICES ASSUME id = t.active PROVE k <= Length(t, id) OBVIOUS
  <2>1. t.active = s.active BY <1>2, <1>5 DEF Keeps
  <2> QED BY <1>1, <2>1 DEF Keeps
<1>7. id # t.active => ~Before(t.committed, e.end)
  <2> SUFFICES ASSUME id # t.active PROVE ~Before(t.committed, e.end) OBVIOUS
  <2>1. s.committed \in Positions /\ t.committed \in Positions /\ ~Before(t.committed, s.committed)
    BY DEF StoreOK, Keeps
  <2>2. CASE id # s.active
    <3>1. ~Before(s.committed, e.end) BY <1>1, <2>2
    <3> HIDE DEF id, k
    <3> QED BY <1>2, <2>1, <3>1, NotBefore
  <2>3. CASE id = s.active
    <3> DEFINE l == Length(s, s.active)
    <3>1. ~Before(t.committed, Pos(id, l)) /\ k <= l /\ l \in Nat
      BY <1>1, <1>5, <2>3, Lengths DEF Keeps
    <3> HIDE DEF l, id, k
    <3>2. ~Before(Pos(id, l), Pos(id, k)) /\ Pos(id, l) \in Positions
      BY <1>2, <3>1, PosIs DEF Before, Pos
    <3> QED BY <1>2, <2>1, <3>1, <3>2, NotBefore
  <2> QED BY <2>2, <2>3
<1> QED BY <1>1, <1>3, <1>4, <1>6, <1>7 DEF Remembered

LEMMA KeepsNoted ==
  ASSUME NEW s, NEW t, Keeps(s, t), StoreOK(s), StoreOK(t), NEW u \in Seq(Entries), NEW c, Noted(s, u, c)
  PROVE  Noted(t, u, c)
<1>1. \A i \in 1 .. Len(u) : u[i] \in Entries /\ Remembered(s, c, u[i]) BY EntriesIs DEF Noted
<1>2. \A i \in 1 .. Len(u) : Remembered(t, c, u[i]) BY <1>1, KeepsRemembered
<1>3. ASSUME NEW id \in Ids(t), NEW k \in 1 .. Length(t, id), Before(c, Pos(id, k))
      PROVE  \E i \in 1 .. Len(u) : u[i].end = Pos(id, k)
  <2>1. id \in Ids(s) /\ k \in 1 .. Length(s, id) BY Lengths DEF Keeps
  <2> QED BY <1>3, <2>1 DEF Noted
<1> QED BY <1>2, <1>3 DEF Noted

LEMMA KeepsBeyond ==
  ASSUME NEW s, NEW t, Keeps(s, t), StoreOK(s), StoreOK(t), NEW from, NothingBeyond(s, from)
  PROVE  NothingBeyond(t, from)
BY Lengths DEF Keeps, NothingBeyond

LEMMA KeepsStream ==
  ASSUME NEW s, NEW t, StoreOK(s), StoreOK(t), Placed(s), Keeps(s, t), NEW from \in Positions
  PROVE  /\ \A upto \in Positions : ~Before(s.committed, upto) =>
              /\ Between(t, from, upto) \subseteq Between(s, from, upto)
              /\ NothingBetween(s, from, upto) => NothingBetween(t, from, upto)
         /\ Beyond(s, from) \subseteq Beyond(t, from)
<1>0. /\ \A id \in Ids(t) : \A k \in 1 .. OnDisk(t, id) :
           /\ id \in Ids(s) /\ t.files[id][k] = s.files[id][k]
           /\ k \in 1 .. OnDisk(s, id) \/ Before(s.committed, Pos(id, k))
           /\ Pos(id, k) \in Positions
      /\ s.committed \in Positions
  <2>1. \A id \in Ids(t) : \A k \in 1 .. OnDisk(t, id) : Pos(id, k) \in Positions
    BY IdsAreNat, Lengths, PosIs
  <2>2. \A id \in Ids(t) : \A k \in 1 .. OnDisk(t, id) :
          /\ id \in Ids(s) /\ t.files[id][k] = s.files[id][k]
          /\ k \in 1 .. OnDisk(s, id) \/ Before(s.committed, Pos(id, k))
    <3> SUFFICES ASSUME NEW id \in Ids(t), NEW k \in 1 .. OnDisk(t, id)
                 PROVE  /\ id \in Ids(s) /\ t.files[id][k] = s.files[id][k]
                        /\ k \in 1 .. OnDisk(s, id) \/ Before(s.committed, Pos(id, k)) OBVIOUS
    <3> QED BY NewlyOnDisk
  <2> QED BY <2>1, <2>2 DEF StoreOK
<1>1. ASSUME NEW upto \in Positions, ~Before(s.committed, upto)
      PROVE  Between(t, from, upto) \subseteq Between(s, from, upto)
  <2> SUFFICES ASSUME NEW j \in Between(t, from, upto) PROVE j \in Between(s, from, upto) OBVIOUS
  <2>0. PICK id \in Ids(t) : \E k \in 1 .. OnDisk(t, id) :
          j = t.files[id][k] /\ Before(from, Pos(id, k)) /\ ~Before(upto, Pos(id, k))
    BY DEF Between
  <2>1. PICK k \in 1 .. OnDisk(t, id) :
          j = t.files[id][k] /\ Before(from, Pos(id, k)) /\ ~Before(upto, Pos(id, k))
    BY <2>0
  <2>2. ~Before(s.committed, Pos(id, k)) BY <1>0, <1>1, <2>1, NotBefore
  <2>3. id \in Ids(s) /\ k \in 1 .. OnDisk(s, id) /\ j = s.files[id][k] BY <1>0, <2>1, <2>2
  <2> QED BY <2>1, <2>3 DEF Between
<1>2. ASSUME NEW upto \in Positions, ~Before(s.committed, upto), NothingBetween(s, from, upto)
      PROVE  NothingBetween(t, from, upto)
  <2> SUFFICES ASSUME NEW id \in Ids(t), NEW k \in 1 .. OnDisk(t, id),
                      Before(from, Pos(id, k)), ~Before(upto, Pos(id, k))
               PROVE  FALSE
    BY DEF NothingBetween
  <2>2. ~Before(s.committed, Pos(id, k)) BY <1>0, <1>2, NotBefore
  <2>3. id \in Ids(s) /\ k \in 1 .. OnDisk(s, id) BY <1>0, <2>2
  <2> QED BY <1>2, <2>3 DEF NothingBetween
<1>3. ASSUME NEW j \in Beyond(s, from) PROVE j \in Beyond(t, from)
  <2>0. PICK id \in Ids(s) : \E k \in 1 .. OnDisk(s, id) :
          j = s.files[id][k] /\ Before(from, Pos(id, k)) /\ j \in Jobs
    BY <1>3 DEF Beyond, Between
  <2>1. PICK k \in 1 .. OnDisk(s, id) :
          j = s.files[id][k] /\ Before(from, Pos(id, k)) /\ j \in Jobs
    BY <2>0
  <2>2. id \in Ids(t) /\ OnDisk(s, id) <= OnDisk(t, id) /\ k \in Nat /\ OnDisk(s, id) \in Nat
        /\ OnDisk(t, id) \in Nat /\ OnDisk(t, id) <= Length(t, id) /\ Length(t, id) \in Nat
        /\ id < t.nextId /\ id \in Nat /\ t.nextId \in Nat
    <3>1. id \in Ids(t) /\ OnDisk(s, id) <= OnDisk(t, id) BY DEF Keeps
    <3>2. /\ k \in Nat /\ OnDisk(s, id) \in Nat
          /\ OnDisk(t, id) \in Nat /\ OnDisk(t, id) <= Length(t, id) /\ Length(t, id) \in Nat
      BY Lengths
    <3>3. id < t.nextId /\ id \in Nat /\ t.nextId \in Nat BY <3>1, IdsAreNat DEF StoreOK
    <3> QED BY <3>1, <3>2, <3>3
  <2>3. k \in 1 .. OnDisk(t, id) /\ k \in 1 .. Length(t, id) BY <2>2
  <2>4. j = t.files[id][k] BY <2>1, <2>2, <2>3 DEF Keeps
  <2>5. ~Before(Pos(t.nextId, 0), Pos(id, k)) BY <2>2 DEF Before, Pos
  <2> QED BY <2>1, <2>2, <2>3, <2>4, <2>5 DEF Beyond, Between
<1> QED BY <1>1, <1>2, <1>3

(* Closing or flushing puts what the spill thread remembers where the
   stream finds it, except what got lost. *)
LEMMA FoundOrLost ==
  ASSUME NEW t, StoreOK(t), Whole(t), NEW u \in Seq(Entries), NEW c \in Positions, Noted(t, u, c),
         NEW from \in Positions, ~Before(c, from), NEW j \in ToSet(JobsOf(u)), j \notin Lost(t, u)
  PROVE  j \in Beyond(t, from)
<1>0. JobsOf(u) \in Seq(Jobs) /\ Len(JobsOf(u)) = Len(u)
      /\ \A i \in 1 .. Len(u) : JobsOf(u)[i] = u[i].job /\ u[i] \in Entries
  BY EntriesIs
<1>1. PICK i \in 1 .. Len(u) : j = u[i].job BY <1>0, InToSet
<1> DEFINE e == u[i]  id == e.end.segment  k == e.end.offset
<1>2. e \in Entries /\ Remembered(t, c, e) /\ DOMAIN u = 1 .. Len(u) BY <1>0, LenProperties DEF Noted
<1>3. Survives(t, e.end) BY <1>1, <1>2 DEF Lost
<1>4. /\ id \in Ids(t) /\ k > 0 /\ Before(c, e.end)
      /\ k <= Length(t, id) => t.files[id][k] = e.job
  BY <1>2 DEF Remembered
<1>5. Length(t, id) >= k BY <1>3, <1>4 DEF Survives
<1>6. e.end \in Positions /\ e.end = Pos(id, k) /\ id \in Nat /\ k \in Nat /\ e.job \in Jobs
  BY <1>2 DEF Entries, Positions, Pos
<1> HIDE DEF e, id, k
<1>7. id < t.nextId /\ t.nextId \in Nat /\ OnDisk(t, id) = Length(t, id) /\ Length(t, id) \in Nat
  BY <1>4, IdsAreNat, Lengths DEF Whole, StoreOK
<1>8. k \in 1 .. OnDisk(t, id) /\ t.files[id][k] = j BY <1>1, <1>4, <1>5, <1>6, <1>7 DEF e
<1>9. Before(from, Pos(id, k)) BY <1>4, <1>6, NotBefore
<1>10. ~Before(Pos(t.nextId, 0), Pos(id, k)) BY <1>6, <1>7 DEF Before, Pos
<1> QED BY <1>1, <1>4, <1>6, <1>8, <1>9, <1>10 DEF Beyond, Between, e

LEMMA NothingUnpublished ==
  ASSUME NEW t, StoreOK(t), Whole(t), Placed(t)
  PROVE  Noted(t, <<>>, t.committed)
BY Lengths DEF Whole, Placed, Noted

(* A record more in the active segment, in the buffer only. *)
LEMMA AppendedKeeps ==
  ASSUME NEW r, StoreOK(r), Placed(r), r.active # NoSegment, NEW j \in Jobs, NEW t, t = Appended(r, j),
         NEW c \in Positions, ~Before(r.committed, c),
         NEW u \in Seq(Entries), Noted(r, u, c), NEW e, e = [job |-> j, end |-> WritePosition(t)]
  PROVE  /\ StoreOK(t) /\ Placed(t) /\ t.active = r.active /\ t.nextId = r.nextId
         /\ t.committed = r.committed /\ e \in Entries /\ e.end.segment = t.active
         /\ Noted(t, Append(u, e), c)
         /\ \A n : Numbered(r, n) /\ j <= n => Numbered(t, n)
         /\ \A from, n : Clean(r, from, n) => Clean(t, from, n)
         /\ \A from, upto : /\ Between(t, from, upto) = Between(r, from, upto)
                            /\ NothingBetween(r, from, upto) => NothingBetween(t, from, upto)
<1> DEFINE a == r.active  l == Length(r, r.active)
<1>1. /\ StoreOK(t) /\ t.active = a /\ t.nextId = r.nextId /\ t.flushed = r.flushed
      /\ t.committed = r.committed /\ t.deletes = r.deletes /\ Ids(t) = Ids(r)
      /\ \A id \in Ids(r) \ {a} : t.files[id] = r.files[id]
      /\ Length(t, a) = l + 1 /\ t.files[a][l + 1] = j
      /\ \A k \in 1 .. l : t.files[a][k] = r.files[a][k]
  <2>1. t = Appended(r, j) OBVIOUS
  <2> QED BY <2>1, AppendedIs
<1>2. /\ \A id \in Ids(r) \ {a} : Length(t, id) = Length(r, id)
      /\ \A id \in Ids(r) : OnDisk(t, id) = OnDisk(r, id)
  BY <1>1 DEF Length, OnDisk
<1>3. /\ a \in Ids(r) /\ a \in Nat /\ l \in Nat /\ r.flushed \in Nat /\ r.flushed <= l /\ r.committed \in Positions
      /\ a \notin r.deletes
  <2>1. a \in Ids(r) /\ r.committed \in Positions /\ a \notin r.deletes /\ r.flushed \in 0 .. l
    BY DEF StoreOK
  <2>2. a \in Nat BY IdsAreNat
  <2>3. l \in Nat BY Lengths
  <2> HIDE DEF a, l
  <2> QED BY <2>1, <2>2, <2>3
<1>4. /\ \A id \in Ids(r) : \A k \in 1 .. OnDisk(r, id) : k \in 1 .. Length(r, id) /\ t.files[id][k] = r.files[id][k]
  <2> SUFFICES ASSUME NEW id \in Ids(r), NEW k \in 1 .. OnDisk(r, id)
               PROVE  k \in 1 .. Length(r, id) /\ t.files[id][k] = r.files[id][k] OBVIOUS
  <2>1. k \in 1 .. Length(r, id) BY Lengths
  <2> QED BY <1>1, <2>1
<1>5. Placed(t) BY <1>1, <1>2 DEF Placed
<1>6. WritePosition(t) = Pos(a, l + 1) /\ Pos(a, l + 1) \in Positions
  BY <1>1, <1>3, PosIs DEF WritePosition
<1>7. e \in Entries /\ e.end = Pos(a, l + 1) /\ e.end.segment = a /\ e.end.offset = l + 1 /\ e.job = j
  BY <1>3, <1>6, PosIs DEF Entries
<1>8. Before(c, Pos(a, l + 1))
  <2>1. ~Before(Pos(a, r.flushed), r.committed) BY DEF Placed
  <2>2. Before(Pos(a, r.flushed), Pos(a, l + 1)) /\ Pos(a, r.flushed) \in Positions
    <3> HIDE DEF a, l
    <3> QED BY <1>3, PosIs DEF Before, Pos
  <2>3. Before(r.committed, Pos(a, l + 1)) BY <1>3, <1>6, <2>1, <2>2, NotBefore
  <2> QED BY <1>3, <1>6, <2>3, NotBefore
<1>9. Remembered(t, c, e) BY <1>1, <1>3, <1>7, <1>8 DEF Remembered
<1>10. ASSUME NEW f \in Entries, Remembered(r, c, f) PROVE Remembered(t, c, f)
  <2> DEFINE id == f.end.segment  k == f.end.offset
  <2>1. /\ id \in Ids(r) \ r.deletes /\ k > 0 /\ Before(c, f.end)
        /\ k <= Length(r, id) => r.files[id][k] = f.job
        /\ id = a => k <= Length(r, id)
        /\ id # a => ~Before(r.committed, f.end)
    BY <1>10 DEF Remembered
  <2>2. k \in Nat BY DEF Entries, Positions
  <2> HIDE DEF id, k
  <2>3. CASE id = a
    <3>1. k \in 1 .. l /\ k <= Length(t, id) BY <1>1, <1>3, <2>1, <2>2, <2>3
    <3> QED BY <1>1, <2>1, <2>3, <3>1 DEF Remembered, id, k
  <2>4. CASE id # a BY <1>1, <1>2, <2>1, <2>4 DEF Remembered, id, k
  <2> QED BY <2>3, <2>4
<1>11. Noted(t, Append(u, e), c)
  <2> DEFINE v == Append(u, e)
  <2>1. /\ Len(v) = Len(u) + 1 /\ v[Len(u) + 1] = e /\ Len(u) \in Nat
        /\ \A i \in 1 .. Len(u) : v[i] = u[i] /\ u[i] \in Entries
    BY <1>7, AppendProperties, EntriesIs, LenProperties
  <2> HIDE DEF v
  <2>2. \A i \in 1 .. Len(u) : Remembered(t, c, v[i]) BY <1>10, <2>1 DEF Noted
  <2>3. \A i \in 1 .. Len(v) : Remembered(t, c, v[i]) BY <1>9, <2>1, <2>2
  <2>4. ASSUME NEW id \in Ids(t), NEW k \in 1 .. Length(t, id), Before(c, Pos(id, k))
        PROVE  \E i \in 1 .. Len(v) : v[i].end = Pos(id, k)
    <3>1. CASE id = a /\ k = l + 1 BY <1>7, <2>1, <3>1
    <3>2. CASE ~(id = a /\ k = l + 1)
      <4>1. id \in Ids(r) /\ k \in 1 .. Length(r, id) BY <1>1, <1>2, <1>3, <3>2
      <4>2. PICK i \in 1 .. Len(u) : u[i].end = Pos(id, k) BY <2>4, <4>1 DEF Noted
      <4> QED BY <2>1, <4>2
    <3> QED BY <3>1, <3>2
  <2> QED BY <2>3, <2>4 DEF Noted, v
<1>12. ASSUME NEW n, Numbered(r, n), j <= n PROVE Numbered(t, n)
  <2> SUFFICES ASSUME NEW id \in Ids(t), NEW k \in 1 .. Length(t, id) PROVE t.files[id][k] <= n
    BY DEF Numbered
  <2>1. CASE id = a /\ k = l + 1 BY <1>1, <1>12, <2>1
  <2>2. CASE ~(id = a /\ k = l + 1)
    <3>1. id \in Ids(r) /\ k \in 1 .. Length(r, id) /\ t.files[id][k] = r.files[id][k]
      BY <1>1, <1>2, <1>3, <2>2
    <3> QED BY <1>12, <3>1 DEF Numbered
  <2> QED BY <2>1, <2>2
<1>13. ASSUME NEW from, NEW n, Clean(r, from, n) PROVE Clean(t, from, n)
  BY <1>1, <1>2, <1>3, <1>13 DEF Clean, StoreOK
<1>14. ASSUME NEW from, NEW upto
       PROVE  /\ Between(t, from, upto) = Between(r, from, upto)
              /\ NothingBetween(r, from, upto) => NothingBetween(t, from, upto)
  BY <1>1, <1>2, <1>4 DEF Between, NothingBetween
<1> QED BY <1>1, <1>5, <1>7, <1>11, <1>12, <1>13, <1>14

LEMMA FewerIs ==
  ASSUME NEW s, NEW t, StoreOK(s), StoreOK(t), Fewer(s, t)
  PROVE  /\ \A id \in Ids(t) : Length(t, id) = Length(s, id) /\ OnDisk(t, id) = OnDisk(s, id)
         /\ \A n : Numbered(s, n) => Numbered(t, n)
         /\ \A from : NothingBeyond(s, from) => NothingBeyond(t, from)
         /\ \A from, upto : NothingBetween(s, from, upto) => NothingBetween(t, from, upto)
         /\ \A from, upto : Between(t, from, upto) \subseteq Between(s, from, upto)
         /\ \A u, p : Separates(s, u, p) => Separates(t, u, p)
<1>1. \A id \in Ids(t) : /\ id \in Ids(s) /\ t.files[id] = s.files[id]
                         /\ Length(t, id) = Length(s, id) /\ OnDisk(t, id) = OnDisk(s, id)
  BY DEF Fewer, Length, OnDisk
<1>2. \A n : Numbered(s, n) => Numbered(t, n) BY <1>1 DEF Numbered
<1>3. \A from : NothingBeyond(s, from) => NothingBeyond(t, from) BY <1>1 DEF NothingBeyond
<1>4. \A from, upto : NothingBetween(s, from, upto) => NothingBetween(t, from, upto)
  BY <1>1 DEF NothingBetween
<1>5. \A from, upto : Between(t, from, upto) \subseteq Between(s, from, upto) BY <1>1 DEF Between
<1>6. \A u, p : Separates(s, u, p) => Separates(t, u, p) BY DEF Separates, Fewer
<1> QED BY <1>1, <1>2, <1>3, <1>4, <1>5, <1>6

LEMMA FewerPlaced ==
  ASSUME NEW s, NEW t, StoreOK(s), StoreOK(t), Placed(s), Fewer(s, t),
         NEW p \in Positions, p.offset = 0, p.segment <= s.nextId,
         s.active # NoSegment => p.segment <= s.active, t.committed = Later(s.committed, p)
  PROVE  Placed(t) /\ ~Before(t.committed, s.committed) /\ ~Before(t.committed, p)
<1> DEFINE c == s.committed
<1>1. c \in Positions /\ s.nextId \in Nat /\ s.active \in Nat /\ s.flushed \in Nat
  <2> DEFINE l == Length(s, s.active)
  <2>1. c \in Positions /\ s.nextId \in Nat /\ s.flushed \in 0 .. l BY DEF StoreOK
  <2>2. l \in Nat BY Lengths
  <2>3. s.active \in Nat BY IdsAreNat
  <2> HIDE DEF l
  <2> QED BY <2>1, <2>2, <2>3
<1>2. t.committed \in Positions /\ t.committed \in {c, p} /\ ~Before(t.committed, c) /\ ~Before(t.committed, p)
  BY <1>1, LaterIs
<1>3. \A id \in Ids(t) : \A k \in 1 .. OnDisk(t, id) : ~Before(t.committed, Pos(id, k))
  <2> SUFFICES ASSUME NEW id \in Ids(t), NEW k \in 1 .. OnDisk(t, id) PROVE ~Before(t.committed, Pos(id, k))
    OBVIOUS
  <2>1. id \in Ids(s) /\ OnDisk(t, id) = OnDisk(s, id) BY FewerIs DEF Fewer
  <2>2. ~Before(c, Pos(id, k)) /\ Pos(id, k) \in Positions
    BY <2>1, IdsAreNat, Lengths, PosIs DEF Placed
  <2> HIDE DEF c
  <2> QED BY <1>1, <1>2, <2>2, NotBefore
<1>4. ~Before(Pos(s.nextId, 0), c) /\ ~Before(Pos(s.nextId, 0), p)
  <2>1. ~Before(Pos(s.nextId, 0), p) BY <1>1 DEF Before, Pos, Positions
  <2> QED BY <2>1 DEF Placed
<1>5. s.active # NoSegment =>
        /\ s.active = s.nextId - 1
        /\ ~Before(Pos(s.active, s.flushed), c) /\ ~Before(Pos(s.active, s.flushed), p)
        /\ s.flushed > 0 => c = Pos(s.active, s.flushed)
  <2> SUFFICES ASSUME s.active # NoSegment PROVE ~Before(Pos(s.active, s.flushed), p)
    BY DEF Placed
  <2> QED BY <1>1 DEF Before, Pos, Positions
<1>6. s.active # NoSegment /\ s.flushed > 0 => t.committed = Pos(s.active, s.flushed)
  <2> SUFFICES ASSUME s.active # NoSegment, s.flushed > 0 PROVE t.committed = c
    BY <1>5
  <2>1. ~Before(c, p) BY <1>5
  <2> QED BY <2>1 DEF Later
<1>7. ~Before(Pos(s.nextId, 0), t.committed) /\ (s.active # NoSegment => ~Before(Pos(s.active, s.flushed), t.committed))
  BY <1>2, <1>4, <1>5
<1>8. Placed(t) BY <1>3, <1>5, <1>6, <1>7 DEF Placed, Fewer
<1> QED BY <1>2, <1>8

LEMMA FewerNoted ==
  ASSUME NEW s, NEW t, StoreOK(s), StoreOK(t), Fewer(s, t), ~Before(t.committed, s.committed),
         NEW u \in Seq(Entries), NEW c, Noted(s, u, c),
         \A i \in 1 .. Len(u) : u[i].end.segment \in Ids(t) \ t.deletes
  PROVE  Noted(t, u, c)
<1>1. \A id \in Ids(t) : id \in Ids(s) /\ t.files[id] = s.files[id] /\ Length(t, id) = Length(s, id)
  BY FewerIs DEF Fewer
<1>2. ASSUME NEW i \in 1 .. Len(u) PROVE Remembered(t, c, u[i])
  <2>1. Remembered(s, c, u[i]) /\ u[i] \in Entries /\ u[i].end.segment \in Ids(t) \ t.deletes
    BY EntriesIs DEF Noted
  <2>2. ~Before(s.committed, u[i].end) => ~Before(t.committed, u[i].end)
    <3>1. u[i].end \in Positions /\ s.committed \in Positions /\ t.committed \in Positions
      BY <2>1 DEF Entries, StoreOK
    <3> QED BY <3>1, NotBefore
  <2>3. t.active = s.active BY DEF Fewer
  <2> QED BY <1>1, <2>1, <2>2, <2>3 DEF Remembered
<1>3. ASSUME NEW id \in Ids(t), NEW k \in 1 .. Length(t, id), Before(c, Pos(id, k))
      PROVE  \E i \in 1 .. Len(u) : u[i].end = Pos(id, k)
  BY <1>1, <1>3 DEF Noted
<1> QED BY <1>2, <1>3 DEF Noted

LEMMA FewerBeyond ==
  ASSUME NEW s, NEW t, StoreOK(s), StoreOK(t), Fewer(s, t), NEW from \in Positions,
         NEW j \in Beyond(s, from), j \notin Beyond(t, from)
  PROVE  \E id \in Ids(s) \ Ids(t) : \E k \in 1 .. OnDisk(s, id) :
           j = s.files[id][k] /\ Before(from, Pos(id, k))
<1>1. PICK id \in Ids(s) : \E k \in 1 .. OnDisk(s, id) :
        j \in Jobs /\ j = s.files[id][k] /\ Before(from, Pos(id, k)) /\ ~Before(Pos(s.nextId, 0), Pos(id, k))
  BY DEF Beyond, Between
<1>2. PICK k \in 1 .. OnDisk(s, id) :
        j \in Jobs /\ j = s.files[id][k] /\ Before(from, Pos(id, k)) /\ ~Before(Pos(s.nextId, 0), Pos(id, k))
  BY <1>1
<1>3. CASE id \in Ids(t)
  <2>1. k \in 1 .. OnDisk(t, id) /\ t.files[id] = s.files[id] /\ t.nextId = s.nextId
    BY <1>3, FewerIs DEF Fewer
  <2>2. j \in Beyond(t, from) BY <1>2, <1>3, <2>1 DEF Beyond, Between
  <2> QED BY <2>2
<1> QED BY <1>2, <1>3

(* What release_consumed deletes was consumed. *)
LEMMA ConsumedIs ==
  ASSUME NEW s, StoreOK(s), Placed(s), NEW c \in Positions, NEW id \in Consumed(s, c),
         NEW k \in 1 .. Length(s, id)
  PROVE  ~Before(c, Pos(id, k))
<1>1. /\ id \in Ids(s) /\ id \in Nat /\ k \in Nat /\ c.segment \in Nat /\ c.offset \in Nat
      /\ s.committed \in Positions /\ Pos(id, k) \in Positions
  <2>1. id \in Ids(s) BY DEF Consumed, FullyRead, StoreOK
  <2> QED BY <2>1, IdsAreNat, Lengths, PosIs DEF StoreOK, Positions
<1>2. CASE id < c.segment BY <1>1, <1>2 DEF Before, Pos
<1>3. CASE ~Before(c, s.committed) /\ OnDisk(s, id) = Length(s, id)
  <2>1. ~Before(s.committed, Pos(id, k)) BY <1>1, <1>3 DEF Placed
  <2> QED BY <1>1, <1>3, <2>1, NotBefore
<1>4. CASE FullyRead(s, c) /\ id = s.active
  <2>1. ~Before(c, s.committed) /\ OnDisk(s, id) = Length(s, id) BY <1>4 DEF FullyRead, OnDisk
  <2> QED BY <1>3, <2>1
<1>5. CASE ~Before(c, s.committed) /\ s.active = NoSegment
  <2>1. OnDisk(s, id) = Length(s, id) BY <1>1, <1>5, IdsAreNat, Lengths
  <2> QED BY <1>3, <1>5, <2>1
<1> QED BY <1>2, <1>4, <1>5 DEF Consumed

LEMMA ConsumedNotRemembered ==
  ASSUME NEW s, StoreOK(s), Placed(s), NEW c \in Positions, NEW from \in Positions, ~Before(from, c),
         NEW e \in Entries, Remembered(s, from, e)
  PROVE  e.end.segment \notin Consumed(s, c)
<1> SUFFICES ASSUME e.end.segment \in Consumed(s, c) PROVE FALSE OBVIOUS
<1> DEFINE id == e.end.segment  k == e.end.offset
<1>1. /\ id \in Ids(s) /\ k > 0 /\ Before(from, e.end)
      /\ id # s.active => ~Before(s.committed, e.end)
      /\ id = s.active => k <= Length(s, id)
  BY DEF Remembered
<1>2. e.end \in Positions /\ e.end = Pos(id, k) /\ id \in Nat /\ k \in Nat /\ s.committed \in Positions
      /\ Length(s, id) \in Nat /\ c.segment \in Nat
  BY Lengths DEF Entries, Positions, Pos, StoreOK
<1> HIDE DEF id, k
<1>3. Before(c, e.end) BY <1>1, <1>2, NotBefore
<1>4. CASE k <= Length(s, id)
  <2>1. ~Before(c, Pos(id, k)) BY <1>1, <1>2, <1>4, ConsumedIs DEF id
  <2> QED BY <1>2, <1>3, <2>1
<1>5. CASE k > Length(s, id)
  <2>1. id # s.active /\ ~Before(s.committed, e.end) BY <1>1, <1>2, <1>5
  <2>2. Before(c, s.committed) BY <1>2, <1>3, <2>1, NotBefore
  <2>3. id < c.segment BY <2>1, <2>2 DEF Consumed, id
  <2>4. ~Before(c, Pos(id, k)) BY <1>2, <2>3 DEF Before, Pos, Positions
  <2> QED BY <1>2, <1>3, <2>4
<1> QED BY <1>2, <1>4, <1>5

--------------------
(* The parts of the invariant. *)
LEMMA PartsTyped == (Types => Parts) /\ (Types' => Parts')
<1>1. ASSUME Types PROVE Parts
  <2>1. /\ order \in OrderStates /\ order.consumed \in Positions /\ order.committed \in Positions
        /\ order.handoffJobs \in Nat /\ order.spilling \in BOOLEAN
    BY <1>1 DEF Types, OrderStates
  <2>2. StoreOK(store) /\ store.committed \in Positions /\ store.nextId \in Nat
    BY <1>1 DEF Types, StoreOK
  <2>3. Pos(store.nextId, 0) \in Positions BY <2>2, PosIs
  <2>4. spill.hand \in Seq(Jobs) /\ spill.unflushed \in Seq(Entries) /\ spill.at \in Positions
        /\ spill.seqs \subseteq Clears
    BY <1>1 DEF Types, SpillTyped, SpillStates
  <2>5. /\ writer.batch \in Seq(Jobs) /\ writer.taken \in Seq(Jobs)
        /\ writer.from \in Positions /\ writer.upto \in Positions /\ writer.cursor \in Positions
    BY <1>1 DEF Types, WriterTyped, WriterStates
  <2> QED BY <1>1, <2>1, <2>2, <2>3, <2>4, <2>5 DEF Types, Parts
<1>2. ASSUME Types' PROVE Parts'
  <2>1. /\ order' \in OrderStates /\ order'.consumed \in Positions /\ order'.committed \in Positions
        /\ order'.handoffJobs \in Nat /\ order'.spilling \in BOOLEAN
    BY <1>2 DEF Types, OrderStates
  <2>2. StoreOK(store') /\ store'.committed \in Positions /\ store'.nextId \in Nat
    BY <1>2 DEF Types, StoreOK
  <2>3. Pos(store'.nextId, 0) \in Positions BY <2>2, PosIs
  <2>4. spill'.hand \in Seq(Jobs) /\ spill'.unflushed \in Seq(Entries) /\ spill'.at \in Positions
        /\ spill'.seqs \subseteq Clears
    BY <1>2 DEF Types, SpillTyped, SpillStates
  <2>5. /\ writer'.batch \in Seq(Jobs) /\ writer'.taken \in Seq(Jobs)
        /\ writer'.from \in Positions /\ writer'.upto \in Positions /\ writer'.cursor \in Positions
    BY <1>2 DEF Types, WriterTyped, WriterStates
  <2> QED BY <1>2, <2>1, <2>2, <2>3, <2>4, <2>5 DEF Types, Parts
<1> QED BY <1>1, <1>2

(* ... what a step leaves undecided ... *)
LEMMA SettleIs ==
  ASSUME NEW S, NEW outcome, outcome # "pending", fate' = Settle(S, outcome)
  PROVE  \A j \in Jobs : Pending(j)' => Pending(j) /\ j \notin S
BY DEF Settle, Pending

(* ... and steps that touch nothing of what the invariant is about. *)
LEMMA Untouched ==
  ASSUME IInv, Types', Counted',
         UNCHANGED <<order, memory, handoff, held, boundary, releaseUpto, readStart, inFlight, store,
                     spill, writer, captured, fate>>
  PROVE  IInv'
<1>1. Placed(store)' /\ Known' /\ Ordered' BY DEF IInv, Known, Ordered
<1>2. Removable' /\ Boundaries' /\ Unpublished'
  BY DEF IInv, Removable, PurgedBelow, Boundaries, Unpublished
<1>3. MemoryFirst' /\ InBatchOrSettled' /\ Somewhere'
  BY DEF IInv, MemoryFirst, InBatchOrSettled, Pending, Somewhere, Queued
<1> QED BY <1>1, <1>2, <1>3 DEF IInv

(* The order of the positions when the end of the stream moves. *)
LEMMA OrderedWhenCommitted ==
  ASSUME Types, Types', Ordered, UNCHANGED <<readStart, releaseUpto, inFlight, writer>>,
         order'.consumed = order.consumed, ~Before(order'.committed, order.committed),
         ~Before(store'.committed, order'.committed)
  PROVE  Ordered'
<1>1. Parts /\ Parts' BY PartsTyped
<1> DEFINE g == order'.committed
<1>2. ASSUME NEW p \in Positions, ~Before(order.committed, p) PROVE ~Before(g, p)
  <2>1. order.committed \in Positions /\ g \in Positions BY <1>1 DEF Parts
  <2> HIDE DEF g
  <2>2. ~Before(g, order.committed) BY DEF g
  <2> QED BY <1>2, <2>1, <2>2, NotBefore
<1>3. ~Before(g, order.consumed) /\ ~Before(g, writer.upto) /\ ~Before(g, inFlight.next)
  BY <1>1, <1>2 DEF Parts, Ordered
<1> QED BY <1>3 DEF Ordered

LEMMA KeepsNarrows ==
  ASSUME NEW s, NEW t, StoreOK(s), StoreOK(t), Placed(s), Keeps(s, t), NEW from \in Positions
  PROVE  Narrows(s, t, from)
<1>1. NothingBeyond(s, from) => NothingBeyond(t, from) BY KeepsBeyond
<1>2. \A upto \in Positions : ~Before(s.committed, upto) =>
        /\ Between(t, from, upto) \subseteq Between(s, from, upto)
        /\ NothingBetween(s, from, upto) => NothingBetween(t, from, upto)
  BY KeepsStream
<1> QED BY <1>1, <1>2 DEF Narrows

LEMMA ReadersWhenKept ==
  ASSUME IInv, Types', Narrows(store, store', order.consumed), UNCHANGED <<memory, inFlight, writer>>,
         order'.consumed = order.consumed, order'.spilling = order.spilling,
         order'.handoffJobs <= order.handoffJobs,
         \A j \in Jobs : Pending(j)' => Pending(j)
  PROVE  MemoryFirst' /\ InBatchOrSettled'
<1>1. Parts /\ Parts' /\ Placed(store) /\ Ordered /\ MemoryFirst /\ InBatchOrSettled
  BY PartsTyped DEF IInv
<1> DEFINE c == order.consumed
<1>2. ASSUME NEW p \in Positions, ~Before(order.committed, p)
      PROVE  /\ Between(store', c, p) \subseteq Between(store, c, p)
             /\ NothingBetween(store, c, p) => NothingBetween(store', c, p)
  <2>1. ~Before(store.committed, p)
    <3>1. order.committed \in Positions /\ store.committed \in Positions BY <1>1 DEF Parts
    <3>2. ~Before(store.committed, order.committed) BY <1>1 DEF Ordered
    <3> QED BY <1>2, <3>1, <3>2, NotBefore
  <2> HIDE DEF c
  <2> QED BY <1>2, <2>1 DEF Narrows, c
<1>3. order'.handoffJobs > 0 => order'.spilling BY <1>1 DEF Parts, MemoryFirst
<1>4. NothingBeyond(store, c) => NothingBeyond(store', c) BY DEF Narrows
<1>5. NothingBetween(store, c, inFlight.next) => NothingBetween(store', c, inFlight.next)
  BY <1>1, <1>2 DEF Parts, Ordered
<1>6. /\ NothingBetween(store, c, writer.upto) => NothingBetween(store', c, writer.upto)
      /\ Between(store', c, writer.upto) \subseteq Between(store, c, writer.upto)
  BY <1>1, <1>2 DEF Parts, Ordered
<1>7. MemoryFirst' BY <1>1, <1>3, <1>4, <1>5, <1>6 DEF MemoryFirst
<1>8. InBatchOrSettled'
  <2> SUFFICES ASSUME writer.pc = "disk", NEW j \in Between(store', c, writer.upto), Pending(j)'
               PROVE  j \in ToSet(writer.batch)
    BY DEF InBatchOrSettled
  <2>1. j \in Between(store, c, writer.upto) /\ j \in Jobs BY <1>6 DEF Between
  <2> QED BY <1>1, <2>1 DEF InBatchOrSettled
<1> QED BY <1>7, <1>8

(* The spill thread works on its files and settles nothing. *)
LEMMA FilesMove ==
  ASSUME IInv, Types', Counted', Keeps(store, store'),
         UNCHANGED <<order, memory, handoff, held, boundary, releaseUpto, readStart, inFlight,
                     writer, captured, fate>>,
         spill'.hand = spill.hand, spill'.unflushed = spill.unflushed, spill.pc = "idle",
         \/ spill'.pc = "idle"
         \/ spill'.pc = "rolled" /\ store'.active = NoSegment /\ spill'.at = Pos(store'.nextId, 0)
  PROVE  IInv'
<1>1. /\ Parts /\ Parts' /\ Placed(store) /\ Known /\ Ordered /\ Removable /\ Boundaries
      /\ Unpublished /\ Somewhere
  BY PartsTyped DEF IInv
<1>2. StoreOK(store) /\ StoreOK(store') BY <1>1 DEF Parts
<1>3. Known'
  <2>1. Numbered(store', captured) BY <1>1, <1>2, KeepsNumbered DEF Known
  <2> QED BY <1>1, <2>1 DEF Known
<1>4. Ordered'
  <2>1. ~Before(store'.committed, store.committed) BY DEF Keeps
  <2>2. ~Before(store'.committed, order.committed) /\ ~Before(order.committed, order.committed)
    BY <1>1, <2>1, NotBefore DEF Parts, Ordered
  <2> QED BY <1>1, <2>2, OrderedWhenCommitted DEF IInv
<1>5. Removable' BY <1>1, <1>2, KeepsClean DEF Removable, PurgedBelow
<1>6. Boundaries'
  <2>1. \A c \in Clears : Separates(store', spill.unflushed, boundary[c])
    BY <1>1, <1>2, KeepsSeparates DEF Boundaries, Parts
  <2> QED BY <2>1 DEF Boundaries
<1>7. Unpublished' BY <1>1, <1>2, KeepsNoted DEF Unpublished, Parts
<1>8. MemoryFirst' /\ InBatchOrSettled'
  <2>1. Narrows(store, store', order.consumed) BY <1>1, <1>2, KeepsNarrows DEF Parts
  <2> QED BY <1>1, <2>1, ReadersWhenKept DEF Pending, Parts
<1>9. Somewhere'
  <2>1. Beyond(store, order.consumed) \subseteq Beyond(store', order.consumed)
    BY <1>1, <1>2, KeepsStream DEF Parts
  <2>2. Queued' = Queued BY DEF Queued
  <2> QED BY <1>1, <2>1, <2>2 DEF Somewhere, Pending
<1> QED BY <1>3, <1>4, <1>5, <1>6, <1>7, <1>8, <1>9 DEF IInv, Keeps

LEMMA LaterReaches ==
  ASSUME NEW p \in Positions, NEW q \in Positions, ~Before(q, p)
  PROVE  Later(p, q) = q
<1>1. CASE Before(p, q) BY <1>1 DEF Later
<1>2. CASE ~Before(p, q)
  <2>1. p.segment = q.segment /\ p.offset = q.offset BY <1>2 DEF Before, Positions
  <2>2. p = Pos(p.segment, p.offset) /\ q = Pos(q.segment, q.offset) BY DEF Positions, Pos
  <2>3. p = q BY <2>1, <2>2
  <2> QED BY <2>3 DEF Later
<1> QED BY <1>1, <1>2

(* The spill thread closes or flushes its file and settles what it holds. *)
LEMMA Settles ==
  ASSUME IInv, Types', Counted', Keeps(store, store'), Whole(store'),
         UNCHANGED <<memory, handoff, held, boundary, releaseUpto, readStart, inFlight, writer, captured>>,
         order'.consumed = order.consumed, order'.spilling = order.spilling,
         order'.committed = Later(order.committed, store'.committed),
         order'.handoffJobs <= order.handoffJobs,
         \A j \in Jobs : Pending(j)' =>
           Pending(j) /\ j \notin ToSet(spill.hand) /\ j \notin Lost(store', spill.unflushed),
         spill'.hand = <<>>, spill'.unflushed = <<>>, spill.pc \notin {"purging", "purged"},
         \/ spill'.pc = "idle"
         \/ spill'.pc = "settled" /\ store'.active = NoSegment /\ spill'.at = Pos(store'.nextId, 0)
  PROVE  IInv'
<1>1. /\ Parts /\ Parts' /\ Placed(store) /\ Known /\ Ordered /\ Removable /\ Boundaries
      /\ Unpublished /\ Somewhere
  BY PartsTyped DEF IInv
<1>2. StoreOK(store) /\ StoreOK(store') /\ Placed(store') BY <1>1 DEF Parts, Keeps
<1> DEFINE t == store'  g == order'.committed
<1>3. ~Before(t.committed, order.committed) /\ g = t.committed
  <2>1. ~Before(t.committed, store.committed) BY DEF Keeps
  <2>2. ~Before(t.committed, order.committed) BY <1>1, <2>1, NotBefore DEF Parts, Ordered
  <2> HIDE DEF t
  <2> QED BY <1>1, <2>2, LaterReaches DEF Parts, t
<1>4. Known'
  <2>1. Numbered(store', captured) BY <1>1, <1>2, KeepsNumbered DEF Known
  <2> QED BY <1>1, <2>1, ToSetEmpty DEF Known
<1>5. Ordered'
  <2>1. ~Before(t.committed, g) BY <1>1, <1>3, NotBefore DEF Parts
  <2> QED BY <1>1, <1>3, <2>1, OrderedWhenCommitted DEF IInv
<1>6. Removable' BY <1>1, <1>2, KeepsClean DEF Removable, PurgedBelow
<1>7. Boundaries'
  <2>1. ASSUME NEW c \in Clears PROVE Separates(store', <<>>, boundary[c])
    <3>1. Separates(store', spill.unflushed, boundary[c])
      BY <1>1, <1>2, KeepsSeparates DEF Boundaries, Parts
    <3> QED BY <3>1, Empty DEF Separates
  <2> QED BY <2>1 DEF Boundaries
<1>8. Unpublished'
  <2>1. Noted(t, <<>>, t.committed) BY <1>2, NothingUnpublished
  <2> QED BY <1>3, <2>1 DEF Unpublished
<1>9. MemoryFirst' /\ InBatchOrSettled'
  <2>1. Narrows(store, store', order.consumed) BY <1>1, <1>2, KeepsNarrows DEF Parts
  <2> QED BY <1>1, <2>1, ReadersWhenKept
<1>10. Somewhere'
  <2> SUFFICES ASSUME NEW j \in Jobs, Pending(j)' PROVE j \in (Queued \cup Beyond(store, order.consumed))'
    BY DEF Somewhere
  <2>1. j \in Queued \cup Beyond(store, order.consumed) BY <1>1 DEF Somewhere
  <2>2. CASE j \in Beyond(store, order.consumed)
    <3>1. j \in Beyond(store', order.consumed) BY <1>1, <1>2, <2>2, KeepsStream DEF Parts
    <3> QED BY <3>1
  <2>3. CASE j \in ToSet(JobsOf(spill.unflushed))
    <3>1. Noted(t, spill.unflushed, order.committed) BY <1>1, <1>2, KeepsNoted DEF Unpublished, Parts
    <3>2. j \notin Lost(t, spill.unflushed) OBVIOUS
    <3>3. j \in Beyond(t, order.consumed)
      BY <1>1, <1>2, <2>3, <3>1, <3>2, FoundOrLost DEF Parts, Ordered
    <3> QED BY <3>3
  <2>4. CASE j \in ToSet(memory) \cup ToSet(handoff) \cup ToSet(held) \cup ToSet(writer.batch)
    BY <2>4 DEF Queued
  <2> QED BY <2>1, <2>2, <2>3, <2>4 DEF Queued
<1> QED BY <1>2, <1>4, <1>5, <1>6, <1>7, <1>8, <1>9, <1>10 DEF IInv

LEMMA SettlesWhat ==
  ASSUME Types, NEW S, fate' = Settle(S \cup Lost(store', spill.unflushed), "dropped")
  PROVE  \A j \in Jobs : Pending(j)' =>
           Pending(j) /\ j \notin S /\ j \notin Lost(store', spill.unflushed)
<1>1. "dropped" # "pending" OBVIOUS
<1> QED BY <1>1, SettleIs

(* The orders and the closing of a file: SpillStore::roll. *)
LEMMA RollMoves ==
  ASSUME IInv, Types', Counted', SpillRoll PROVE IInv'
<1>1. Parts /\ Placed(store) BY PartsTyped DEF IInv
<1>2. PICK kept \in Keepable :
        /\ store' = Roll(store, kept)
        /\ spill' = [spill EXCEPT !.pc = "rolled", !.seqs = rolls, !.at = Pos(store'.nextId, 0)]
  BY DEF SpillRoll
<1>3. StoreOK(store) /\ kept \in MayKeep(store) BY <1>1, <1>2, KeepableIs DEF Parts
<1>4. Keeps(store, store') /\ store'.active = NoSegment BY <1>1, <1>2, <1>3, RollKeeps, RollIs
<1>5. /\ spill'.hand = spill.hand /\ spill'.unflushed = spill.unflushed /\ spill'.pc = "rolled"
      /\ spill'.at = Pos(store'.nextId, 0) /\ spill.pc = "idle"
  BY <1>2 DEF SpillRoll, SpillIdle, IInv, Types, SpillTyped, SpillStates
<1> QED BY <1>4, <1>5, FilesMove DEF SpillRoll, queueVars, readVars, clearVars, jobVars

LEMMA RollSettles ==
  ASSUME IInv, Types', Counted', SpillRollSettle PROVE IInv'
<1>1. Parts /\ Placed(store) /\ Boundaries /\ Types BY PartsTyped DEF IInv
<1>2. store' = store /\ store.active = NoSegment /\ spill.at = Pos(store.nextId, 0) /\ StoreOK(store)
  BY <1>1 DEF SpillRollSettle, Boundaries, Parts
<1>3. Keeps(store, store') /\ Whole(store') BY <1>1, <1>2, KeepsItself
<1>4. /\ order'.consumed = order.consumed /\ order'.spilling = order.spilling
      /\ order'.committed = Later(order.committed, store'.committed)
      /\ order'.handoffJobs = Minus(order.handoffJobs, Len(spill.unflushed))
  BY <1>1, <1>2, PublishedIs DEF SpillRollSettle, Parts
<1>5. order'.handoffJobs <= order.handoffJobs
  <2>1. Len(spill.unflushed) \in Nat /\ order.handoffJobs \in Nat BY <1>1, Numbers DEF Parts
  <2> QED BY <1>4, <2>1 DEF Minus
<1>6. /\ spill'.hand = <<>> /\ spill'.unflushed = <<>> /\ spill'.pc = "settled" /\ spill'.at = spill.at
      /\ spill.pc = "rolled" /\ spill.hand = <<>>
  BY <1>1 DEF SpillRollSettle, Types, SpillTyped, SpillStates
<1>7. \A j \in Jobs : Pending(j)' =>
        Pending(j) /\ j \notin ToSet(spill.hand) /\ j \notin Lost(store', spill.unflushed)
  <2>1. fate' = Settle({} \cup Lost(store', spill.unflushed), "dropped") BY <1>2 DEF SpillRollSettle
  <2> QED BY <1>1, <1>6, <2>1, SettlesWhat, ToSetEmpty
<1> QED BY <1>2, <1>3, <1>4, <1>5, <1>6, <1>7, Settles DEF SpillRollSettle, clearReqVars, readVars

LEMMA RollRecords ==
  ASSUME IInv, Types', Counted', SpillRollRecord PROVE IInv'
<1>1. Parts /\ Placed(store) /\ Boundaries /\ Types BY PartsTyped DEF IInv
<1>2. /\ store.active = NoSegment /\ spill.at = Pos(store.nextId, 0) /\ spill.unflushed = <<>>
      /\ spill'.pc = "idle" /\ spill'.unflushed = spill.unflushed /\ spill'.hand = spill.hand
      /\ spill.pc = "settled"
  BY <1>1 DEF SpillRollRecord, Boundaries, Types, SpillTyped, SpillStates
<1>3. UNCHANGED <<order, memory, handoff, held, releaseUpto, readStart, inFlight, store, writer,
                  captured, fate>>
  BY DEF SpillRollRecord, queueVars, readVars, jobVars
<1>4. Boundaries'
  <2>1. Separates(store, spill.unflushed, spill.at)
    <3>1. spill.at.segment = store.nextId /\ store.nextId \in Nat /\ Len(spill.unflushed) = 0
      BY <1>1, <1>2, PosIs, Empty DEF Parts
    <3> QED BY <1>2, <3>1 DEF Separates
  <2>2. \A c \in Clears : boundary'[c] \in {spill.at, boundary[c]} BY DEF SpillRollRecord
  <2>3. \A c \in Clears : Separates(store, spill.unflushed, boundary'[c])
    BY <1>1, <2>1, <2>2 DEF Boundaries
  <2> QED BY <1>2, <1>3, <2>3 DEF Boundaries
<1>5. Placed(store)' /\ Known' /\ Ordered' BY <1>2, <1>3 DEF IInv, Known, Ordered
<1>6. Removable' /\ Unpublished' BY <1>2, <1>3 DEF IInv, Removable, PurgedBelow, Unpublished
<1>7. MemoryFirst' /\ InBatchOrSettled' /\ Somewhere'
  BY <1>2, <1>3 DEF IInv, MemoryFirst, InBatchOrSettled, Pending, Somewhere, Queued
<1> QED BY <1>4, <1>5, <1>6, <1>7 DEF IInv

(* Flushing, and what becomes of the buffered records after a failure. *)
LEMMA FlushSettles ==
  ASSUME IInv, Types', Counted', SpillFlush PROVE IInv'
<1>1. Parts /\ Placed(store) /\ Types /\ StoreOK(store) BY PartsTyped DEF IInv, Parts
<1>2. Keeps(store, store') /\ Whole(store')
  <2>1. CASE store' = Flush(store) BY <1>1, <2>1, FlushKeeps
  <2>2. CASE \E k \in MayKeep(store) : store' = AbandonActive(store, k) BY <1>1, <2>2, CloseKeeps
  <2> QED BY <2>1, <2>2 DEF SpillFlush
<1>3. StoreOK(store') BY PartsTyped DEF Parts
<1>4. /\ order'.consumed = order.consumed /\ order'.spilling = order.spilling
      /\ order'.committed = Later(order.committed, store'.committed)
      /\ order'.handoffJobs = Minus(order.handoffJobs, Len(spill.unflushed))
  BY <1>1, <1>3, PublishedIs DEF SpillFlush, Parts
<1>5. order'.handoffJobs <= order.handoffJobs
  <2>1. Len(spill.unflushed) \in Nat /\ order.handoffJobs \in Nat BY <1>1, Numbers DEF Parts
  <2> QED BY <1>4, <2>1 DEF Minus
<1>6. /\ spill'.hand = <<>> /\ spill'.unflushed = <<>> /\ spill'.pc = "idle"
      /\ spill.pc = "idle" /\ spill.hand = <<>>
  BY <1>1, IdleSpillTyped DEF SpillFlush, Types, SpillTyped
<1>7. \A j \in Jobs : Pending(j)' =>
        Pending(j) /\ j \notin ToSet(spill.hand) /\ j \notin Lost(store', spill.unflushed)
  <2>1. fate' = Settle({} \cup Lost(store', spill.unflushed), "dropped") BY DEF SpillFlush
  <2> QED BY <1>1, <1>6, <2>1, SettlesWhat, ToSetEmpty
<1> QED BY <1>2, <1>4, <1>5, <1>6, <1>7, Settles DEF SpillFlush, clearReqVars, readVars

LEMMA SyncMoves ==
  ASSUME "sync" \notin Faults, IInv, Types', Counted', SpillSync PROVE IInv'
<1>1. Placed(store) /\ StoreOK(store) BY PartsTyped DEF IInv, Parts
<1>2. Keeps(store, store')
  <2>1. CASE store' = Flush(store) BY <1>1, <2>1, FlushKeeps
  <2>2. CASE \E k \in MayKeep(store) : store' = AbandonActive(store, k) BY <1>1, <2>2, CloseKeeps
  <2> QED BY <2>1, <2>2 DEF SpillSync
<1>3. spill' = spill /\ spill.pc = "idle" BY DEF SpillSync
<1> QED BY <1>2, <1>3, FilesMove DEF SpillSync, queueVars, clearReqVars, readVars, clearVars, jobVars

(* The job in hand is dropped with what was lost of the file. *)
LEMMA HandDropped ==
  ASSUME IInv, Types', Counted', Keeps(store, store'), Whole(store'),
         UNCHANGED <<memory, handoff, held, boundary, releaseUpto, readStart, inFlight, writer, captured>>,
         order' = FinishHandoff(Published(order, store', spill.unflushed), 1, Bytes(spill.hand)),
         fate' = Settle(ToSet(spill.hand) \cup Lost(store', spill.unflushed), "dropped"),
         spill.pc = "job", spill' = IdleSpill
  PROVE  IInv'
<1>1. Parts /\ Types /\ StoreOK(store') BY PartsTyped DEF IInv, Parts
<1> DEFINE o == Published(order, store', spill.unflushed)
<1>2. /\ o \in OrderStates /\ o.consumed = order.consumed /\ o.spilling = order.spilling
      /\ o.committed = Later(order.committed, store'.committed)
      /\ o.handoffJobs = Minus(order.handoffJobs, Len(spill.unflushed))
  BY <1>1, PublishedIs DEF Parts
<1>3. /\ order'.consumed = o.consumed /\ order'.spilling = o.spilling
      /\ order'.committed = o.committed /\ order'.handoffJobs = Minus(o.handoffJobs, 1)
  <2>1. Bytes(spill.hand) \in Nat /\ 1 \in Nat BY <1>1, Numbers
  <2> HIDE DEF o
  <2> QED BY <1>2, <2>1, FinishHandoffIs DEF o
<1>4. order'.handoffJobs <= order.handoffJobs
  <2>1. Len(spill.unflushed) \in Nat /\ order.handoffJobs \in Nat BY <1>1, Numbers DEF Parts
  <2> QED BY <1>2, <1>3, <2>1 DEF Minus
<1>5. /\ spill'.hand = <<>> /\ spill'.unflushed = <<>> /\ spill'.pc = "idle" BY IdleSpillTyped
<1>6. \A j \in Jobs : Pending(j)' =>
        Pending(j) /\ j \notin ToSet(spill.hand) /\ j \notin Lost(store', spill.unflushed)
  BY <1>1, SettlesWhat
<1> QED BY <1>2, <1>3, <1>4, <1>5, <1>6, Settles

LEMMA PanicSettles ==
  ASSUME IInv, Types', Counted', SpillPanic PROVE IInv'
<1>1. Placed(store) /\ StoreOK(store) BY PartsTyped DEF IInv, Parts
<1>2. PICK kept \in Keepable : store' = CloseActive(store, kept) BY DEF SpillPanic
<1>3. Keeps(store, store') /\ Whole(store') BY <1>1, <1>2, KeepableIs, CloseKeeps
<1> QED BY <1>3, HandDropped DEF SpillPanic, clearReqVars, readVars

LEMMA AppendErrorSettles ==
  ASSUME IInv, Types', Counted', SpillAppendError PROVE IInv'
<1>1. Placed(store) /\ StoreOK(store) /\ StoreOK(store') BY PartsTyped DEF IInv, Parts
<1>2. \E s : AppendFailed(s) /\ Keeps(store, s) /\ Whole(s)
  <2>1. CASE \E kept \in MayKeep(store) :
               AppendFailed(IF NeedsRoll(store) THEN CloseActive(store, kept)
                            ELSE AbandonActive(store, kept))
    <3>1. PICK kept \in MayKeep(store) :
            AppendFailed(IF NeedsRoll(store) THEN CloseActive(store, kept)
                         ELSE AbandonActive(store, kept))
      BY <2>1
    <3> DEFINE s == IF NeedsRoll(store) THEN CloseActive(store, kept) ELSE AbandonActive(store, kept)
    <3>2. Keeps(store, s) /\ Whole(s) BY <1>1, CloseKeeps
    <3>3. AppendFailed(s) BY <3>1
    <3> HIDE DEF s
    <3> QED BY <3>2, <3>3
  <2>2. CASE /\ store.active = NoSegment \/ NeedsRoll(store)
             /\ AppendFailed(AbandonActive(ReadyToAppend(store), 0))
    <3> DEFINE r == ReadyToAppend(store)  s == AbandonActive(r, 0)
    <3>1. StoreOK(r) /\ r.flushed = 0 /\ Keeps(store, r) /\ Placed(r)
      BY <1>1, <2>2, ReadyIs, ReadyFlushed, ReadyKeeps DEF Keeps
    <3>2. 0 \in MayKeep(r) BY <3>1, EverythingKept
    <3>3. Keeps(r, s) /\ Whole(s) /\ StoreOK(s) BY <3>1, <3>2, CloseKeeps, AbandonIs
    <3>4. Keeps(store, s) BY <1>1, <3>1, <3>3, KeepsBoth
    <3> QED BY <2>2, <3>3, <3>4
  <2> QED BY <2>1, <2>2 DEF SpillAppendError
<1>3. AppendFailed(store') /\ Keeps(store, store') /\ Whole(store') BY <1>2 DEF AppendFailed
<1> QED BY <1>3, HandDropped DEF AppendFailed, clearReqVars, readVars

--------------------
(* The spill thread and the queues. *)
LEMMA UnreadIs ==
  ASSUME Parts, NEW p \in Positions
  PROVE  Unread(p) = Between(store, order.consumed, p)
<1>1. JobsIn(Stream(store, order.consumed, p, {})) = Between(store, order.consumed, p)
  BY BetweenIs DEF Parts
<1> QED BY <1>1 DEF Unread, JobsIn

(* Only the accounting of the hand-off area changes. *)
LEMMA HandoffShrinks ==
  ASSUME IInv, Types', Counted', UNCHANGED <<memory, boundary, releaseUpto, readStart, inFlight, store,
                                            writer, captured>>,
         order'.consumed = order.consumed, order'.committed = order.committed,
         order'.spilling = order.spilling, order'.handoffJobs <= order.handoffJobs,
         spill'.unflushed = spill.unflushed,
         spill.pc \notin {"purging", "purged"}, spill'.pc \in {"idle", "job"},
         ToSet(handoff') \cup ToSet(held') \cup ToSet(spill'.hand)
           \subseteq ToSet(handoff) \cup ToSet(held) \cup ToSet(spill.hand),
         \A j \in Jobs : Pending(j)' =>
           /\ Pending(j)
           /\ j \in ToSet(handoff) \cup ToSet(held) \cup ToSet(spill.hand) =>
                j \in ToSet(handoff') \cup ToSet(held') \cup ToSet(spill'.hand)
  PROVE  IInv'
<1>1. /\ Parts /\ Parts' /\ Placed(store) /\ Known /\ Ordered /\ Removable /\ Boundaries
      /\ Unpublished /\ Somewhere
  BY PartsTyped DEF IInv
<1>2. Placed(store)' /\ Known' /\ Ordered' /\ Unpublished' BY <1>1 DEF Known, Ordered, Unpublished
<1>3. Removable' /\ Boundaries' BY <1>1 DEF Removable, PurgedBelow, Boundaries
<1>4. MemoryFirst' /\ InBatchOrSettled'
  <2>1. Narrows(store, store', order.consumed) BY DEF Narrows
  <2> QED BY <1>1, <2>1, ReadersWhenKept
<1>5. Somewhere' BY <1>1 DEF Somewhere, Queued
<1> QED BY <1>2, <1>3, <1>4, <1>5 DEF IInv

LEMMA UnblockKeeps ==
  ASSUME IInv, Types', Counted', SpillUnblock PROVE IInv'
<1>1. Parts /\ spill.pc = "idle" /\ spill' = spill BY PartsTyped DEF IInv, SpillUnblock, spillVars
<1>2. /\ order'.consumed = order.consumed /\ order'.committed = order.committed
      /\ order'.spilling = order.spilling /\ order'.handoffJobs = order.handoffJobs
  <2>1. FALSE \in BOOLEAN /\ order \in OrderStates BY <1>1 DEF Parts
  <2> QED BY <2>1, SetBlockedIs DEF SpillUnblock
<1>3. UNCHANGED <<memory, handoff, held, boundary, releaseUpto, readStart, inFlight, store, writer,
                  captured, fate>>
  BY DEF SpillUnblock, clearReqVars, readVars, spillVars, jobVars
<1>4. order'.handoffJobs <= order.handoffJobs BY <1>1, <1>2 DEF Parts
<1> QED BY <1>1, <1>2, <1>3, <1>4, HandoffShrinks DEF Pending

LEMMA FullKeeps ==
  ASSUME IInv, Types', Counted', SpillFull PROVE IInv'
<1>1. Parts /\ Types BY PartsTyped DEF IInv
<1> DEFINE n == Bytes(spill.hand)  o == FinishHandoff(order, 1, n)
<1>2. n \in Nat /\ 1 \in Nat /\ TRUE \in BOOLEAN /\ order \in OrderStates /\ 0 \in Nat
  BY <1>1, Numbers DEF Parts
<1>3. /\ o.consumed = order.consumed /\ o.committed = order.committed
      /\ o.spilling = order.spilling /\ o.handoffJobs = Minus(order.handoffJobs, 1)
  <2> HIDE DEF n
  <2> QED BY <1>2, FinishHandoffIs
<1>4. o \in OrderStates
  <2> HIDE DEF n
  <2> QED BY <1>2, NoneIs, OrderOps
<1>5. /\ order'.consumed = o.consumed /\ order'.committed = o.committed
      /\ order'.spilling = o.spilling /\ order'.handoffJobs = o.handoffJobs
  <2>1. order' = SetBlocked(o, TRUE) BY DEF SpillFull
  <2> HIDE DEF o
  <2> QED BY <1>2, <1>4, <2>1, SetBlockedIs
<1>6. order'.handoffJobs <= order.handoffJobs BY <1>1, <1>3, <1>5 DEF Minus, Parts
<1>7. /\ spill.pc = "job" /\ spill'.pc = "idle" /\ spill'.hand = <<>>
      /\ spill'.unflushed = spill.unflushed
  BY <1>1 DEF SpillFull, Types, SpillTyped, SpillStates
<1>8. \A j \in Jobs : Pending(j)' => Pending(j) /\ j \notin ToSet(spill.hand)
  BY SettleIs DEF SpillFull
<1>9. UNCHANGED <<memory, handoff, held, boundary, releaseUpto, readStart, inFlight, store, writer,
                  captured>>
  BY DEF SpillFull, clearReqVars, readVars
<1> HIDE DEF o, n
<1> QED BY <1>3, <1>5, <1>6, <1>7, <1>8, <1>9, ToSetEmpty, HandoffShrinks

LEMMA TakeKeeps ==
  ASSUME IInv, Types', Counted', SpillTake PROVE IInv'
<1>1. Parts /\ Types BY PartsTyped DEF IInv
<1> DEFINE free == {i \in DOMAIN handoff : ~MustHold(handoff[i])}
           first == IF free = {} THEN Len(handoff) + 1 ELSE Min(free)
           front == SubSeq(handoff, 1, first - 1)
           rest == SubSeq(handoff, first + 1, Len(handoff))
           taken == IF free = {} THEN <<>> ELSE <<handoff[first]>>
<1>2. /\ front \in Seq(Jobs) /\ rest \in Seq(Jobs)
      /\ ToSet(handoff) = ToSet(front) \cup ToSet(taken) \cup ToSet(rest)
  <2>1. free \subseteq DOMAIN handoff /\ handoff \in Seq(Jobs) BY <1>1 DEF Parts
  <2> HIDE DEF free
  <2> QED BY <2>1, TakeIs, ToSetEmpty
<1>3. /\ spill.pc = "idle" /\ spill.hand = <<>> /\ held' = held \o front /\ handoff' = rest
      /\ spill'.unflushed = spill.unflushed /\ spill'.hand = taken /\ spill'.pc \in {"idle", "job"}
  <2>1. spill.pc = "idle" /\ spill.hand = <<>> /\ spill \in SpillStates
    BY <1>1 DEF SpillTake, SpillIdle, Types, SpillTyped
  <2>2. /\ held' = held \o front /\ handoff' = rest
        /\ spill' = IF free = {} THEN spill ELSE [spill EXCEPT !.pc = "job", !.hand = <<handoff[first]>>]
    BY DEF SpillTake
  <2> HIDE DEF free, first, front, rest
  <2> QED BY <2>1, <2>2 DEF SpillStates
<1>4. ToSet(held') = ToSet(held) \cup ToSet(front)
  <2>1. held \in Seq(Jobs) /\ front \in Seq(Jobs) /\ held' = held \o front
    BY <1>1, <1>2, <1>3 DEF Parts
  <2> HIDE DEF front
  <2> QED BY <2>1, ToSetConcat
<1>5. UNCHANGED <<order, memory, boundary, releaseUpto, readStart, inFlight, store, writer, captured, fate>>
  BY DEF SpillTake, clearReqVars, readVars, jobVars
<1>6. order'.handoffJobs <= order.handoffJobs BY <1>1, <1>5 DEF Parts
<1> HIDE DEF front, rest, taken
<1> QED BY <1>2, <1>3, <1>4, <1>5, <1>6, ToSetEmpty, HandoffShrinks DEF Pending

(* A purge takes the boundaries that are recorded. *)
LEMMA PurgeStarts ==
  ASSUME IInv, Types', Counted', SpillPurge PROVE IInv'
<1>1. Parts /\ Types /\ Boundaries BY PartsTyped DEF IInv
<1>2. /\ spill'.hand = spill.hand /\ spill'.unflushed = spill.unflushed /\ spill.pc = "idle"
      /\ spill'.pc \in {"idle", "purging"}
  BY <1>1 DEF SpillPurge, SpillIdle, Types, SpillTyped, SpillStates
<1>3. UNCHANGED <<order, memory, handoff, held, releaseUpto, readStart, inFlight, store, writer,
                  captured, fate>>
  BY DEF SpillPurge, queueVars, readVars, jobVars
<1>4. Boundaries'
  <2>1. ASSUME NEW c \in Clears PROVE Separates(store, spill.unflushed, boundary'[c])
    <3>1. boundary'[c] \in {None, boundary[c]} BY DEF SpillPurge
    <3>2. Separates(store, spill.unflushed, None)
      <4>1. store.nextId \in Nat /\ store.active \in Nat BY <1>1, IdsAreNat DEF Parts
      <4>2. \A i \in 1 .. Len(spill.unflushed) : spill.unflushed[i].end.segment \in Nat
        BY <1>1, EntriesIs DEF Parts, Entries, Positions
      <4> QED BY <4>1, <4>2, NoneIs DEF Separates
    <3> QED BY <1>1, <3>1, <3>2 DEF Boundaries
  <2>2. ASSUME spill'.pc = "purging"
        PROVE  spill'.at.offset = 0 /\ Separates(store, spill.unflushed, spill'.at)
    <3> DEFINE top == Max({boundary[c].segment : c \in Recorded})
    <3>1. Recorded # {} /\ spill' = [spill EXCEPT !.pc = "purging", !.at = Pos(top, 0)]
      BY <1>2, <2>2 DEF SpillPurge
    <3>2. top \in Nat /\ \E c \in Recorded : top = boundary[c].segment
      BY <1>1, <3>1, RecordedIs DEF Types
    <3> HIDE DEF top
    <3>3. spill'.at = Pos(top, 0) /\ spill'.at.segment = top /\ spill'.at.offset = 0
      <4>1. spill'.at = Pos(top, 0) BY <1>1, <3>1 DEF Types, SpillTyped, SpillStates
      <4> QED BY <3>2, <4>1, PosIs
    <3>4. PICK c \in Clears : top = boundary[c].segment BY <1>1, <3>2 DEF Recorded, Types
    <3>5. Separates(store, spill.unflushed, boundary[c]) BY <1>1 DEF Boundaries
    <3> QED BY <3>3, <3>4, <3>5 DEF Separates
  <2> QED BY <1>2, <1>3, <2>1, <2>2 DEF Boundaries
<1>5. Placed(store)' /\ Known' /\ Ordered' BY <1>2, <1>3 DEF IInv, Known, Ordered
<1>6. Removable' /\ Unpublished' BY <1>2, <1>3 DEF IInv, Removable, PurgedBelow, Unpublished
<1>7. MemoryFirst' /\ InBatchOrSettled' /\ Somewhere'
  BY <1>2, <1>3 DEF IInv, MemoryFirst, InBatchOrSettled, Pending, Somewhere, Queued
<1> QED BY <1>4, <1>5, <1>6, <1>7 DEF IInv

(* A record is appended: the job moves from the hand to the file. *)
LEMMA AppendKeeps ==
  ASSUME IInv, Types', Counted', SpillAppend PROVE IInv'
<1>1. /\ Parts /\ Parts' /\ Types /\ Counted /\ Placed(store) /\ Known /\ Ordered /\ Removable
      /\ Boundaries /\ Unpublished /\ MemoryFirst /\ Somewhere
  BY PartsTyped DEF IInv
<1>2. PICK j \in Jobs : spill.hand = <<j>> BY <1>1 DEF SpillAppend, Types, SpillTyped
<1> DEFINE r == ReadyToAppend(store)  t == store'  u == spill.unflushed
           e == [job |-> j, end |-> WritePosition(t)]  c == order.committed
<1>3. StoreOK(store) /\ StoreOK(r) /\ StoreOK(t) /\ t = Appended(r, j) /\ r.active # NoSegment
  <2>1. t = AppendRecord(store, j) /\ StoreOK(store) BY <1>1, <1>2 DEF SpillAppend, Parts
  <2> QED BY <1>1, <2>1, AppendIs, ReadyIs DEF Parts
<1>4. Keeps(store, r) /\ Placed(r) /\ ~Before(r.committed, store.committed)
  BY <1>1, <1>3, ReadyKeeps DEF Keeps
<1>5. /\ spill.pc = "job" /\ spill'.pc = "idle" /\ spill'.hand = <<>> /\ spill'.unflushed = Append(u, e)
  BY <1>1, <1>2 DEF SpillAppend, Types, SpillTyped, SpillStates
<1>6. UNCHANGED <<order, memory, handoff, held, boundary, releaseUpto, readStart, inFlight, writer,
                  captured, fate>>
  BY DEF SpillAppend, queueVars, clearReqVars, readVars, jobVars
<1>7. c \in Positions /\ u \in Seq(Entries) /\ ~Before(r.committed, c) /\ r.committed \in Positions
      /\ ~Before(c, c)
  <2>1. r.committed \in Positions BY <1>3 DEF StoreOK
  <2>2. c \in Positions /\ u \in Seq(Entries) /\ store.committed \in Positions BY <1>1 DEF Parts
  <2>3. ~Before(store.committed, c) BY <1>1 DEF Ordered
  <2> HIDE DEF r, c, u
  <2> QED BY <1>4, <2>1, <2>2, <2>3, NotBefore
<1>8. Noted(r, u, c) BY <1>1, <1>3, <1>4, KeepsNoted DEF Unpublished, Parts
<1>9. /\ Placed(t) /\ t.active = r.active /\ t.nextId = r.nextId /\ t.committed = r.committed
      /\ e \in Entries /\ e.end.segment = t.active /\ Noted(t, Append(u, e), c)
      /\ \A n : Numbered(r, n) /\ j <= n => Numbered(t, n)
      /\ \A from, n : Clean(r, from, n) => Clean(t, from, n)
      /\ \A from, upto : /\ Between(t, from, upto) = Between(r, from, upto)
                         /\ NothingBetween(r, from, upto) => NothingBetween(t, from, upto)
  <2> HIDE DEF r, t, u, c
  <2> QED BY <1>3, <1>4, <1>7, <1>8, AppendedKeeps
<1>10. ToSet(spill.hand) = {j} /\ j \in 1 .. captured BY <1>1, <1>2, ToSetOne DEF Known
<1>11. Known'
  <2>1. Numbered(t, captured)
    <3>1. Numbered(r, captured) BY <1>1, <1>3, <1>4, KeepsNumbered DEF Known
    <3> QED BY <1>9, <1>10, <3>1
  <2> QED BY <1>1, <1>5, <1>6, <2>1, ToSetEmpty DEF Known
<1>12. Ordered' BY <1>1, <1>6, <1>7, <1>9, OrderedWhenCommitted
<1>13. Removable'
  <2>1. PurgedBelow = 0 /\ PurgedBelow' = 0 BY <1>5 DEF PurgedBelow
  <2>2. Clean(r, order.consumed, 0) BY <1>1, <1>3, <1>4, <2>1, KeepsClean DEF Removable
  <2> QED BY <1>6, <1>9, <2>1, <2>2 DEF Removable
<1>14. Boundaries'
  <2>1. ASSUME NEW p \in Clears PROVE Separates(t, Append(u, e), boundary[p])
    <3>1. Separates(r, u, boundary[p]) BY <1>1, <1>3, <1>4, KeepsSeparates DEF Boundaries, Parts
    <3>2. ASSUME NEW i \in 1 .. Len(Append(u, e))
          PROVE  boundary[p].segment <= Append(u, e)[i].end.segment
      <4>1. Len(Append(u, e)) = Len(u) + 1 /\ Len(u) \in Nat
            /\ Append(u, e)[i] = IF i = Len(u) + 1 THEN e ELSE u[i]
        <5> HIDE DEF e
        <5> QED BY <1>7, <1>9, AppendProperties, LenProperties
      <4>2. CASE i = Len(u) + 1 BY <1>3, <1>9, <3>1, <4>1, <4>2 DEF Separates
      <4>3. CASE i # Len(u) + 1
        <5>1. i \in 1 .. Len(u) /\ Append(u, e)[i] = u[i] BY <4>1, <4>3
        <5> QED BY <3>1, <5>1 DEF Separates
      <4> QED BY <4>2, <4>3
    <3> QED BY <1>9, <3>1, <3>2 DEF Separates
  <2> QED BY <1>5, <1>6, <2>1 DEF Boundaries
<1>15. Unpublished' BY <1>5, <1>6, <1>9 DEF Unpublished
<1>16. MemoryFirst' /\ InBatchOrSettled'
  <2>1. order.spilling /\ order'.spilling
    <3>1. order.handoffJobs > 0
      <4>1. Len(spill.hand) = 1 BY <1>2, Empty
      <4>2. order.handoffJobs = Len(handoff) + Len(held) + Len(spill.hand) + Len(spill.unflushed)
        BY <1>1 DEF Counted
      <4>3. Len(handoff) \in Nat /\ Len(held) \in Nat /\ Len(spill.unflushed) \in Nat BY <1>1, Numbers
      <4> DEFINE m == Len(handoff)  n == Len(held)  i == Len(spill.hand)  k == Len(spill.unflushed)
      <4>4. order.handoffJobs = m + n + i + k /\ m \in Nat /\ n \in Nat /\ k \in Nat /\ i = 1
        BY <4>1, <4>2, <4>3
      <4> HIDE DEF m, n, i, k
      <4> QED BY <4>4
    <3> QED BY <1>1, <1>6, <3>1 DEF MemoryFirst
  <2>2. Narrows(store, r, order.consumed) BY <1>1, <1>3, <1>4, KeepsNarrows DEF Parts
  <2>3. ASSUME NEW p \in Positions, ~Before(order.committed, p)
        PROVE  /\ Between(t, order.consumed, p) \subseteq Between(store, order.consumed, p)
               /\ NothingBetween(store, order.consumed, p) => NothingBetween(t, order.consumed, p)
    <3>1. store.committed \in Positions /\ order.committed \in Positions BY <1>1 DEF Parts
    <3>2. ~Before(store.committed, order.committed) BY <1>1 DEF Ordered
    <3>3. ~Before(store.committed, p) BY <2>3, <3>1, <3>2, NotBefore
    <3> QED BY <1>9, <2>2, <3>3, <2>3 DEF Narrows
  <2>4. /\ NothingBetween(store, order.consumed, inFlight.next) => NothingBetween(t, order.consumed, inFlight.next)
        /\ NothingBetween(store, order.consumed, writer.upto) => NothingBetween(t, order.consumed, writer.upto)
        /\ Between(t, order.consumed, writer.upto) \subseteq Between(store, order.consumed, writer.upto)
    BY <1>1, <2>3 DEF Parts, Ordered
  <2>5. MemoryFirst' BY <1>1, <1>6, <2>1, <2>4 DEF MemoryFirst
  <2>6. InBatchOrSettled' BY <1>6, <2>4 DEF InBatchOrSettled, IInv, Pending
  <2> QED BY <2>5, <2>6
<1>17. Somewhere'
  <2>1. Beyond(store, order.consumed) \subseteq Beyond(t, order.consumed)
    <3>1. Beyond(store, order.consumed) \subseteq Beyond(r, order.consumed)
      BY <1>1, <1>3, <1>4, KeepsStream DEF Parts
    <3> QED BY <1>9, <3>1 DEF Beyond
  <2>2. ToSet(JobsOf(Append(u, e))) = ToSet(JobsOf(u)) \cup {j}
    <3>1. JobsOf(u) \in Seq(Jobs) BY <1>7, EntriesIs
    <3>2. JobsOf(Append(u, e)) = Append(JobsOf(u), j)
      <4>1. e.job = j OBVIOUS
      <4> HIDE DEF e
      <4> QED BY <1>7, <1>9, <4>1, JobsOfAppend
    <3> HIDE DEF e, u
    <3> QED BY <3>1, <3>2, ToSetAppend
  <2>3. \A x \in Jobs : x \in Queued => x \in Queued' BY <1>5, <1>6, <1>10, <2>2 DEF Queued
  <2> QED BY <1>1, <1>6, <2>1, <2>3 DEF Somewhere, Pending
<1> QED BY <1>9, <1>11, <1>12, <1>13, <1>14, <1>15, <1>16, <1>17 DEF IInv

--------------------
(* Files go. *)
(* What holds of a position holds of a later one. *)
LEMMA FromLater ==
  ASSUME NEW s, StoreOK(s), NEW from \in Positions, NEW later \in Positions, ~Before(later, from)
  PROVE  /\ NothingBeyond(s, from) => NothingBeyond(s, later)
         /\ \A upto : NothingBetween(s, from, upto) => NothingBetween(s, later, upto)
         /\ \A upto : Between(s, later, upto) \subseteq Between(s, from, upto)
         /\ \A n : Clean(s, from, n) => Clean(s, later, n)
<1>1. ASSUME NEW id \in Ids(s), NEW k \in Nat, Before(later, Pos(id, k)) PROVE Before(from, Pos(id, k))
  <2>1. Pos(id, k) \in Positions BY IdsAreNat, PosIs
  <2> QED BY <1>1, <2>1, NotBefore
<1>2. \A id \in Ids(s) : /\ \A k \in 1 .. Length(s, id) : Before(later, Pos(id, k)) => Before(from, Pos(id, k))
                         /\ \A k \in 1 .. OnDisk(s, id) : Before(later, Pos(id, k)) => Before(from, Pos(id, k))
  <2>1. \A id \in Ids(s) : Length(s, id) \in Nat /\ OnDisk(s, id) \in Nat BY Lengths
  <2> QED BY <1>1, <2>1
<1>3. NothingBeyond(s, from) => NothingBeyond(s, later) BY <1>2 DEF NothingBeyond
<1>4. \A upto : NothingBetween(s, from, upto) => NothingBetween(s, later, upto)
  BY <1>2 DEF NothingBetween
<1>5. \A upto : Between(s, later, upto) \subseteq Between(s, from, upto) BY <1>2 DEF Between
<1>6. \A n : Clean(s, from, n) => Clean(s, later, n)
  <2>1. s.deletes \subseteq Ids(s) BY DEF StoreOK
  <2> QED BY <1>2, <2>1 DEF Clean
<1> QED BY <1>3, <1>4, <1>5, <1>6

(* Files that hold nothing the spill thread still remembers go, perhaps
   after the active one was closed. *)
LEMMA FilesGone ==
  ASSUME IInv, Types', Counted', NEW u, StoreOK(u), Keeps(store, u), Fewer(u, store'), Placed(store'),
         ~Before(store'.committed, u.committed),
         \A i \in 1 .. Len(spill.unflushed) :
           spill.unflushed[i].end.segment \in Ids(store') \ store'.deletes,
         UNCHANGED <<order, memory, handoff, held, boundary, readStart, inFlight, writer, captured>>,
         releaseUpto' \in {releaseUpto, None},
         spill'.hand = spill.hand, spill'.unflushed = spill.unflushed,
         \A j \in Jobs : Pending(j)' => Pending(j)
  PROVE  /\ Known' /\ Ordered' /\ Unpublished' /\ MemoryFirst' /\ InBatchOrSettled'
         /\ \A p \in Positions : Separates(store, spill.unflushed, p) => Separates(store', spill.unflushed, p)
<1>1. /\ Parts /\ Parts' /\ Types /\ Placed(store) /\ Known /\ Ordered /\ Unpublished
  BY PartsTyped DEF IInv
<1> DEFINE t == store'
<1>2. StoreOK(store) /\ StoreOK(t) BY <1>1 DEF Parts
<1>3. Known'
  <2>1. Numbered(t, captured) BY <1>1, <1>2, KeepsNumbered, FewerIs DEF Known
  <2> QED BY <1>1, <2>1 DEF Known
<1>4. ~Before(t.committed, store.committed) /\ ~Before(t.committed, order.committed)
  <2>1. u.committed \in Positions /\ ~Before(u.committed, store.committed) BY DEF StoreOK, Keeps
  <2>2. ~Before(t.committed, store.committed) BY <1>1, <2>1, NotBefore DEF Parts
  <2> QED BY <1>1, <2>2, NotBefore DEF Parts, Ordered
<1>5. Ordered'
  <2>1. ~Before(order.consumed, releaseUpto')
    <3>1. ~Before(order.consumed, releaseUpto) /\ order.consumed.segment > 0 BY <1>1 DEF Ordered
    <3>2. order.consumed \in Positions BY <1>1 DEF Parts
    <3>3. ~Before(order.consumed, None) BY <3>1, <3>2, NoneIs DEF Before, Positions
    <3> QED BY <3>1, <3>3
  <2> QED BY <1>1, <1>4, <2>1 DEF Ordered
<1>6. Unpublished'
  <2>1. Noted(u, spill.unflushed, order.committed) BY <1>1, <1>2, KeepsNoted DEF Unpublished, Parts
  <2>2. Noted(t, spill.unflushed, order.committed)
    <3> HIDE DEF t
    <3> QED BY <1>1, <1>2, <2>1, FewerNoted DEF Parts, t
  <2> QED BY <2>2 DEF Unpublished
<1>7. MemoryFirst' /\ InBatchOrSettled'
  <2>1. Narrows(store, u, order.consumed) BY <1>1, <1>2, KeepsNarrows DEF Parts
  <2>2. Narrows(store, t, order.consumed) BY <1>2, <2>1, FewerIs DEF Narrows
  <2> QED BY <1>1, <2>2, ReadersWhenKept DEF Parts
<1>8. \A p \in Positions : Separates(store, spill.unflushed, p) => Separates(t, spill.unflushed, p)
  BY <1>2, KeepsSeparates, FewerIs
<1> QED BY <1>3, <1>5, <1>6, <1>7, <1>8

LEMMA DeletesNothing ==
  ASSUME NEW p \in Positions
  PROVE  Pos(0, 0) \in Positions /\ Later(p, Pos(0, 0)) = p
<1>1. Pos(0, 0) \in Positions /\ Pos(0, 0).segment = 0 /\ Pos(0, 0).offset = 0 BY PosIs
<1> QED BY <1>1 DEF Later, Before, Positions

(* Deleting files changes nothing about the others. *)
LEMMA DeletePlaced ==
  ASSUME NEW u, StoreOK(u), Placed(u), NEW ids \in SUBSET Ids(u), NEW failed
  PROVE  /\ Deleted(u, Delete(u, ids, failed), ids, failed)
         /\ Fewer(u, Delete(u, ids, failed)) /\ Placed(Delete(u, ids, failed))
<1> DEFINE t == Delete(u, ids, failed)
<1>1. Deleted(u, t, ids, failed) BY DeleteIs
<1> HIDE DEF t
<1>2. Fewer(u, t) BY <1>1 DEF Deleted, Fewer
<1>3. Placed(t)
  <2>1. u.committed \in Positions /\ u.nextId \in Nat /\ u.active \in Nat BY IdsAreNat DEF StoreOK
  <2>2. Pos(0, 0) \in Positions /\ t.committed = Later(u.committed, Pos(0, 0))
        /\ Pos(0, 0).segment = 0 /\ Pos(0, 0).offset = 0
    BY <1>1, <2>1, DeletesNothing, PosIs DEF Deleted
  <2>3. StoreOK(t) BY <1>1 DEF Deleted
  <2> QED BY <1>2, <2>1, <2>2, <2>3, FewerPlaced
<1> QED BY <1>1, <1>2, <1>3 DEF t

LEMMA RetryKeeps ==
  ASSUME IInv, Types', Counted', SpillRetryDeletes PROVE IInv'
<1>1. /\ Parts /\ Parts' /\ Types /\ Placed(store) /\ Removable /\ Boundaries /\ Unpublished /\ Somewhere
  BY PartsTyped DEF IInv
<1> DEFINE t == store'
<1>2. StoreOK(store) /\ store.deletes \in SUBSET Ids(store) /\ spill' = spill /\ spill.pc = "idle"
  BY <1>1 DEF SpillRetryDeletes, Parts, StoreOK
<1>3. /\ StoreOK(t) /\ Fewer(store, t) /\ Placed(t) /\ t.committed = store.committed
      /\ Ids(t) = Ids(store) \ ((store.deletes \ {store.active}) \ {})
      /\ t.deletes \subseteq store.deletes \cup store.deletes
  <2>1. t = Delete(store, store.deletes, {}) BY DEF SpillRetryDeletes
  <2>2. Deleted(store, t, store.deletes, {}) /\ Fewer(store, t) /\ Placed(t)
    BY <1>1, <1>2, <2>1, DeletePlaced
  <2> HIDE DEF t
  <2> QED BY <2>2 DEF Deleted
<1>4. UNCHANGED <<order, memory, handoff, held, boundary, readStart, inFlight, writer, captured, releaseUpto, fate>>
  BY DEF SpillRetryDeletes, queueVars, clearReqVars, readVars, jobVars
<1>5. Keeps(store, store) /\ ~Before(t.committed, store.committed)
  BY <1>1, <1>2, <1>3, KeepsItself, NotBefore DEF Parts
<1>6. \A i \in 1 .. Len(spill.unflushed) : spill.unflushed[i].end.segment \in Ids(t) \ t.deletes
  BY <1>1, <1>3 DEF Unpublished, Noted, Remembered
<1>7. /\ Known' /\ Ordered' /\ Unpublished' /\ MemoryFirst' /\ InBatchOrSettled'
      /\ \A p \in Positions : Separates(store, spill.unflushed, p) => Separates(t, spill.unflushed, p)
  <2>1. releaseUpto' \in {releaseUpto, None} /\ spill'.hand = spill.hand
        /\ spill'.unflushed = spill.unflushed /\ \A j \in Jobs : Pending(j)' => Pending(j)
    BY <1>2, <1>4 DEF Pending
  <2> QED BY <1>2, <1>3, <1>4, <1>5, <1>6, <2>1, FilesGone
<1>8. \A id \in store.deletes : \A k \in 1 .. Length(store, id) : ~Before(order.consumed, Pos(id, k))
  <2>1. PurgedBelow = 0 /\ \A id \in store.deletes : ~(id < 0) BY <1>2, IdsAreNat DEF PurgedBelow
  <2> QED BY <1>1, <2>1 DEF Removable, Clean
<1>9. Removable'
  <2>1. \A id \in t.deletes : id \in store.deletes /\ Length(t, id) = Length(store, id)
    BY <1>2, <1>3, FewerIs DEF StoreOK
  <2> QED BY <1>2, <1>4, <1>8, <2>1 DEF Removable, Clean
<1>10. Boundaries' BY <1>1, <1>2, <1>4, <1>7 DEF Boundaries, Parts
<1>11. Somewhere'
  <2> SUFFICES ASSUME NEW j \in Jobs, Pending(j), j \in Beyond(store, order.consumed)
               PROVE  j \in Beyond(t, order.consumed)
    BY <1>1, <1>2, <1>4 DEF Somewhere, Queued, Pending
  <2>1. ASSUME j \notin Beyond(t, order.consumed) PROVE FALSE
    <3>1. PICK id \in Ids(store) \ Ids(t) : \E k \in 1 .. OnDisk(store, id) :
            j = store.files[id][k] /\ Before(order.consumed, Pos(id, k))
      <4>1. StoreOK(t) /\ Fewer(store, t) /\ order.consumed \in Positions BY <1>1, <1>3 DEF Parts
      <4> HIDE DEF t
      <4> QED BY <1>2, <2>1, <4>1, FewerBeyond
    <3>2. \A k \in 1 .. OnDisk(store, id) : k \in 1 .. Length(store, id) BY <1>2, Lengths
    <3> QED BY <1>3, <1>8, <3>1, <3>2
  <2> QED BY <2>1
<1> QED BY <1>3, <1>7, <1>9, <1>10, <1>11 DEF IInv

LEMMA ReleaseKeeps ==
  ASSUME IInv, Types', Counted', SpillRelease PROVE IInv'
<1>1. /\ Parts /\ Parts' /\ Types /\ Placed(store) /\ Ordered /\ Removable /\ Boundaries /\ Unpublished
      /\ Somewhere
  BY PartsTyped DEF IInv
<1> DEFINE t == store'  c == releaseUpto  gone == Consumed(store, c)
           u == IF FullyRead(store, c) THEN CloseActive(store, store.flushed) ELSE store
<1>2. StoreOK(store) /\ spill' = spill /\ spill.pc = "idle" /\ c \in Positions
  BY <1>1 DEF SpillRelease, SpillIdle, Parts
<1>3. PICK failed \in Undeletable : t = ReleaseConsumed(store, c, failed) BY DEF SpillRelease
<1>4. StoreOK(u) /\ gone \in SUBSET Ids(u) /\ t = Delete(u, gone, failed) BY <1>2, <1>3, ReleaseIs
<1>5. Keeps(store, u)
  <2>1. CASE FullyRead(store, c) BY <1>1, <1>2, <2>1, EverythingKept, CloseKeeps
  <2>2. CASE ~FullyRead(store, c) BY <1>1, <1>2, <2>2, KeepsItself
  <2> QED BY <2>1, <2>2
<1> HIDE DEF t, u
<1>6. /\ StoreOK(t) /\ Fewer(u, t) /\ Placed(t) /\ t.committed = u.committed
      /\ Ids(t) = Ids(u) \ ((gone \ {u.active}) \ failed)
      /\ t.deletes \subseteq u.deletes \cup gone
  <2>1. Placed(u) BY <1>5 DEF Keeps
  <2> HIDE DEF gone
  <2>2. Deleted(u, t, gone, failed) /\ Fewer(u, t) /\ Placed(t) BY <1>4, <2>1, DeletePlaced
  <2> QED BY <2>2 DEF Deleted
<1>7. /\ UNCHANGED <<order, memory, handoff, held, boundary, readStart, inFlight, writer, captured, fate>>
      /\ releaseUpto' = None
  BY DEF SpillRelease, queueVars, clearReqVars, jobVars
<1>8. ~Before(t.committed, u.committed) BY <1>4, <1>6, NotBefore DEF StoreOK
<1>9. ASSUME NEW i \in 1 .. Len(spill.unflushed)
      PROVE  spill.unflushed[i].end.segment \in Ids(t) \ t.deletes
  <2> DEFINE e == spill.unflushed[i]
  <2>1. e \in Entries /\ Remembered(store, order.committed, e)
    BY <1>1, EntriesIs DEF Parts, Unpublished, Noted
  <2>2. ~Before(order.committed, c)
    <3>1. order.committed \in Positions /\ order.consumed \in Positions BY <1>1 DEF Parts
    <3>2. ~Before(order.committed, order.consumed) /\ ~Before(order.consumed, c) BY <1>1 DEF Ordered
    <3> HIDE DEF c
    <3> QED BY <1>2, <3>1, <3>2, NotBefore
  <2>3. e.end.segment \notin gone BY <1>1, <1>2, <2>1, <2>2, ConsumedNotRemembered DEF Parts
  <2>4. e.end.segment \in Ids(u) \ u.deletes BY <1>5, <2>1 DEF Keeps, Remembered
  <2> HIDE DEF gone
  <2> QED BY <1>6, <2>3, <2>4
<1>10. /\ Known' /\ Ordered' /\ Unpublished' /\ MemoryFirst' /\ InBatchOrSettled'
       /\ \A p \in Positions : Separates(store, spill.unflushed, p) => Separates(t, spill.unflushed, p)
  <2>1. releaseUpto' \in {releaseUpto, None} /\ spill'.hand = spill.hand
        /\ spill'.unflushed = spill.unflushed /\ \A j \in Jobs : Pending(j)' => Pending(j)
    BY <1>2, <1>7 DEF Pending
  <2> QED BY <1>4, <1>5, <1>6, <1>7, <1>8, <1>9, <2>1, FilesGone DEF t
<1>11. ASSUME NEW id \in gone, NEW k \in 1 .. Length(store, id)
       PROVE  ~Before(order.consumed, Pos(id, k))
  <2>1. ~Before(c, Pos(id, k)) BY <1>1, <1>2, ConsumedIs
  <2>2. ~Before(order.consumed, c) BY <1>1 DEF Ordered
  <2>3. Pos(id, k) \in Positions
    <3>1. id \in Nat BY <1>4, IdsAreNat
    <3> QED BY <3>1, PosIs
  <2>4. order.consumed \in Positions /\ c \in Positions BY <1>1, <1>2 DEF Parts
  <2> HIDE DEF c, gone
  <2> QED BY <2>1, <2>2, <2>3, <2>4, NotBefore
<1>12. Removable'
  <2>1. PurgedBelow = 0 /\ PurgedBelow' = 0 BY <1>2 DEF PurgedBelow
  <2>2. Clean(u, order.consumed, 0) BY <1>1, <1>2, <1>4, <1>5, <2>1, KeepsClean DEF Removable
  <2>3. \A id \in Ids(t) : Length(t, id) = Length(u, id) BY <1>4, <1>6, FewerIs
  <2>4. \A id \in Ids(u) : \A k \in 1 .. Length(u, id) : k \in 1 .. Length(store, id)
    <3>1. \A id \in Ids(u) : \A k \in 1 .. Length(u, id) : k <= Length(store, id) /\ id \in Ids(store)
      BY <1>5 DEF Keeps
    <3>2. \A id : Length(u, id) \in Nat /\ Length(store, id) \in Nat BY <1>2, <1>4, Lengths
    <3> QED BY <3>1, <3>2
  <2>5. ASSUME NEW id \in t.deletes, NEW k \in 1 .. Length(t, id) PROVE ~Before(order.consumed, Pos(id, k)) \/ id < 0
    <3>1. id \in Ids(t) /\ id \in Ids(u) /\ id \in u.deletes \cup gone BY <1>6 DEF StoreOK, Fewer
    <3>2. k \in 1 .. Length(u, id) /\ k \in 1 .. Length(store, id) BY <2>3, <2>4, <3>1
    <3>3. CASE id \in u.deletes BY <2>2, <3>2, <3>3 DEF Clean
    <3>4. CASE id \in gone BY <1>11, <3>2, <3>4
    <3> HIDE DEF gone
    <3> QED BY <3>1, <3>3, <3>4
  <2> QED BY <1>7, <2>1, <2>5 DEF Removable, Clean, t
<1>13. Boundaries' BY <1>1, <1>2, <1>7, <1>10 DEF Boundaries, Parts, t
<1>14. Somewhere'
  <2> SUFFICES ASSUME NEW j \in Jobs, Pending(j), j \in Beyond(store, order.consumed)
               PROVE  j \in Beyond(t, order.consumed)
    BY <1>1, <1>2, <1>7 DEF Somewhere, Queued, Pending, t
  <2>1. j \in Beyond(u, order.consumed) BY <1>1, <1>2, <1>4, <1>5, KeepsStream DEF Parts
  <2>2. ASSUME j \notin Beyond(t, order.consumed) PROVE FALSE
    <3>1. PICK id \in Ids(u) \ Ids(t) : \E k \in 1 .. OnDisk(u, id) :
            j = u.files[id][k] /\ Before(order.consumed, Pos(id, k))
      <4>1. StoreOK(u) /\ StoreOK(t) /\ Fewer(u, t) /\ order.consumed \in Positions
        BY <1>1, <1>4, <1>6 DEF Parts
      <4> QED BY <2>1, <2>2, <4>1, FewerBeyond
    <3>2. \A k \in 1 .. OnDisk(u, id) : k \in 1 .. Length(store, id)
      <4>1. OnDisk(u, id) \in Nat /\ Length(u, id) \in Nat /\ OnDisk(u, id) <= Length(u, id)
        BY <1>4, Lengths
      <4>2. \A k \in 1 .. Length(u, id) : k <= Length(store, id) BY <1>5, <3>1 DEF Keeps
      <4>3. Length(store, id) \in Nat BY <1>2, Lengths
      <4> QED BY <4>1, <4>2, <4>3
    <3>3. id \in gone
      <4> HIDE DEF gone
      <4> QED BY <1>6, <3>1
    <3> QED BY <1>11, <3>1, <3>2, <3>3
  <2> QED BY <2>2
<1> QED BY <1>6, <1>10, <1>12, <1>13, <1>14 DEF IInv, t

(* A purge deletes the files before its boundary; what was not read from
   them is discarded, unless the writer holds it. *)
LEMMA PurgeDeletes ==
  ASSUME IInv, Types', Counted', SpillPurgeDelete PROVE IInv'
<1>1. /\ Parts /\ Parts' /\ Types /\ Placed(store) /\ Ordered /\ Removable /\ Boundaries /\ Unpublished
      /\ Somewhere
  BY PartsTyped DEF IInv
<1> DEFINE t == store'  p == spill.at  old == Older(store, p)
<1>2. PICK failed \in Undeletable : t = PurgeBefore(store, p, failed) BY DEF SpillPurgeDelete
<1>3. /\ StoreOK(store) /\ p \in Positions /\ p.offset = 0 /\ Separates(store, spill.unflushed, p)
      /\ spill.pc = "purging" /\ spill'.pc = "purged" /\ spill'.at = p
      /\ spill'.hand = spill.hand /\ spill'.unflushed = spill.unflushed
  <2>1. spill' = [spill EXCEPT !.pc = "purged"] /\ spill.pc = "purging" /\ spill \in SpillStates
    BY <1>1 DEF SpillPurgeDelete, Types, SpillTyped
  <2>2. p \in Positions /\ StoreOK(store) /\ p.offset = 0 /\ Separates(store, spill.unflushed, p)
    BY <1>1, <2>1 DEF Parts, Boundaries
  <2> QED BY <2>1, <2>2 DEF SpillStates
<1>4. /\ UNCHANGED <<order, memory, handoff, held, boundary, readStart, inFlight, writer, captured, releaseUpto>>
  BY DEF SpillPurgeDelete, queueVars, clearReqVars, readVars
<1> HIDE DEF t
<1>5. /\ StoreOK(t) /\ Fewer(store, t) /\ t.committed = Later(store.committed, p)
      /\ Ids(t) = Ids(store) \ ((old \ {store.active}) \ failed)
      /\ t.deletes \subseteq store.deletes \cup old
  <2> DEFINE u == Delete(store, old, failed)
  <2>1. Deleted(store, u, old, failed)
    <3>1. old \in SUBSET Ids(store) BY DEF Older
    <3> HIDE DEF old
    <3> QED BY <1>3, <3>1, DeleteIs
  <2>2. /\ StoreOK(t) /\ t.files = u.files /\ t.active = u.active /\ t.nextId = u.nextId
        /\ t.flushed = u.flushed /\ t.deletes = u.deletes /\ t.committed = Later(u.committed, p)
    BY <1>2, <1>3, PurgeIs
  <2> HIDE DEF u, old
  <2> QED BY <2>1, <2>2 DEF Deleted, Fewer, Ids
<1>6. Placed(t) /\ ~Before(t.committed, store.committed) /\ ~Before(t.committed, p)
  <2>1. p.segment <= store.nextId /\ (store.active # NoSegment => p.segment <= store.active)
    BY <1>3 DEF Separates
  <2> HIDE DEF p
  <2> QED BY <1>1, <1>3, <1>5, <2>1, FewerPlaced
<1>7. ASSUME NEW i \in 1 .. Len(spill.unflushed)
      PROVE  spill.unflushed[i].end.segment \in Ids(t) \ t.deletes
  <2> DEFINE n == spill.unflushed[i].end.segment
  <2>1. n \in Ids(store) \ store.deletes BY <1>1 DEF Unpublished, Noted, Remembered
  <2>2. p.segment <= n /\ p.segment \in Nat /\ n \in Nat
    BY <1>3, <2>1, IdsAreNat DEF Separates, Positions
  <2>3. n \notin old
    <3> HIDE DEF n
    <3> QED BY <2>2 DEF Older
  <2> HIDE DEF old
  <2> QED BY <1>5, <2>1, <2>3
<1>8. \A j \in Jobs : Pending(j)' => Pending(j) /\ j \notin Skipped(p)
  BY SettleIs DEF SpillPurgeDelete
<1>9. /\ Known' /\ Ordered' /\ Unpublished' /\ MemoryFirst' /\ InBatchOrSettled'
      /\ \A q \in Positions : Separates(store, spill.unflushed, q) => Separates(t, spill.unflushed, q)
  <2>1. Keeps(store, store) /\ releaseUpto' \in {releaseUpto, None} BY <1>1, <1>3, <1>4, KeepsItself
  <2> QED BY <1>3, <1>4, <1>5, <1>6, <1>7, <1>8, <2>1, FilesGone DEF t
<1>10. Removable'
  <2>1. ASSUME NEW id \in t.deletes, NEW k \in 1 .. Length(t, id)
        PROVE  ~Before(order.consumed, Pos(id, k)) \/ id < p.segment
    <3>1. id \in Ids(t) /\ id \in store.deletes \cup old /\ Length(t, id) = Length(store, id)
      BY <1>3, <1>5, FewerIs DEF StoreOK
    <3>2. CASE id \in store.deletes
      <4>1. PurgedBelow = 0 /\ ~(id < 0) BY <1>3, <3>1, <1>5, IdsAreNat DEF PurgedBelow
      <4> QED BY <1>1, <3>1, <3>2, <4>1 DEF Removable, Clean
    <3>3. CASE id \in old BY <3>3 DEF Older
    <3> HIDE DEF old
    <3> QED BY <3>1, <3>2, <3>3
  <2>2. PurgedBelow' = p.segment BY <1>3 DEF PurgedBelow
  <2> QED BY <1>4, <2>1, <2>2 DEF Removable, Clean, t
<1>11. Boundaries' BY <1>1, <1>3, <1>4, <1>6, <1>9 DEF Boundaries, Parts, t
<1>12. Somewhere'
  <2> SUFFICES ASSUME NEW j \in Jobs, Pending(j)', j \in Beyond(store, order.consumed),
                      j \notin Beyond(t, order.consumed)
               PROVE  j \in ToSet(writer.batch)
    BY <1>1, <1>3, <1>4, <1>8 DEF Somewhere, Queued, t
  <2>1. PICK id \in Ids(store) \ Ids(t) : \E k \in 1 .. OnDisk(store, id) :
          j = store.files[id][k] /\ Before(order.consumed, Pos(id, k))
    <3>1. order.consumed \in Positions BY <1>1 DEF Parts
    <3> HIDE DEF old, p
    <3> QED BY <1>3, <1>5, <3>1, FewerBeyond
  <2>2. PICK k \in 1 .. OnDisk(store, id) : j = store.files[id][k] /\ Before(order.consumed, Pos(id, k))
    BY <2>1
  <2>3. id < p.segment
    <3>1. id \in old
      <4> HIDE DEF old
      <4> QED BY <1>5, <2>1
    <3> QED BY <3>1 DEF Older
  <2>4. Pos(id, k) \in Positions /\ Pos(id, k).segment = id
    <3>1. id \in Nat /\ k \in Nat
      <4>1. OnDisk(store, id) \in Nat BY <1>3, Lengths
      <4> QED BY <1>3, <2>1, <4>1, IdsAreNat
    <3> QED BY <3>1, PosIs
  <2>5. Before(Pos(id, k), p) /\ ~Before(p, Pos(id, k))
    <3> HIDE DEF p
    <3> QED BY <1>3, <2>3, <2>4 DEF Before, Positions
  <2>6. Before(order.consumed, p)
    <3>1. order.consumed \in Positions /\ p \in Positions BY <1>1, <1>3 DEF Parts
    <3> HIDE DEF p
    <3> QED BY <2>2, <2>4, <2>5, <3>1, NotBefore
  <2>7. j \in Between(store, order.consumed, p) BY <2>1, <2>2, <2>5 DEF Between
  <2>8. j \in Unread(p) BY <1>1, <1>3, <2>7, UnreadIs
  <2> QED BY <1>8, <2>6, <2>8 DEF Skipped
<1> QED BY <1>6, <1>9, <1>10, <1>11, <1>12 DEF IInv, t

--------------------
(* The stream is consumed, and the queue returns to memory. *)
(* In memory nothing is left in the files. *)
LEMMA MemoryAlone ==
  ASSUME Types, Types', Counted', MemoryFirst, store' = store, Resumes(order, order'),
         Noted(store, spill'.unflushed, order'.committed), ~Before(order'.consumed, order.consumed)
  PROVE  /\ order'.handoffJobs > 0 => order'.spilling
         /\ ~order'.spilling => NothingBeyond(store', order'.consumed)
<1>1. Parts /\ Parts' BY PartsTyped
<1>2. order.handoffJobs \in Nat /\ order'.handoffJobs \in Nat /\ order.spilling \in BOOLEAN
      /\ order'.spilling \in BOOLEAN
  BY <1>1 DEF Parts
<1>3. order'.handoffJobs > 0 => order'.spilling BY <1>2 DEF Resumes, MemoryFirst
<1>4. ASSUME ~order'.spilling PROVE NothingBeyond(store, order'.consumed)
  <2>1. CASE ~order.spilling
    <3>1. NothingBeyond(store, order.consumed) BY <2>1 DEF MemoryFirst
    <3> QED BY <1>1, <3>1, FromLater DEF Parts
  <2>2. CASE order.spilling
    <3>1. order'.handoffJobs = 0 /\ ~Before(order'.consumed, order'.committed)
      BY <1>4, <2>2 DEF Resumes
    <3>2. Len(spill'.unflushed) = 0
      <4> DEFINE m == Len(handoff')  n == Len(held')  i == Len(spill'.hand)  k == Len(spill'.unflushed)
      <4>1. order'.handoffJobs = m + n + i + k BY DEF Counted
      <4>2. m \in Nat /\ n \in Nat /\ i \in Nat /\ k \in Nat
        <5>1. handoff' \in Seq(Jobs) /\ held' \in Seq(Jobs) /\ spill'.hand \in Seq(Jobs)
              /\ spill'.unflushed \in Seq(Entries)
          BY <1>1 DEF Parts
        <5> QED BY <5>1, LenProperties
      <4>3. k = 0
        <5> HIDE DEF m, n, i, k
        <5> QED BY <3>1, <4>1, <4>2
      <4> QED BY <4>3
    <3>3. ASSUME NEW id \in Ids(store), NEW k \in 1 .. Length(store, id)
          PROVE  ~Before(order'.consumed, Pos(id, k))
      <4>1. ~Before(order'.committed, Pos(id, k)) BY <3>2 DEF Noted
      <4>2. Pos(id, k) \in Positions
        <5>1. id \in Nat /\ k \in Nat
          <6>1. Length(store, id) \in Nat /\ id \in Nat BY <1>1, Lengths, IdsAreNat DEF Parts
          <6> QED BY <6>1
        <5> QED BY <5>1, PosIs
      <4> QED BY <1>1, <3>1, <4>1, <4>2, NotBefore DEF Parts
    <3> QED BY <3>3 DEF NothingBeyond
  <2> QED BY <2>1, <2>2
<1> QED BY <1>3, <1>4

(* What is passed over. *)
LEMMA PassedOver ==
  ASSUME NEW s, StoreOK(s), NEW from \in Positions, NEW p \in Positions,
         NEW j \in Beyond(s, from), j \notin Beyond(s, Later(from, p))
  PROVE  Before(from, p) /\ j \in Between(s, from, p)
<1> DEFINE q == Later(from, p)  z == Pos(s.nextId, 0)
<1>1. PICK id \in Ids(s) : \E k \in 1 .. OnDisk(s, id) :
        j = s.files[id][k] /\ Before(from, Pos(id, k)) /\ ~Before(z, Pos(id, k))
  BY DEF Beyond, Between
<1>2. PICK k \in 1 .. OnDisk(s, id) :
        j = s.files[id][k] /\ Before(from, Pos(id, k)) /\ ~Before(z, Pos(id, k))
  BY <1>1
<1>3. j \in Jobs /\ ~Before(q, Pos(id, k)) BY <1>2 DEF Beyond, Between
<1>4. q \in {from, p} BY LaterIs
<1>5. q = p /\ Before(from, p)
  <2>1. q # from BY <1>2, <1>3
  <2> QED BY <1>4, <2>1 DEF Later
<1> HIDE DEF q
<1> QED BY <1>2, <1>3, <1>5 DEF Between

(* The stream continues at the boundary of a purge. *)
LEMMA PurgeSkips ==
  ASSUME IInv, Types', Counted', SpillPurgeSkip PROVE IInv'
<1>1. /\ Parts /\ Parts' /\ Types /\ Placed(store) /\ Known /\ Ordered /\ Removable /\ Boundaries
      /\ Unpublished /\ MemoryFirst /\ InBatchOrSettled /\ Somewhere
  BY PartsTyped DEF IInv
<1> DEFINE p == spill.at  a == order.consumed  c == order.committed
           o == SetCommitted(order, p)  q == SetConsumed(o, p)
<1>2. /\ spill.pc = "purged" /\ spill'.pc = "idle" /\ spill'.hand = spill.hand
      /\ spill'.unflushed = spill.unflushed
  BY <1>1 DEF SpillPurgeSkip, Types, SpillTyped, SpillStates
<1>3. /\ StoreOK(store) /\ p \in Positions /\ p.offset = 0 /\ Separates(store, spill.unflushed, p)
      /\ ~Before(store.committed, p) /\ a \in Positions /\ c \in Positions /\ order \in OrderStates
      /\ store.committed \in Positions
  BY <1>1, <1>2 DEF Parts, Boundaries
<1>4. /\ UNCHANGED <<memory, handoff, held, boundary, inFlight, writer, captured, releaseUpto, store>>
      /\ readStart' = Later(readStart, p)
  BY DEF SpillPurgeSkip, clearReqVars
<1>5. /\ o \in OrderStates /\ o.handoffJobs = order.handoffJobs /\ o.spilling = order.spilling
      /\ o.committed = Later(c, p) /\ o.consumed = a
  <2>1. 0 \in Nat /\ TRUE \in BOOLEAN OBVIOUS
  <2> HIDE DEF p
  <2> QED BY <1>3, <2>1, OrderOps, SetCommittedIs
<1>6. /\ q \in OrderStates /\ q.handoffJobs = order.handoffJobs /\ q.spilling = order.spilling
      /\ q.committed = Later(c, p) /\ q.consumed = Later(a, p)
  <2>1. 0 \in Nat /\ TRUE \in BOOLEAN OBVIOUS
  <2> HIDE DEF p, o
  <2>2. q \in OrderStates BY <1>3, <1>5, <2>1, OrderOps
  <2>3. /\ q.handoffJobs = o.handoffJobs /\ q.spilling = o.spilling
        /\ q.committed = o.committed /\ q.consumed = Later(o.consumed, p)
    BY <1>3, <1>5, SetConsumedIs
  <2> QED BY <1>5, <2>2, <2>3
<1>7. order' = TryResumeMemory(q) BY DEF SpillPurgeSkip, SkipStreamTo
<1> HIDE DEF q, o
<1>8. /\ Resumes(order, order') /\ order'.committed = Later(c, p) /\ order'.consumed = Later(a, p)
      /\ order'.handoffJobs = order.handoffJobs
  <2>1. q.handoffJobs <= order.handoffJobs BY <1>1, <1>6 DEF Parts
  <2> QED BY <1>3, <1>6, <1>7, <2>1, TryResumes, ResumeIs
<1> HIDE DEF p, a, c
<1>9. /\ Later(c, p) \in {c, p} /\ Later(a, p) \in {a, p} /\ Later(readStart, p) \in {readStart, p}
      /\ ~Before(Later(c, p), c) /\ ~Before(Later(c, p), p)
      /\ ~Before(Later(a, p), a) /\ ~Before(Later(a, p), p)
      /\ Later(a, p) \in Positions /\ Later(c, p) \in Positions
  BY <1>1, <1>3, LaterIs DEF Parts
<1> DEFINE b == Later(a, p)  d == Later(c, p)
<1> HIDE DEF b, d
<1>10. \A j \in Jobs : Pending(j)' => Pending(j) /\ j \notin Skipped(spill.at)
  BY SettleIs DEF SpillPurgeSkip
<1>11. Ordered'
  <2>1. ASSUME NEW x \in Positions, ~Before(a, x) PROVE ~Before(b, x)
    BY <1>3, <1>9, <2>1, NotBefore DEF b
  <2>2. ASSUME NEW x \in Positions, ~Before(c, x) PROVE ~Before(d, x)
    BY <1>3, <1>9, <2>2, NotBefore DEF d
  <2>3. /\ a.segment > 0 /\ ~Before(a, readStart) /\ ~Before(c, a) /\ ~Before(store.committed, c)
        /\ ~Before(a, releaseUpto) /\ ~Before(a, writer.from) /\ ~Before(c, writer.upto)
        /\ ~Before(c, inFlight.next)
        /\ IF writer.pc = "disk" THEN writer.cursor = writer.upto /\ inFlight.next = writer.upto
           ELSE ~Before(a, writer.cursor)
    BY <1>1 DEF Ordered, a, c
  <2>4. /\ readStart \in Positions /\ releaseUpto \in Positions /\ writer.from \in Positions
        /\ writer.upto \in Positions /\ inFlight.next \in Positions /\ writer.cursor \in Positions
    BY <1>1 DEF Parts
  <2>5. b.segment > 0 BY <1>3, <1>9, <2>3 DEF b, Before, Positions
  <2>6. ~Before(b, readStart') BY <1>3, <1>4, <1>9, <2>1, <2>3, <2>4 DEF b
  <2>7. ~Before(d, b) BY <1>3, <1>9, <2>2, <2>3 DEF b, d
  <2>8. ~Before(store.committed, d) BY <1>3, <1>9, <2>3 DEF d
  <2>9. /\ ~Before(b, releaseUpto) /\ ~Before(b, writer.from) /\ ~Before(d, writer.upto)
        /\ ~Before(d, inFlight.next) /\ (writer.pc # "disk" => ~Before(b, writer.cursor))
    BY <2>1, <2>2, <2>3, <2>4
  <2> QED BY <1>4, <1>8, <2>3, <2>5, <2>6, <2>7, <2>8, <2>9 DEF Ordered, b, d
<1>12. Removable'
  <2>1. ASSUME NEW id \in store.deletes, NEW k \in 1 .. Length(store, id) PROVE ~Before(b, Pos(id, k))
    <3>1. ~Before(a, Pos(id, k)) \/ id < p.segment
      BY <1>1, <1>2 DEF Removable, Clean, PurgedBelow, a, p
    <3>2. Pos(id, k) \in Positions /\ Pos(id, k).segment = id
      <4>1. id \in Ids(store) /\ Length(store, id) \in Nat BY <1>3, Lengths DEF StoreOK
      <4>2. id \in Nat /\ k \in Nat BY <1>3, <4>1, IdsAreNat
      <4> QED BY <4>2, PosIs
    <3>3. CASE ~Before(a, Pos(id, k)) BY <1>3, <1>9, <3>2, <3>3, NotBefore DEF b
    <3>4. CASE id < p.segment
      <4>1. ~Before(p, Pos(id, k)) BY <1>3, <3>2, <3>4 DEF Before, Positions
      <4> QED BY <1>3, <1>9, <3>2, <4>1, NotBefore DEF b
    <3> QED BY <3>1, <3>3, <3>4
  <2> QED BY <1>4, <1>8, <2>1 DEF Removable, Clean, b
<1>13. Boundaries' BY <1>1, <1>2, <1>4 DEF Boundaries
<1>14. Noted(store, spill.unflushed, d)
  <2>0. Noted(store, spill.unflushed, c) BY <1>1 DEF Unpublished, c
  <2>1. ASSUME NEW i \in 1 .. Len(spill.unflushed) PROVE Remembered(store, d, spill.unflushed[i])
    <3> DEFINE e == spill.unflushed[i]
    <3>1. Remembered(store, c, e) /\ e \in Entries /\ p.segment <= e.end.segment
      BY <1>1, <1>3, <2>0, EntriesIs DEF Noted, Parts, Separates
    <3>2. Before(p, e.end) /\ Before(c, e.end)
      <4> HIDE DEF e
      <4> QED BY <1>3, <3>1 DEF Remembered, Before, Positions, Entries
    <3> HIDE DEF e
    <3> QED BY <1>9, <3>1, <3>2 DEF Remembered, d, e
  <2>2. ASSUME NEW id \in Ids(store), NEW k \in 1 .. Length(store, id), Before(d, Pos(id, k))
        PROVE  \E i \in 1 .. Len(spill.unflushed) : spill.unflushed[i].end = Pos(id, k)
    <3>1. Pos(id, k) \in Positions
      <4>1. id \in Nat /\ Length(store, id) \in Nat BY <1>3, IdsAreNat, Lengths
      <4> QED BY <4>1, PosIs
    <3>2. Before(c, Pos(id, k)) BY <1>3, <1>9, <2>2, <3>1, NotBefore DEF d
    <3> QED BY <2>0, <3>2 DEF Noted
  <2> QED BY <2>1, <2>2 DEF Noted
<1>15. Unpublished' BY <1>2, <1>4, <1>8, <1>14 DEF Unpublished, d
<1>16. /\ NothingBetween(store, a, inFlight.next) => NothingBetween(store, b, inFlight.next)
       /\ NothingBetween(store, a, writer.upto) => NothingBetween(store, b, writer.upto)
       /\ Between(store, b, writer.upto) \subseteq Between(store, a, writer.upto)
  BY <1>3, <1>9, FromLater DEF b
<1>17. MemoryFirst'
  <2>1. /\ order'.handoffJobs > 0 => order'.spilling
        /\ ~order'.spilling => NothingBeyond(store', order'.consumed)
    BY <1>1, <1>2, <1>4, <1>8, <1>9, <1>14, MemoryAlone DEF a, d
  <2> QED BY <1>1, <1>4, <1>8, <1>16, <2>1 DEF MemoryFirst, a, b
<1>18. InBatchOrSettled'
  <2>1. \A j \in Between(store, b, writer.upto) : j \in Jobs BY DEF Between
  <2> QED BY <1>1, <1>4, <1>8, <1>10, <1>16, <2>1 DEF InBatchOrSettled, a, b
<1>19. Somewhere'
  <2> SUFFICES ASSUME NEW j \in Jobs, Pending(j)', j \in Beyond(store, a), j \notin Beyond(store, b)
               PROVE  j \in ToSet(writer.batch)
    BY <1>1, <1>2, <1>4, <1>8, <1>10 DEF Somewhere, Queued, a, b
  <2>1. Before(a, p) /\ j \in Between(store, a, p) BY <1>3, PassedOver DEF b
  <2>2. j \in Unread(p) BY <1>1, <1>3, <2>1, UnreadIs DEF a
  <2> QED BY <1>10, <2>1, <2>2 DEF Skipped, a, p
<1> QED BY <1>1, <1>2, <1>4, <1>11, <1>12, <1>13, <1>15, <1>17, <1>18, <1>19 DEF IInv, Known

--------------------
(* The writer. *)
LEMMA WriterMoves ==
  ASSUME IInv, Types', Counted',
         UNCHANGED <<handoff, held, boundary, store, spill, captured, readStart>>,
         order'.committed = order.committed, ~Before(order'.consumed, order.consumed),
         ~Before(order.committed, order'.consumed), Resumes(order, order'),
         WriterOrdered', ReadersAhead', InBatchOrSettled', Somewhere'
  PROVE  IInv'
<1>1. /\ Parts /\ Parts' /\ Types /\ Placed(store) /\ Known /\ Ordered /\ Removable /\ Boundaries
      /\ Unpublished /\ MemoryFirst
  BY PartsTyped DEF IInv
<1> DEFINE a == order.consumed  b == order'.consumed
<1>2. a \in Positions /\ b \in Positions /\ StoreOK(store) /\ readStart \in Positions
  BY <1>1 DEF Parts
<1>3. Ordered'
  <2>1. a.segment > 0 /\ ~Before(a, readStart) /\ ~Before(store.committed, order.committed)
    BY <1>1 DEF Ordered
  <2>2. b.segment > 0 BY <1>2, <2>1 DEF Before, Positions
  <2>3. ~Before(b, readStart) BY <1>2, <2>1, NotBefore
  <2> QED BY <2>1, <2>2, <2>3 DEF Ordered, WriterOrdered
<1>4. Removable'
  <2>1. Clean(store, b, PurgedBelow) BY <1>1, <1>2, FromLater DEF Removable
  <2> QED BY <2>1 DEF Removable, PurgedBelow
<1>5. Boundaries' /\ Unpublished' /\ Known' BY <1>1 DEF Boundaries, Unpublished, Known
<1>6. MemoryFirst'
  <2>1. Noted(store, spill'.unflushed, order'.committed) BY <1>1 DEF Unpublished
  <2>2. /\ order'.handoffJobs > 0 => order'.spilling
        /\ ~order'.spilling => NothingBeyond(store', order'.consumed)
    BY <1>1, <2>1, MemoryAlone
  <2> QED BY <2>2 DEF MemoryFirst, ReadersAhead
<1> QED BY <1>1, <1>3, <1>4, <1>5, <1>6 DEF IInv

LEMMA Readers == IInv => WriterOrdered /\ ReadersAhead
BY DEF IInv, Ordered, MemoryFirst, WriterOrdered, ReadersAhead

LEMMA IdleWriterIs ==
  ASSUME NEW c, NEW n
  PROVE  LET w == IdleWriter(c, n) IN
         /\ w.pc = "idle" /\ w.batch = <<>> /\ w.taken = <<>> /\ w.from = None /\ w.upto = None
         /\ w.cursor = c /\ w.seen = n
BY DEF IdleWriter

(* No position is before the beginning of the first segment. *)
LEMMA BehindNone ==
  ASSUME Parts, Ordered
  PROVE  ~Before(order.consumed, None) /\ ~Before(order.committed, None)
<1>1. order.consumed.segment > 0 /\ ~Before(order.committed, order.consumed)
      /\ order.consumed \in Positions /\ order.committed \in Positions
  BY DEF Ordered, Parts
<1> QED BY <1>1, NoneIs DEF Before, Positions

(* An idle writer starts behind what is consumed. *)
LEMMA CursorBehind ==
  ASSUME IInv, writer.pc = "idle"
  PROVE  ~Before(order.consumed, Cursor) /\ Cursor \in Positions
<1>1. Parts /\ Ordered BY PartsTyped DEF IInv
<1>2. /\ order.consumed \in Positions /\ readStart \in Positions /\ writer.cursor \in Positions
      /\ ~Before(order.consumed, readStart) /\ ~Before(order.consumed, writer.cursor)
  BY <1>1 DEF Parts, Ordered
<1>3. Later(readStart, order.consumed) \in {readStart, order.consumed} /\ ~Before(order.consumed, order.consumed)
  BY <1>2, LaterIs, NotBefore
<1> QED BY <1>2, <1>3 DEF Cursor

(* The writer changes its state; the accounting of the queue and the
   positions stay. *)
LEMMA WriterAlone ==
  ASSUME IInv, Types', Counted',
         UNCHANGED <<handoff, held, boundary, store, spill, captured, readStart>>,
         order'.committed = order.committed, order'.consumed = order.consumed,
         order'.spilling = order.spilling, order'.handoffJobs = order.handoffJobs,
         WriterOrdered', ReadersAhead', InBatchOrSettled', Somewhere'
  PROVE  IInv'
<1>1. Parts /\ Ordered BY PartsTyped DEF IInv
<1>2. ~Before(order'.consumed, order.consumed) /\ ~Before(order.committed, order'.consumed)
  BY <1>1, NotBefore DEF Parts, Ordered
<1>3. Resumes(order, order') BY <1>1 DEF Resumes, Parts
<1> QED BY <1>2, <1>3, WriterMoves

LEMMA TakesMemory ==
  ASSUME IInv, Types', Counted', WriterTakeMemory PROVE IInv'
<1>1. /\ Parts /\ Types /\ Ordered /\ WriterOrdered /\ ReadersAhead /\ Somewhere
  BY PartsTyped, Readers DEF IInv
<1> DEFINE n == Smaller(Len(memory), BatchJobs)
           front == SubSeq(memory, 1, n)  back == SubSeq(memory, n + 1, Len(memory))
<1>2. /\ writer.pc = "idle" /\ memory # <<>> /\ memory' = back
      /\ writer' = [IdleWriter(Cursor, Seen) EXCEPT !.pc = "memory", !.batch = front, !.taken = front]
      /\ UNCHANGED <<order, handoff, held, boundary, readStart, releaseUpto, inFlight, store, spill,
                     captured, fate>>
  BY DEF WriterTakeMemory, WriterIdle, clearReqVars, readVars, spillVars, jobVars
<1>3. ToSet(memory) = ToSet(front) \cup ToSet(back) BY <1>1, <1>2, TakeMemoryIs
<1> HIDE DEF front, back
<1>4. /\ writer'.pc = "memory" /\ writer'.batch = front /\ writer'.from = None /\ writer'.upto = None
      /\ writer'.cursor = Cursor
  BY <1>2 DEF IdleWriter
<1>5. WriterOrdered' BY <1>1, <1>2, <1>4, CursorBehind, BehindNone DEF WriterOrdered
<1>6. ReadersAhead' /\ InBatchOrSettled' BY <1>1, <1>2, <1>4 DEF ReadersAhead, InBatchOrSettled
<1>7. Somewhere'
  <2>1. writer.batch = <<>> BY <1>1, <1>2 DEF Types, WriterTyped
  <2> QED BY <1>1, <1>2, <1>3, <1>4, <2>1, ToSetEmpty DEF Somewhere, Queued, Pending
<1> QED BY <1>2, <1>5, <1>6, <1>7, WriterAlone

LEMMA StartsRead ==
  ASSUME IInv, Types', Counted', WriterStartRead PROVE IInv'
<1>1. /\ Parts /\ Types /\ Ordered /\ WriterOrdered /\ ReadersAhead /\ Somewhere
  BY PartsTyped, Readers DEF IInv
<1>2. /\ writer.pc = "idle" /\ memory = <<>>
      /\ writer' = [IdleWriter(Cursor, Seen) EXCEPT
                      !.pc = "reading", !.from = Cursor, !.upto = order.committed, !.seq = purgeSeq]
      /\ UNCHANGED <<order, memory, handoff, held, boundary, readStart, releaseUpto, inFlight, store,
                     spill, captured, fate>>
  BY DEF WriterStartRead, WriterIdle, queueVars, clearReqVars, spillVars, jobVars
<1>3. /\ writer'.pc = "reading" /\ writer'.batch = <<>> /\ writer'.from = Cursor
      /\ writer'.upto = order.committed /\ writer'.cursor = Cursor
  BY <1>2 DEF IdleWriter
<1>4. WriterOrdered'
  <2>1. ~Before(order.committed, order.committed) BY <1>1, NotBefore DEF Parts
  <2> QED BY <1>1, <1>2, <1>3, <2>1, CursorBehind DEF WriterOrdered
<1>5. ReadersAhead' /\ InBatchOrSettled' BY <1>1, <1>2, <1>3 DEF ReadersAhead, InBatchOrSettled
<1>6. Somewhere'
  <2>1. writer.batch = <<>> BY <1>1, <1>2 DEF Types, WriterTyped
  <2> QED BY <1>1, <1>2, <1>3, <2>1 DEF Somewhere, Queued, Pending
<1> QED BY <1>2, <1>4, <1>5, <1>6, WriterAlone

(* What was read is forgotten. *)
LEMMA ForgetsRead ==
  ASSUME IInv, Types', Counted', writer.pc = "reading", writer' = IdleWriter(writer.cursor, writer.seen),
         UNCHANGED <<order, memory, handoff, held, boundary, readStart, releaseUpto, inFlight, store,
                     spill, captured, fate>>
  PROVE  IInv'
<1>1. /\ Parts /\ Types /\ Ordered /\ WriterOrdered /\ ReadersAhead /\ Somewhere
  BY PartsTyped, Readers DEF IInv
<1>2. /\ writer'.pc = "idle" /\ writer'.batch = <<>> /\ writer'.from = None /\ writer'.upto = None
      /\ writer'.cursor = writer.cursor
  BY IdleWriterIs
<1>3. WriterOrdered' BY <1>1, <1>2, BehindNone DEF WriterOrdered
<1>4. ReadersAhead' /\ InBatchOrSettled' BY <1>1, <1>2 DEF ReadersAhead, InBatchOrSettled
<1>5. Somewhere'
  <2>1. writer.batch = <<>> BY <1>1 DEF Types, WriterTyped
  <2> QED BY <1>1, <1>2, <2>1 DEF Somewhere, Queued, Pending
<1> QED BY <1>3, <1>4, <1>5, WriterAlone

LEMMA DiscardsRead == IInv /\ Types' /\ Counted' /\ DiscardRead => IInv'
BY ForgetsRead DEF DiscardRead, queueVars, clearReqVars, spillVars, jobVars

(* What was read turned out to be settled up to a position. *)
LEMMA SkipsTo ==
  ASSUME IInv, Types', Counted', writer.pc = "reading", NEW p \in Positions, ~Before(writer.upto, p),
         SkipTo(p), writer' = IdleWriter(p, writer.seen),
         UNCHANGED <<memory, handoff, held, boundary, readStart, inFlight, store, spill, captured>>,
         \A j \in Jobs : Pending(j)' => Pending(j) /\ j \notin Between(store, writer.from, p)
  PROVE  IInv'
<1>1. /\ Parts /\ Types /\ Ordered /\ WriterOrdered /\ ReadersAhead /\ Somewhere
  BY PartsTyped, Readers DEF IInv
<1> DEFINE a == order.consumed  c == order.committed  b == Later(a, p)  q == SetConsumed(order, p)
<1>2. /\ a \in Positions /\ c \in Positions /\ StoreOK(store) /\ order \in OrderStates
      /\ writer.from \in Positions /\ writer.upto \in Positions /\ inFlight.next \in Positions
  BY <1>1 DEF Parts
<1>3. /\ q \in OrderStates /\ q.handoffJobs = order.handoffJobs /\ q.spilling = order.spilling
      /\ q.committed = c /\ q.consumed = b
  <2>1. 0 \in Nat /\ TRUE \in BOOLEAN OBVIOUS
  <2>2. q \in OrderStates BY <1>2, <2>1, OrderOps
  <2> QED BY <1>2, <2>2, SetConsumedIs
<1>4. order' = TryResumeMemory(q) /\ releaseUpto' = p BY DEF SkipTo
<1> HIDE DEF q
<1>5. Resumes(order, order') /\ order'.committed = c /\ order'.consumed = b
  <2>1. q.handoffJobs <= order.handoffJobs BY <1>1, <1>3 DEF Parts
  <2> QED BY <1>2, <1>3, <1>4, <2>1, TryResumes, ResumeIs
<1> HIDE DEF a, c
<1>6. b \in Positions /\ b \in {a, p} /\ ~Before(b, a) /\ ~Before(b, p) BY <1>2, LaterIs
<1>7. ~Before(c, a) /\ ~Before(c, p) /\ ~Before(c, writer.upto) /\ ~Before(a, writer.from)
  <2>1. ~Before(c, a) /\ ~Before(c, writer.upto) /\ ~Before(a, writer.from) BY <1>1 DEF Ordered, a, c
  <2> QED BY <1>2, <2>1, NotBefore
<1>8. ~Before(c, b) BY <1>6, <1>7
<1>9. /\ writer'.pc = "idle" /\ writer'.batch = <<>> /\ writer'.from = None /\ writer'.upto = None
      /\ writer'.cursor = p
  BY IdleWriterIs
<1> HIDE DEF b
<1>10. WriterOrdered'
  <2>1. ~Before(a, None) /\ ~Before(c, None) BY <1>1, BehindNone DEF a, c
  <2>2. ~Before(b, None) BY <1>2, <1>6, <2>1, NoneIs, NotBefore
  <2> QED BY <1>1, <1>4, <1>5, <1>6, <1>9, <2>1, <2>2 DEF WriterOrdered, c
<1>11. ReadersAhead' /\ InBatchOrSettled'
  <2>1. NothingBetween(store, a, inFlight.next) => NothingBetween(store, b, inFlight.next)
    BY <1>2, <1>6, FromLater
  <2> QED BY <1>1, <1>5, <1>9, <2>1 DEF ReadersAhead, InBatchOrSettled, a
<1>12. Somewhere'
  <2>1. writer.batch = <<>> BY <1>1 DEF Types, WriterTyped
  <2> SUFFICES ASSUME NEW j \in Jobs, Pending(j)', j \in Beyond(store, a), j \notin Beyond(store, b)
               PROVE  FALSE
    BY <1>1, <1>5, <1>9, <2>1 DEF Somewhere, Queued, a
  <2>2. j \in Between(store, a, p) BY <1>2, PassedOver DEF b
  <2>3. j \in Between(store, writer.from, p) BY <1>2, <1>7, <2>2, FromLater
  <2> QED BY <2>3
<1> QED BY <1>5, <1>6, <1>8, <1>10, <1>11, <1>12, WriterMoves DEF a, c

LEMMA ReadsFail ==
  ASSUME IInv, Types', Counted', WriterReadFails PROVE IInv'
<1>1. Parts BY PartsTyped DEF IInv
<1>2. CASE /\ writer' = IdleWriter(writer.cursor, writer.seen)
           /\ UNCHANGED <<order, releaseUpto, fate>>
  BY <1>2, ForgetsRead DEF WriterReadFails, clearReqVars, spillVars
<1>3. CASE /\ writer' = IdleWriter(writer.upto, writer.seen)
           /\ fate' = Settle(LET s == Stream(store, writer.from, writer.upto, {})
                             IN {s[i].job : i \in DOMAIN s}, "lost")
           /\ SkipTo(writer.upto)
  <2>1. fate' = Settle(Between(store, writer.from, writer.upto), "lost")
    <3>1. JobsIn(Stream(store, writer.from, writer.upto, {})) = Between(store, writer.from, writer.upto)
      BY <1>1, BetweenIs DEF Parts
    <3> QED BY <1>3, <3>1 DEF JobsIn
  <2>2. \A j \in Jobs : Pending(j)' => Pending(j) /\ j \notin Between(store, writer.from, writer.upto)
    BY <2>1, SettleIs
  <2>3. writer.upto \in Positions /\ ~Before(writer.upto, writer.upto) BY <1>1, NotBefore DEF Parts
  <2> QED BY <1>3, <2>2, <2>3, SkipsTo DEF WriterReadFails, clearReqVars, spillVars
<1> QED BY <1>2, <1>3 DEF WriterReadFails

LEMMA EndsRead == ASSUME IInv, Types', Counted', NEW damaged, EndRead(damaged) PROVE IInv'
<1>1. /\ Parts /\ Types /\ Ordered /\ WriterOrdered /\ ReadersAhead /\ Somewhere
  BY PartsTyped, Readers DEF IInv
<1> DEFINE read == ReadBatch(store, writer.from, writer.upto, damaged)
           jobs == JobsOf(read.records)
           good == JobsIn(Stream(store, writer.from, read.next, damaged))
           all == Between(store, writer.from, read.next)
<1>2. /\ StoreOK(store) /\ writer.from \in Positions /\ writer.upto \in Positions
      /\ order.consumed \in Positions /\ order.committed \in Positions
  BY <1>1 DEF Parts
<1>3. /\ read.next \in Positions /\ ~Before(writer.upto, read.next)
      /\ good \subseteq ToSet(jobs)
  BY <1>2, ReadBatchIs
<1>4. JobsIn(Stream(store, writer.from, read.next, {})) = all
  <2> HIDE DEF read
  <2> QED BY <1>2, <1>3, BetweenIs
<1>5. /\ writer.pc = "reading"
      /\ UNCHANGED <<memory, handoff, held, boundary, readStart, store, spill, captured>>
      /\ fate' = Settle(JobsIn(Stream(store, writer.from, read.next, {})) \ good, "lost")
      /\ IF jobs = <<>>
         THEN writer' = IdleWriter(read.next, writer.seen) /\ SkipTo(read.next) /\ inFlight' = inFlight
         ELSE /\ writer' = [IdleWriter(read.next, writer.seen) EXCEPT
                              !.pc = "disk", !.batch = jobs, !.upto = read.next]
              /\ inFlight' = [start |-> writer.from, next |-> read.next,
                              panics |-> IF inFlight.start = writer.from THEN inFlight.panics ELSE 0]
              /\ UNCHANGED <<order, releaseUpto>>
  BY DEF EndRead, JobsIn, JobsOf, clearReqVars, spillVars
<1>6. \A j \in Jobs : Pending(j)' => Pending(j) /\ (j \in all => j \in ToSet(jobs))
  <2>1. fate' = Settle(all \ good, "lost") BY <1>4, <1>5
  <2>2. \A j \in Jobs : Pending(j)' => Pending(j) /\ j \notin all \ good BY <2>1, SettleIs
  <2> HIDE DEF all, good, jobs
  <2> QED BY <1>3, <2>2
<1> HIDE DEF good
<1>7. CASE jobs = <<>>
  <2>1. \A j \in Jobs : Pending(j)' => Pending(j) /\ j \notin all BY <1>6, <1>7, ToSetEmpty
  <2> HIDE DEF read
  <2> QED BY <1>3, <1>5, <1>7, <2>1, SkipsTo
<1>8. CASE jobs # <<>>
  <2>1. /\ writer'.pc = "disk" /\ writer'.batch = jobs /\ writer'.from = None
        /\ writer'.upto = read.next /\ writer'.cursor = read.next /\ inFlight'.next = read.next
        /\ UNCHANGED <<order, releaseUpto>>
    <3> DEFINE nx == read.next
    <3>1. /\ writer' = [IdleWriter(nx, writer.seen) EXCEPT !.pc = "disk", !.batch = jobs, !.upto = nx]
          /\ \E n : inFlight' = [start |-> writer.from, next |-> nx, panics |-> n]
          /\ UNCHANGED <<order, releaseUpto>>
      BY <1>5, <1>8, Zenon
    <3> HIDE DEF nx, jobs
    <3>2. /\ writer'.pc = "disk" /\ writer'.batch = jobs /\ writer'.from = None
          /\ writer'.upto = nx /\ writer'.cursor = nx
      BY <3>1 DEF IdleWriter
    <3>3. inFlight'.next = nx BY <3>1
    <3> QED BY <3>1, <3>2, <3>3 DEF nx
  <2> HIDE DEF jobs, read, all
  <2>2. WriterOrdered'
    <3>1. ~Before(order.committed, read.next)
      <4>1. ~Before(order.committed, writer.upto) BY <1>1 DEF Ordered
      <4> QED BY <1>2, <1>3, <4>1, NotBefore
    <3> QED BY <1>1, <2>1, <3>1, BehindNone DEF WriterOrdered
  <2>3. ReadersAhead'
    <3>1. ASSUME NothingBetween(store, order.consumed, writer.upto)
          PROVE  NothingBetween(store, order.consumed, read.next)
      <4> SUFFICES ASSUME NEW id \in Ids(store), NEW k \in 1 .. OnDisk(store, id),
                          Before(order.consumed, Pos(id, k)), ~Before(read.next, Pos(id, k))
                   PROVE  FALSE
        BY DEF NothingBetween
      <4>1. Pos(id, k) \in Positions
        <5>1. id \in Nat /\ OnDisk(store, id) \in Nat BY <1>2, IdsAreNat, Lengths
        <5>2. k \in Nat BY <5>1
        <5> QED BY <5>1, <5>2, PosIs
      <4>2. ~Before(writer.upto, Pos(id, k)) BY <1>2, <1>3, <4>1, NotBefore
      <4> QED BY <3>1, <4>2 DEF NothingBetween
    <3> QED BY <1>1, <1>5, <2>1, <3>1 DEF ReadersAhead
  <2>4. InBatchOrSettled'
    <3> SUFFICES ASSUME NEW j \in Between(store, order.consumed, read.next), Pending(j)'
                 PROVE  j \in ToSet(jobs)
      BY <1>5, <2>1 DEF InBatchOrSettled
    <3>1. j \in all /\ j \in Jobs
      <4>1. ~Before(order.consumed, writer.from) BY <1>1 DEF Ordered
      <4>2. Between(store, order.consumed, read.next) \subseteq all BY <1>2, <4>1, FromLater DEF all
      <4> QED BY <4>2 DEF Between
    <3> QED BY <1>6, <3>1
  <2>5. Somewhere'
    <3>1. writer.batch = <<>> BY <1>1, <1>5 DEF Types, WriterTyped
    <3> QED BY <1>1, <1>5, <1>6, <2>1, <3>1, ToSetEmpty DEF Somewhere, Queued
  <2> QED BY <1>5, <2>1, <2>2, <2>3, <2>4, <2>5, WriterAlone
<1> QED BY <1>7, <1>8

(* The positions after the writer consumed up to p. *)
LEMMA ConsumedUpTo ==
  ASSUME Parts, Ordered, NEW o \in OrderStates, o.consumed = order.consumed,
         o.committed = order.committed, o.spilling = order.spilling, o.handoffJobs = order.handoffJobs,
         NEW p \in Positions, ~Before(order.committed, p)
  PROVE  LET n == TryResumeMemory(SetConsumed(o, p)) IN
         /\ n.committed = order.committed /\ n.consumed = Later(order.consumed, p)
         /\ SetConsumed(o, p).consumed = Later(order.consumed, p)
         /\ Resumes(order, n) /\ n.consumed \in Positions /\ ~Before(n.consumed, order.consumed)
         /\ ~Before(n.consumed, p) /\ ~Before(order.committed, n.consumed)
<1> DEFINE q == SetConsumed(o, p)  n == TryResumeMemory(q)
<1>1. order \in OrderStates /\ order.consumed \in Positions /\ order.handoffJobs \in Nat
      /\ ~Before(order.committed, order.consumed)
  BY DEF Parts, Ordered
<1>2. q \in OrderStates
  <2>1. 0 \in Nat /\ TRUE \in BOOLEAN OBVIOUS
  <2> QED BY <2>1, OrderOps
<1>3. /\ q.handoffJobs = order.handoffJobs /\ q.spilling = order.spilling
      /\ q.committed = order.committed /\ q.consumed = Later(order.consumed, p)
  BY SetConsumedIs
<1> HIDE DEF q
<1>4. n.committed = q.committed /\ n.consumed = q.consumed BY <1>2, ResumeIs
<1>5. Resumes(order, n)
  <2>1. q.handoffJobs <= order.handoffJobs BY <1>1, <1>3
  <2> QED BY <1>1, <1>2, <1>3, <2>1, TryResumes
<1>6. /\ Later(order.consumed, p) \in Positions /\ Later(order.consumed, p) \in {order.consumed, p}
      /\ ~Before(Later(order.consumed, p), order.consumed) /\ ~Before(Later(order.consumed, p), p)
  BY <1>1, LaterIs
<1> HIDE DEF n
<1> QED BY <1>1, <1>3, <1>4, <1>5, <1>6 DEF n, q

LEMMA ResumesKeeps ==
  ASSUME IInv, Types', Counted', WriterResume PROVE IInv'
<1>1. /\ Parts /\ Types /\ Ordered /\ WriterOrdered /\ ReadersAhead /\ Somewhere
  BY PartsTyped, Readers DEF IInv
<1>2. /\ writer.pc = "idle" /\ order' = TryResumeMemory(order) /\ writer' = IdleWriter(Cursor, Seen)
      /\ UNCHANGED <<memory, handoff, held, boundary, readStart, releaseUpto, inFlight, store, spill,
                     captured, fate>>
  BY DEF WriterResume, WriterIdle, clearReqVars, readVars, spillVars, jobVars
<1>3. Resumes(order, order') /\ order'.committed = order.committed /\ order'.consumed = order.consumed
  <2>1. order \in OrderStates /\ order.handoffJobs <= order.handoffJobs BY <1>1 DEF Parts
  <2> QED BY <1>2, <2>1, TryResumes, ResumeIs
<1>4. /\ writer'.pc = "idle" /\ writer'.batch = <<>> /\ writer'.from = None /\ writer'.upto = None
      /\ writer'.cursor = Cursor
  BY <1>2, IdleWriterIs
<1>5. WriterOrdered' BY <1>1, <1>2, <1>3, <1>4, BehindNone, CursorBehind DEF WriterOrdered
<1>6. ReadersAhead' /\ InBatchOrSettled' BY <1>1, <1>2, <1>3, <1>4 DEF ReadersAhead, InBatchOrSettled
<1>7. Somewhere'
  <2>1. writer.batch = <<>> BY <1>1, <1>2 DEF Types, WriterTyped
  <2> QED BY <1>1, <1>2, <1>3, <1>4, <2>1 DEF Somewhere, Queued, Pending
<1>8. ~Before(order'.consumed, order.consumed) /\ ~Before(order.committed, order'.consumed)
  BY <1>1, <1>3, NotBefore DEF Parts, Ordered
<1> QED BY <1>2, <1>3, <1>5, <1>6, <1>7, <1>8, WriterMoves

LEMMA Transacts ==
  ASSUME IInv, Types', Counted', WriterTransaction PROVE IInv'
<1>1. /\ Parts /\ Types /\ Ordered /\ WriterOrdered /\ ReadersAhead /\ InBatchOrSettled /\ Somewhere
  BY PartsTyped, Readers DEF IInv
<1>2. PICK n \in 1 .. Len(writer.batch) :
        LET done == ToSet(SubSeq(writer.batch, 1, n)) IN
        /\ \E failed \in IF "db" \in Faults THEN {{}, done} ELSE {{}} :
             fate' = [j \in Jobs |->
                        IF j \notin done THEN fate[j]
                        ELSE IF j \in failed THEN Settle({j}, "dropped")[j]
                        ELSE IF Accepted(j) THEN "written"
                        ELSE Settle({j}, "stale")[j]]
        /\ writer' = [writer EXCEPT !.batch = SubSeq(@, n + 1, Len(@))]
  BY DEF WriterTransaction
<1> DEFINE front == SubSeq(writer.batch, 1, n)  back == SubSeq(writer.batch, n + 1, Len(writer.batch))
<1>3. ToSet(writer.batch) = ToSet(front) \cup ToSet(back)
  <2>1. writer.batch \in Seq(Jobs) BY <1>1 DEF Parts
  <2>2. n \in 0 .. Len(writer.batch) OBVIOUS
  <2>3. front \in Seq(Jobs) /\ back \in Seq(Jobs) /\ front \o back = writer.batch
    BY <2>1, <2>2, CutInTwo
  <2> HIDE DEF front, back
  <2>4. ToSet(front \o back) = ToSet(front) \cup ToSet(back) BY <2>3, ToSetConcat, ZenonT(30)
  <2> QED BY <2>3, <2>4
<1>4. \A j \in Jobs : Pending(j)' => Pending(j) /\ j \notin ToSet(front)
  <2> SUFFICES ASSUME NEW j \in Jobs, Pending(j)' PROVE Pending(j) /\ j \notin ToSet(front) OBVIOUS
  <2>1. PICK failed : fate' = [i \in Jobs |->
                        IF i \notin ToSet(front) THEN fate[i]
                        ELSE IF i \in failed THEN Settle({i}, "dropped")[i]
                        ELSE IF Accepted(i) THEN "written"
                        ELSE Settle({i}, "stale")[i]]
    BY <1>2
  <2>2. Settle({j}, "dropped")[j] # "pending" /\ Settle({j}, "stale")[j] # "pending" BY DEF Settle
  <2> HIDE DEF front
  <2> QED BY <2>1, <2>2 DEF Pending
<1>5. /\ writer'.pc = writer.pc /\ writer'.batch = back /\ writer'.from = writer.from
      /\ writer'.upto = writer.upto /\ writer'.cursor = writer.cursor
  <2>1. writer' = [writer EXCEPT !.batch = back] /\ writer \in WriterStates
    BY <1>1, <1>2 DEF Types, WriterTyped
  <2> HIDE DEF back
  <2> QED BY <2>1 DEF WriterStates
<1>6. UNCHANGED <<order, memory, handoff, held, boundary, readStart, releaseUpto, inFlight, store, spill,
                  captured>>
  BY DEF WriterTransaction, queueVars, clearReqVars, readVars, spillVars
<1> HIDE DEF front, back
<1>7. WriterOrdered' /\ ReadersAhead' BY <1>1, <1>5, <1>6 DEF WriterOrdered, ReadersAhead
<1>8. InBatchOrSettled'
  <2> SUFFICES ASSUME writer.pc = "disk", NEW j \in Between(store, order.consumed, writer.upto), Pending(j)'
               PROVE  j \in ToSet(back)
    BY <1>5, <1>6 DEF InBatchOrSettled
  <2>1. j \in Jobs BY DEF Between
  <2> QED BY <1>1, <1>3, <1>4, <2>1 DEF InBatchOrSettled
<1>9. Somewhere' BY <1>1, <1>3, <1>4, <1>5, <1>6 DEF Somewhere, Queued
<1> QED BY <1>6, <1>7, <1>8, <1>9, WriterAlone

LEMMA DonesMemory == ASSUME IInv, Types', Counted', WriterDone, writer.pc = "memory" PROVE IInv'
<1>1. /\ Parts /\ Types /\ Ordered /\ WriterOrdered /\ ReadersAhead /\ Somewhere
  BY PartsTyped, Readers DEF IInv
<1>2. /\ writer.batch = <<>> /\ writer' = IdleWriter(writer.cursor, writer.seen)
      /\ order' = ReleaseMemory(order, Bytes(writer.taken))
      /\ UNCHANGED <<memory, handoff, held, boundary, readStart, releaseUpto, inFlight, store, spill,
                     captured, fate>>
  BY DEF WriterDone, clearReqVars, spillVars, jobVars
<1>3. /\ order'.committed = order.committed /\ order'.consumed = order.consumed
      /\ order'.spilling = order.spilling /\ order'.handoffJobs = order.handoffJobs
  <2>1. order \in OrderStates /\ Bytes(writer.taken) \in Nat BY <1>1, BytesNat DEF Parts
  <2> QED BY <1>2, <2>1, ReleaseMemoryIs
<1>4. /\ writer'.pc = "idle" /\ writer'.batch = <<>> /\ writer'.from = None /\ writer'.upto = None
      /\ writer'.cursor = writer.cursor
  BY <1>2, IdleWriterIs
<1>5. WriterOrdered' BY <1>1, <1>2, <1>3, <1>4, BehindNone DEF WriterOrdered
<1>6. ReadersAhead' /\ InBatchOrSettled' BY <1>1, <1>2, <1>3, <1>4 DEF ReadersAhead, InBatchOrSettled
<1>7. Somewhere' BY <1>1, <1>2, <1>3, <1>4 DEF Somewhere, Queued, Pending
<1> QED BY <1>2, <1>3, <1>5, <1>6, <1>7, WriterAlone

LEMMA DonesDisk == ASSUME IInv, Types', Counted', WriterDone, writer.pc = "disk" PROVE IInv'
<1>1. /\ Parts /\ Types /\ Ordered /\ WriterOrdered /\ ReadersAhead /\ InBatchOrSettled /\ Somewhere
  BY PartsTyped, Readers DEF IInv
<1> DEFINE p == writer.upto  b == Later(order.consumed, p)
<1>2. /\ writer.batch = <<>> /\ writer' = IdleWriter(writer.cursor, writer.seen)
      /\ order' = TryResumeMemory(SetConsumed(order, p))
      /\ releaseUpto' = SetConsumed(order, p).consumed /\ inFlight'.start = None /\ inFlight'.next = None
      /\ UNCHANGED <<memory, handoff, held, boundary, readStart, store, spill, captured, fate>>
  BY DEF WriterDone, clearReqVars, spillVars, jobVars
<1>3. /\ order \in OrderStates /\ p \in Positions /\ ~Before(order.committed, p) /\ StoreOK(store)
      /\ order.consumed \in Positions /\ order.committed \in Positions /\ writer.cursor = p
  BY <1>1 DEF Parts, WriterOrdered
<1> HIDE DEF p
<1>4. /\ order'.committed = order.committed /\ order'.consumed = b /\ releaseUpto' = b
      /\ Resumes(order, order') /\ b \in Positions /\ ~Before(b, order.consumed)
      /\ ~Before(b, p) /\ ~Before(order.committed, b)
  BY <1>1, <1>2, <1>3, ConsumedUpTo
<1> HIDE DEF b
<1>5. /\ writer'.pc = "idle" /\ writer'.batch = <<>> /\ writer'.from = None /\ writer'.upto = None
      /\ writer'.cursor = p
  BY <1>2, <1>3, IdleWriterIs
<1>6. WriterOrdered'
  <2>1. ~Before(order.consumed, None) /\ ~Before(order.committed, None) BY <1>1, BehindNone
  <2>2. ~Before(b, None) /\ ~Before(b, b) BY <1>3, <1>4, <2>1, NoneIs, NotBefore
  <2> QED BY <1>2, <1>4, <1>5, <2>1, <2>2 DEF WriterOrdered
<1>7. ReadersAhead' /\ InBatchOrSettled' BY <1>2, <1>5 DEF ReadersAhead, InBatchOrSettled
<1>8. Somewhere'
  <2> SUFFICES ASSUME NEW j \in Jobs, Pending(j), j \in Beyond(store, order.consumed), j \notin Beyond(store, b)
               PROVE  FALSE
    BY <1>1, <1>2, <1>4, <1>5 DEF Somewhere, Queued, Pending
  <2>1. j \in Between(store, order.consumed, p) BY <1>3, PassedOver DEF b
  <2>2. j \in ToSet(writer.batch) BY <1>1, <2>1 DEF InBatchOrSettled, p
  <2> QED BY <1>2, <2>2, ToSetEmpty
<1> QED BY <1>2, <1>4, <1>6, <1>7, <1>8, WriterMoves

LEMMA DonesKeep == IInv /\ Types' /\ Counted' /\ WriterDone => IInv'
BY DonesMemory, DonesDisk DEF WriterDone

(* A panic of the writer: a batch it had read twice is passed over. *)
LEMMA AfterPanic ==
  ASSUME IInv, WriterPanic
  PROVE  LET b == order'.consumed IN
         /\ order'.committed = order.committed /\ Resumes(order, order') /\ b \in Positions
         /\ ~Before(b, order.consumed) /\ ~Before(order.committed, b)
         /\ b = IF Poisoned THEN Later(order.consumed, inFlight.next) ELSE order.consumed
         /\ Poisoned => ~Before(b, inFlight.next)
<1>1. Parts /\ Ordered /\ WriterOrdered BY PartsTyped, Readers DEF IInv
<1> DEFINE r == ReleaseMemory(order, Bytes(writer.taken))  p == inFlight.next
<1>2. /\ r \in OrderStates /\ r.consumed = order.consumed /\ r.committed = order.committed
      /\ r.spilling = order.spilling /\ r.handoffJobs = order.handoffJobs
  <2>1. order \in OrderStates /\ Bytes(writer.taken) \in Nat BY <1>1, BytesNat DEF Parts
  <2>2. r \in OrderStates
    <3>1. 0 \in Nat /\ TRUE \in BOOLEAN OBVIOUS
    <3> QED BY <2>1, <3>1, NoneIs, OrderOps
  <2> QED BY <2>1, <2>2, ReleaseMemoryIs
<1>3. order' = IF Poisoned THEN TryResumeMemory(SetConsumed(r, p)) ELSE r BY DEF WriterPanic
<1> HIDE DEF r
<1>4. CASE Poisoned
  <2>1. p \in Positions /\ ~Before(order.committed, p) BY <1>1 DEF Parts, WriterOrdered
  <2> HIDE DEF p
  <2>2. order' = TryResumeMemory(SetConsumed(r, p)) BY <1>3, <1>4
  <2>3. /\ order'.committed = order.committed /\ order'.consumed = Later(order.consumed, p)
        /\ Resumes(order, order') /\ order'.consumed \in Positions /\ ~Before(order'.consumed, order.consumed)
        /\ ~Before(order'.consumed, p) /\ ~Before(order.committed, order'.consumed)
    BY <1>1, <1>2, <2>1, <2>2, ConsumedUpTo
  <2> QED BY <1>4, <2>3 DEF p
<1>5. CASE ~Poisoned
  <2>1. order' = r BY <1>3, <1>5
  <2>2. Resumes(order, order')
    <3>1. order.handoffJobs \in Nat BY <1>1 DEF Parts
    <3> QED BY <1>2, <2>1, <3>1 DEF Resumes
  <2>3. ~Before(order.consumed, order.consumed) /\ ~Before(order.committed, order.consumed)
    BY <1>1, NotBefore DEF Parts, Ordered
  <2> QED BY <1>1, <1>2, <1>5, <2>1, <2>2, <2>3 DEF Parts
<1> QED BY <1>4, <1>5

LEMMA PanicsKeep ==
  ASSUME IInv, Types', Counted', WriterPanic PROVE IInv'
<1>1. /\ Parts /\ Types /\ Ordered /\ WriterOrdered /\ ReadersAhead /\ InBatchOrSettled /\ Somewhere
  BY PartsTyped, Readers DEF IInv
<1> DEFINE a == order.consumed  b == order'.consumed  cursor == Later(readStart, b)
           again == Beyond(store, cursor)
<1>2. /\ order'.committed = order.committed /\ Resumes(order, order') /\ b \in Positions
      /\ ~Before(b, a) /\ ~Before(order.committed, b)
      /\ b = IF Poisoned THEN Later(a, inFlight.next) ELSE a
      /\ Poisoned => ~Before(b, inFlight.next)
  BY AfterPanic
<1>3. /\ a \in Positions /\ StoreOK(store) /\ readStart \in Positions /\ inFlight.next \in Positions
      /\ order.committed \in Positions /\ releaseUpto \in Positions /\ Pos(store.nextId, 0) \in Positions
  BY <1>1 DEF Parts
<1>4. /\ writer.pc \in {"memory", "disk"}
      /\ writer' = IdleWriter(cursor, purgeSeq)
      /\ releaseUpto' = IF Poisoned THEN inFlight.next ELSE releaseUpto
      /\ inFlight' = IF Poisoned THEN [start |-> None, next |-> None, panics |-> 0]
                     ELSE IF inFlight.start = None THEN inFlight
                     ELSE [inFlight EXCEPT !.panics = @ + 1]
      /\ UNCHANGED <<memory, handoff, held, boundary, readStart, store, spill, captured>>
  BY DEF WriterPanic, clearReqVars, spillVars
<1>5. fate' = Settle(ToSet(writer.batch)
                       \ (IF writer.pc = "disk"
                          THEN JobsIn(Stream(store, cursor, Pos(store.nextId, 0), {})) ELSE {}),
                     IF writer.pc = "memory" THEN "dropped" ELSE "lost")
  BY DEF WriterPanic, JobsIn
<1> HIDE DEF b
<1>6. /\ cursor \in Positions /\ cursor \in {readStart, b} /\ ~Before(cursor, b)
  BY <1>2, <1>3, LaterIs
<1> HIDE DEF cursor
<1>7. \A j \in Jobs : Pending(j)' => Pending(j) /\ (j \in ToSet(writer.batch) => writer.pc = "disk" /\ j \in again)
  <2> DEFINE gone == ToSet(writer.batch)
                       \ (IF writer.pc = "disk"
                          THEN JobsIn(Stream(store, cursor, Pos(store.nextId, 0), {})) ELSE {})
             outcome == IF writer.pc = "memory" THEN "dropped" ELSE "lost"
  <2>1. fate' = Settle(gone, outcome) /\ outcome # "pending" BY <1>5
  <2>2. JobsIn(Stream(store, cursor, Pos(store.nextId, 0), {})) = again
    BY <1>3, <1>6, BetweenIs DEF Beyond
  <2>3. \A j \in ToSet(writer.batch) : j \notin gone => writer.pc = "disk" /\ j \in again BY <2>2
  <2> HIDE DEF gone, outcome
  <2>4. \A j \in Jobs : Pending(j)' => Pending(j) /\ j \notin gone BY <2>1, SettleIs
  <2> QED BY <2>3, <2>4
<1>8. again \subseteq Beyond(store, b) BY <1>2, <1>3, <1>6, FromLater DEF Beyond
<1> HIDE DEF again
<1>9. /\ inFlight'.next \in {None, inFlight.next}
      /\ inFlight'.start # None => inFlight.start # None /\ inFlight'.next = inFlight.next
  <2>1. inFlight \in [start : Positions, next : Positions, panics : {0, 1}] BY <1>1 DEF Types
  <2>2. CASE Poisoned BY <1>4, <2>2
  <2>3. CASE ~Poisoned /\ inFlight.start = None BY <1>4, <2>3
  <2>4. CASE ~Poisoned /\ inFlight.start # None
    <3>1. inFlight' = [inFlight EXCEPT !.panics = @ + 1] BY <1>4, <2>4
    <3> QED BY <2>1, <2>4, <3>1
  <2> QED BY <2>2, <2>3, <2>4
<1>10. /\ writer'.pc = "idle" /\ writer'.batch = <<>> /\ writer'.from = None /\ writer'.upto = None
       /\ writer'.cursor = cursor
  BY <1>4, IdleWriterIs
<1>11. WriterOrdered'
  <2>1. ~Before(a, None) /\ ~Before(order.committed, None) /\ ~Before(a, readStart) /\ ~Before(a, releaseUpto)
        /\ ~Before(order.committed, inFlight.next)
    BY <1>1, BehindNone DEF Ordered
  <2>2. ~Before(b, None) /\ ~Before(b, readStart) /\ ~Before(b, releaseUpto) /\ ~Before(b, b)
    BY <1>2, <1>3, <2>1, NoneIs, NotBefore
  <2>3. ~Before(b, cursor) BY <1>6, <2>2
  <2>4. ~Before(b, releaseUpto') BY <1>2, <1>4, <2>2
  <2>5. ~Before(order.committed, inFlight'.next) BY <1>9, <2>1
  <2> QED BY <1>2, <1>10, <2>1, <2>2, <2>3, <2>4, <2>5 DEF WriterOrdered, b
<1>12. ReadersAhead' /\ InBatchOrSettled'
  <2>1. NothingBetween(store, a, inFlight.next) => NothingBetween(store, b, inFlight.next)
    BY <1>2, <1>3, FromLater
  <2> QED BY <1>1, <1>4, <1>9, <1>10, <2>1 DEF ReadersAhead, InBatchOrSettled, a, b
<1>13. ASSUME NEW j \in Jobs, Pending(j)', j \in Beyond(store, a), j \notin Beyond(store, b) PROVE FALSE
  <2>1. Poisoned BY <1>2, <1>13
  <2>2. j \in Between(store, a, inFlight.next)
    <3>1. b = Later(a, inFlight.next) BY <1>2, <2>1
    <3> HIDE DEF a
    <3> QED BY <1>3, <1>13, <3>1, PassedOver
  <2>3. CASE writer.pc = "memory"
    <3>1. NothingBetween(store, a, inFlight.next) BY <1>1, <2>1, <2>3 DEF ReadersAhead, Poisoned, a
    <3> QED BY <2>2, <3>1 DEF Between, NothingBetween
  <2>4. CASE writer.pc = "disk"
    <3>1. inFlight.next = writer.upto BY <1>1, <2>4 DEF WriterOrdered
    <3>2. j \in ToSet(writer.batch) BY <1>1, <1>7, <1>13, <2>2, <2>4, <3>1 DEF InBatchOrSettled, a
    <3> QED BY <1>7, <1>8, <1>13, <3>2
  <2> QED BY <1>4, <2>3, <2>4
<1>14. Somewhere'
  <2> SUFFICES ASSUME NEW j \in Jobs, Pending(j)' PROVE j \in Queued' \cup Beyond(store, b)
    BY <1>4 DEF Somewhere, b
  <2>1. Pending(j) /\ (j \in ToSet(writer.batch) => j \in Beyond(store, b)) BY <1>7, <1>8
  <2>2. j \in Queued \cup Beyond(store, a) BY <1>1, <2>1 DEF Somewhere, a
  <2> QED BY <1>4, <1>13, <2>1, <2>2 DEF Queued
<1> QED BY <1>2, <1>4, <1>11, <1>12, <1>14, WriterMoves DEF a, b

LEMMA WriterKeeps ==
  ASSUME IInv, Types', Counted', WriterStep \/ WriterOther PROVE IInv'
<1>1. CASE WriterTakeMemory \/ WriterStartRead \/ DiscardRead
  BY <1>1, TakesMemory, StartsRead, DiscardsRead
<1>2. CASE EndRead({}) \/ WriterEndRead BY <1>2, EndsRead DEF WriterEndRead
<1>3. CASE WriterResume \/ WriterTransaction \/ WriterDone BY <1>3, ResumesKeeps, Transacts, DonesKeep
<1>4. CASE WriterReadFails \/ WriterPanic BY <1>4, ReadsFail, PanicsKeep
<1>5. CASE RespawnWriter
  BY <1>5, Untouched DEF RespawnWriter, queueVars, clearReqVars, readVars, spillVars, jobVars
<1>6. CASE WriterRefresh
  BY <1>6, Untouched DEF WriterRefresh, queueVars, clearReqVars, readVars, spillVars, jobVars
<1> QED BY <1>1, <1>2, <1>3, <1>4, <1>5, <1>6 DEF WriterStep, WriterOther

--------------------
(* The queues change, and what the clears asked for; the files and the two
   threads stay. *)
LEMMA QueuesMove ==
  ASSUME IInv, Types', Counted', UNCHANGED <<releaseUpto, readStart, inFlight, store, spill, writer>>,
         order'.committed = order.committed, order'.consumed = order.consumed,
         \A c \in Clears : boundary'[c] \in {boundary[c], None},
         Known', MemoryFirst', InBatchOrSettled', Somewhere'
  PROVE  IInv'
<1>1. Parts /\ Boundaries BY PartsTyped DEF IInv
<1>2. Placed(store)' /\ Ordered' /\ Removable' /\ Unpublished'
  BY DEF IInv, Ordered, Removable, PurgedBelow, Unpublished
<1>3. Boundaries'
  <2>1. Separates(store, spill.unflushed, None)
    <3>1. store.nextId \in Nat /\ store.active \in Nat BY <1>1, IdsAreNat DEF Parts
    <3>2. \A i \in 1 .. Len(spill.unflushed) : spill.unflushed[i].end.segment \in Nat
      BY <1>1, EntriesIs DEF Parts, Entries, Positions
    <3> QED BY <3>1, <3>2, NoneIs DEF Separates
  <2>2. \A c \in Clears : Separates(store, spill.unflushed, boundary'[c]) BY <1>1, <2>1 DEF Boundaries
  <2> QED BY <1>1, <2>2 DEF Boundaries
<1> QED BY <1>2, <1>3 DEF IInv

LEMMA AbandonKeeps == ASSUME IInv, Types', Counted', NEW c \in Clears, AbandonClear(c) PROVE IInv'
<1>1. /\ Parts /\ Types /\ Known /\ MemoryFirst /\ InBatchOrSettled /\ Somewhere
  BY PartsTyped DEF IInv
<1>2. /\ UNCHANGED <<order, memory, releaseUpto, readStart, inFlight, store, spill, writer, captured, fate>>
      /\ boundary' = [boundary EXCEPT ![c] = None]
      /\ handoff' = IF Running \ {c} = {} THEN held \o handoff ELSE handoff
      /\ held' = IF Running = {c} THEN <<>> ELSE held
      /\ c \in Running
  BY DEF AbandonClear, Requeue, Running, readVars, spillVars, jobVars
<1>3. \A e \in Clears : boundary'[e] \in {boundary[e], None} BY <1>1, <1>2 DEF Types
<1>4. ToSet(handoff') \cup ToSet(held') = ToSet(handoff) \cup ToSet(held)
  <2>1. CASE Running = {c}
    <3>1. handoff' = held \o handoff /\ held' = <<>> BY <1>2, <2>1
    <3>2. ToSet(held \o handoff) = ToSet(held) \cup ToSet(handoff) BY <1>1, ToSetConcat DEF Parts
    <3> QED BY <3>1, <3>2, ToSetEmpty
  <2>2. CASE Running # {c} BY <1>2, <2>2
  <2> QED BY <2>1, <2>2
<1>5. Queued' = Queued BY <1>2, <1>4 DEF Queued
<1>6. MemoryFirst' /\ InBatchOrSettled' /\ Somewhere'
  BY <1>1, <1>2, <1>5 DEF MemoryFirst, InBatchOrSettled, Somewhere, Pending
<1>7. Known' BY <1>1, <1>2, <1>4 DEF Known
<1> QED BY <1>2, <1>3, <1>6, <1>7, QueuesMove

LEMMA FinishKeeps == ASSUME IInv, Types', Counted', NEW c, NEW read, FinishClear(c, read) PROVE IInv'
<1>1. /\ Parts /\ Types /\ Known /\ Ordered /\ MemoryFirst /\ Unpublished /\ InBatchOrSettled /\ Somewhere
  BY PartsTyped DEF IInv
<1>2. UNCHANGED <<boundary, releaseUpto, readStart, inFlight, store, spill, writer, captured>>
  BY DEF FinishClear, readVars, spillVars
<1>3. PICK fresh, gone, stale, let, out : Finished(fresh, gone, stale, let, out) BY <1>1, FinishIs
<1>4. memory \in Seq(Jobs) /\ handoff \in Seq(Jobs) BY <1>1 DEF Parts
<1>5. /\ ToSet(memory') = ToSet(memory) \cap fresh /\ ToSet(handoff') = ToSet(handoff) \cap fresh
      /\ ToSet(gone) = ToSet(memory) \cap (Jobs \ fresh)
      /\ ToSet(stale) = ToSet(handoff) \cap (Jobs \ fresh)
  BY <1>3, <1>4, AmongWhich DEF Finished
<1>6. ToSet(held') \cup ToSet(let) = ToSet(held) BY <1>3, ToSetEmpty DEF Finished
<1>6a. ToSet(out) = ToSet(stale) \cup ToSet(let) BY <1>3, ToSetConcat DEF Finished
<1>7. order'.committed = order.committed /\ order'.consumed = order.consumed /\ Resumes(order, order')
  BY <1>3 DEF Finished
<1>8. \A j \in Jobs : Pending(j)' => Pending(j) /\ j \notin ToSet(gone) \cup ToSet(out)
  BY <1>3, SettleIs DEF Finished
<1>9. \A j \in Jobs : Pending(j)' => Pending(j) /\ (j \in Queued => j \in Queued')
  BY <1>2, <1>5, <1>6, <1>6a, <1>8 DEF Queued
<1>10. Somewhere' /\ InBatchOrSettled'
  <2>1. Somewhere' BY <1>1, <1>2, <1>7, <1>9 DEF Somewhere
  <2>2. \A j \in Between(store, order.consumed, writer.upto) : j \in Jobs BY DEF Between
  <2>3. InBatchOrSettled' BY <1>1, <1>2, <1>7, <1>8, <2>2 DEF InBatchOrSettled
  <2> QED BY <2>1, <2>3
<1>11. MemoryFirst'
  <2>1. memory = <<>> => memory' = <<>>
    <3> SUFFICES ASSUME memory = <<>> PROVE memory' = <<>> OBVIOUS
    <3> DEFINE m == Len(memory')  n == Len(gone)
    <3>1. m + n = 0
      <4>1. Len(memory') + Len(gone) = Len(memory) BY <1>3, <1>4, AmongSplits DEF Finished
      <4> QED BY <4>1
    <3>2. m \in Nat /\ n \in Nat /\ memory' \in Seq(Jobs)
      BY <1>3, LenProperties DEF Finished
    <3>3. m = 0
      <4> HIDE DEF m, n
      <4> QED BY <3>1, <3>2
    <3> QED BY <3>2, <3>3, EmptySeq
  <2>2. ~Before(order'.consumed, order.consumed) BY <1>1, <1>7, NotBefore DEF Parts
  <2>3. Noted(store, spill'.unflushed, order'.committed) BY <1>1, <1>2, <1>7 DEF Unpublished
  <2>4. /\ order'.handoffJobs > 0 => order'.spilling
        /\ ~order'.spilling => NothingBeyond(store', order'.consumed)
    BY <1>1, <1>2, <1>7, <2>2, <2>3, MemoryAlone
  <2> QED BY <1>1, <1>2, <1>7, <2>1, <2>4 DEF MemoryFirst
<1>12. Known' BY <1>1, <1>2, <1>5, <1>6 DEF Known
<1> QED BY <1>2, <1>7, <1>10, <1>11, <1>12, QueuesMove

LEMMA ClearKeeps ==
  ASSUME IInv, Types', Counted', ClearStep PROVE IInv'
<1>1. CASE BeginClear BY <1>1, Untouched DEF BeginClear, queueVars, readVars, spillVars, jobVars
<1>2. ASSUME NEW c \in Clears, CommitClear(c) PROVE IInv'
  BY <1>2, Untouched DEF CommitClear, queueVars, clearReqVars, readVars, spillVars, jobVars
<1>3. ASSUME NEW c \in Clears, AbandonClear(c) \/ EndClear(c) PROVE IInv'
  BY <1>3, AbandonKeeps, FinishKeeps DEF EndClear
<1> QED BY <1>1, <1>2, <1>3 DEF ClearStep

--------------------
(* A new job goes to memory only when nothing older is left in the files. *)
LEMMA BetweenKnown ==
  ASSUME NEW s, StoreOK(s), NEW n \in Nat, Numbered(s, n), NEW from, NEW upto,
         NEW j \in Between(s, from, upto)
  PROVE  j \in Jobs /\ j <= n
<1>0. PICK id \in Ids(s) : \E k \in 1 .. OnDisk(s, id) : j = s.files[id][k] BY DEF Between
<1>1. PICK k \in 1 .. OnDisk(s, id) : j = s.files[id][k] BY <1>0
<1>2. OnDisk(s, id) <= Length(s, id) /\ OnDisk(s, id) \in Nat /\ Length(s, id) \in Nat BY Lengths
<1>3. k \in 1 .. Length(s, id) BY <1>2
<1> QED BY <1>1, <1>3 DEF Numbered, Between

LEMMA SubmitKeeps ==
  ASSUME IInv, Types', Counted', Submit PROVE IInv'
<1>1. /\ Parts /\ Types /\ Known /\ Ordered /\ MemoryFirst /\ InBatchOrSettled /\ Somewhere
  BY PartsTyped DEF IInv
<1> DEFINE j == captured + 1  z == Size[j]
           to == IF writerAlive THEN Destination(order, z) ELSE "drop"
<1>2. /\ captured' = j
      /\ order' = (IF writerAlive THEN Route(order, z) ELSE order)
      /\ memory' = (IF to = "memory" THEN Append(memory, j) ELSE memory)
      /\ handoff' = (IF to = "spill" THEN Append(handoff, j) ELSE handoff)
      /\ fate' = [fate EXCEPT ![j] = IF to = "drop" THEN "dropped" ELSE "pending"]
      /\ UNCHANGED <<held, boundary, releaseUpto, readStart, inFlight, store, spill, writer>>
  BY DEF Submit, clearReqVars, readVars, spillVars
<1>3. j \in Jobs /\ z \in Nat /\ captured \in Nat
  BY <1>1, QueueAssumption, SizesAreNat DEF Types, Submit, Jobs
<1>4. order \in OrderStates /\ order.handoffJobs \in Nat /\ order.spilling \in BOOLEAN /\ StoreOK(store)
      /\ memory \in Seq(Jobs) /\ handoff \in Seq(Jobs) /\ fate \in [Jobs -> Fates]
  BY <1>1 DEF Parts
<1> HIDE DEF z
<1>5. /\ order'.committed = order.committed /\ order'.consumed = order.consumed
      /\ order'.handoffJobs > 0 => order'.spilling
      /\ ~order'.spilling => ~order.spilling
      /\ to = "memory" => ~order.spilling
      /\ to \in {"memory", "drop", "spill"}
  <2>1. CASE writerAlive
    <3> DEFINE q == Route(order, z)  d == Destination(order, z)
    <3>1. /\ d \in {"memory", "drop", "spill"} /\ q.committed = order.committed
          /\ q.consumed = order.consumed
          /\ q.handoffJobs = IF d = "spill" THEN order.handoffJobs + 1 ELSE order.handoffJobs
          /\ d = "memory" => ~order.spilling
          /\ d = "spill" => q.spilling
          /\ order.spilling => q.spilling
      BY <1>3, <1>4, RouteIs
    <3>2. order' = q /\ to = d BY <1>2, <2>1
    <3> HIDE DEF q, d, to
    <3> QED BY <1>1, <1>4, <3>1, <3>2 DEF MemoryFirst
  <2>2. CASE ~writerAlive BY <1>1, <1>2, <2>2 DEF MemoryFirst
  <2> QED BY <2>1, <2>2
<1> HIDE DEF to
<1>6. /\ ToSet(memory') = (IF to = "memory" THEN ToSet(memory) \cup {j} ELSE ToSet(memory))
      /\ ToSet(handoff') = (IF to = "spill" THEN ToSet(handoff) \cup {j} ELSE ToSet(handoff))
  <2> HIDE DEF j
  <2>1. /\ ToSet(Append(memory, j)) = ToSet(memory) \cup {j}
        /\ ToSet(Append(handoff, j)) = ToSet(handoff) \cup {j}
    BY <1>3, <1>4, ToSetAppend
  <2> QED BY <1>2, <2>1
<1>7. \A i \in Jobs : Pending(i)' => IF i = j THEN to # "drop" ELSE Pending(i)
  BY <1>2, <1>3, <1>4 DEF Pending
<1>8. Known'
  <2>1. ToSet(handoff') \cup ToSet(held) \cup ToSet(spill.hand) \subseteq 1 .. j
    <3>1. 1 .. captured \subseteq 1 .. j /\ j \in 1 .. j BY <1>3
    <3> HIDE DEF j
    <3> QED BY <1>1, <1>6, <3>1 DEF Known
  <2>2. Numbered(store, j)
    <3> SUFFICES ASSUME NEW id \in Ids(store), NEW k \in 1 .. Length(store, id)
                 PROVE  store.files[id][k] <= captured + 1
      BY DEF Numbered
    <3>1. store.files[id][k] <= captured BY <1>1 DEF Known, Numbered
    <3>2. store.files[id][k] \in Jobs
      <4>1. store.files[id] \in Seq(Jobs) /\ Length(store, id) = Len(store.files[id]) BY <1>4, Lengths
      <4> QED BY <4>1, ElementOfSeq
    <3> QED BY <1>3, <3>1, <3>2 DEF Jobs
  <2> QED BY <1>2, <2>1, <2>2 DEF Known
<1>9. MemoryFirst'
  <2>1. ASSUME to = "memory" PROVE \A p : NothingBetween(store, order.consumed, p)
    <3>1. NothingBeyond(store, order.consumed) BY <1>1, <1>5, <2>1 DEF MemoryFirst
    <3>2. \A id \in Ids(store) : \A k \in 1 .. OnDisk(store, id) : k \in 1 .. Length(store, id)
      <4> SUFFICES ASSUME NEW id \in Ids(store), NEW k \in 1 .. OnDisk(store, id)
                   PROVE  k \in 1 .. Length(store, id) OBVIOUS
      <4>1. OnDisk(store, id) <= Length(store, id) /\ OnDisk(store, id) \in Nat /\ Length(store, id) \in Nat
        BY <1>4, Lengths
      <4> QED BY <4>1
    <3> QED BY <3>1, <3>2 DEF NothingBetween, NothingBeyond
  <2>2. memory' # <<>> => to = "memory" \/ memory # <<>> BY <1>2
  <2> QED BY <1>1, <1>2, <1>5, <2>1, <2>2 DEF MemoryFirst
<1>10. InBatchOrSettled'
  <2> SUFFICES ASSUME writer.pc = "disk", NEW i \in Between(store, order.consumed, writer.upto), Pending(i)'
               PROVE  i \in ToSet(writer.batch)
    BY <1>2, <1>5 DEF InBatchOrSettled
  <2>1. i \in Jobs /\ i <= captured BY <1>1, <1>3, <1>4, BetweenKnown DEF Known
  <2>2. i # j BY <1>3, <2>1 DEF Jobs
  <2> QED BY <1>1, <1>7, <2>1, <2>2 DEF InBatchOrSettled
<1>11. Somewhere'
  <2> HIDE DEF j
  <2> QED BY <1>1, <1>2, <1>5, <1>6, <1>7 DEF Somewhere, Queued
<1> QED BY <1>2, <1>5, <1>8, <1>9, <1>10, <1>11, QueuesMove

--------------------
(* The process starts. *)
LEMMA OpenStoreFinds ==
  ASSUME NEW D, NEW n \in Nat, D \subseteq 1 .. n, NEW files \in [D -> Seq(Jobs)]
  PROVE  StoreOK(OpenStore(files)) /\ Ids(OpenStore(files)) = D /\ Reopened(OpenStore(files))
<1> DEFINE t == OpenStore(files)
<1>1. /\ StoreOK(t) /\ t.files = files /\ t.active = NoSegment /\ t.deletes = {}
      /\ D = {} => t.start = Pos(1, 0) /\ t.committed = Pos(1, 0)
      /\ D # {} => /\ t.start = Pos(Min(D), 0) /\ t.nextId = Max(D) + 1
                   /\ t.committed = Pos(Max(D), Len(files[Max(D)]))
  BY OpenStoreIs
<1> HIDE DEF t
<1>2. Ids(t) = D BY <1>1 DEF Ids
<1>3. t.nextId \in Nat \ {0} BY <1>1 DEF StoreOK
<1>4. ASSUME D = {} PROVE Reopened(t)
  <2>1. t.start.segment > 0 /\ ~Before(t.committed, t.start) /\ ~Before(Pos(t.nextId, 0), t.committed)
    BY <1>1, <1>3, <1>4 DEF Before, Pos
  <2> QED BY <1>1, <1>2, <1>4, <2>1 DEF Reopened
<1>5. ASSUME D # {} PROVE Reopened(t)
  <2> DEFINE hi == Max(D)  lo == Min(D)  k == Len(files[hi])
  <2>1. D \subseteq Nat /\ \A i \in D : i <= n OBVIOUS
  <2>2. hi \in D /\ \A i \in D : i <= hi BY <1>5, <2>1, MaxIs
  <2>3. lo \in D /\ \A i \in D : lo <= i BY <1>5, <2>1, MinIs
  <2>4. t.start = Pos(lo, 0) /\ t.nextId = hi + 1 /\ t.committed = Pos(hi, k) BY <1>1, <1>5
  <2> HIDE DEF hi, lo
  <2>5. hi \in Nat \ {0} /\ lo \in Nat \ {0} /\ k \in Nat /\ lo <= hi BY <2>2, <2>3, LenProperties
  <2>6. Length(t, hi) = k BY <1>1, <1>2, <2>2 DEF Length
  <2> HIDE DEF k
  <2>7. t.start.segment > 0 /\ ~Before(t.committed, t.start) /\ ~Before(Pos(t.nextId, 0), t.committed)
    BY <2>4, <2>5 DEF Before, Pos
  <2>8. ASSUME NEW id \in Ids(t), NEW i \in 1 .. Length(t, id)
        PROVE  Before(t.start, Pos(id, i)) /\ ~Before(t.committed, Pos(id, i))
    <3>1. id \in Nat /\ lo <= id /\ id <= hi /\ Length(t, id) \in Nat
      BY <1>1, <1>2, <2>1, <2>2, <2>3, Lengths
    <3>2. i \in Nat \ {0} /\ i <= Length(t, id) BY <3>1
    <3>3. id = hi => i <= k BY <2>6, <3>2
    <3>4. Before(Pos(lo, 0), Pos(id, i)) BY <2>5, <3>1, <3>2 DEF Before, Pos
    <3>5. ~Before(Pos(hi, k), Pos(id, i)) BY <2>5, <3>1, <3>2, <3>3 DEF Before, Pos
    <3> QED BY <2>4, <3>4, <3>5
  <2> QED BY <1>1, <2>7, <2>8 DEF Reopened
<1>6. Reopened(t) BY <1>4, <1>5
<1> QED BY <1>1, <1>2, <1>6 DEF t

LEMMA StartHolds ==
  ASSUME Types, Counted, Started PROVE IInv
<1>1. Parts /\ StoreOK(store) /\ Reopened(store) /\ store.start \in Positions
  BY PartsTyped DEF Parts, Started, StoreOK
<1>2. /\ order.consumed = store.start /\ order.committed = store.committed /\ order.handoffJobs = 0
      /\ order.spilling = Before(store.start, store.committed)
  BY DEF Started, SetBlocked, NewOrder
<1>3. spill.pc = "idle" /\ spill.hand = <<>> /\ spill.unflushed = <<>> BY DEF Started, IdleSpill
<1>4. /\ writer.pc = "idle" /\ writer.batch = <<>> /\ writer.from = None /\ writer.upto = None
      /\ writer.cursor = store.start
  BY IdleWriterIs DEF Started
<1>5. memory = <<>> /\ handoff = <<>> /\ held = <<>> /\ releaseUpto = None /\ readStart = store.start
      /\ inFlight.start = None /\ inFlight.next = None /\ \A c \in Clears : boundary[c] = None
  BY DEF Started
<1>6. ASSUME NEW id \in Ids(store), NEW k \in 1 .. Length(store, id)
      PROVE  /\ Pos(id, k) \in Positions /\ Before(store.start, Pos(id, k))
             /\ ~Before(store.committed, Pos(id, k)) /\ ~Before(Pos(store.nextId, 0), Pos(id, k))
             /\ OnDisk(store, id) = Length(store, id)
  <2>1. id \in Nat /\ id < store.nextId /\ Length(store, id) \in Nat /\ store.nextId \in Nat
        /\ id # NoSegment
    BY <1>1, IdsAreNat, Lengths DEF Parts
  <2>2. OnDisk(store, id) = Length(store, id) BY <1>1, <2>1 DEF OnDisk, Reopened
  <2>3. ~Before(Pos(store.nextId, 0), Pos(id, k)) BY <2>1 DEF Before, Pos
  <2> QED BY <1>1, <2>1, <2>2, <2>3, PosIs DEF Reopened
<1>7. Placed(store)
  <2>1. ASSUME NEW id \in Ids(store), NEW k \in 1 .. OnDisk(store, id) PROVE ~Before(store.committed, Pos(id, k))
    <3>1. OnDisk(store, id) = Length(store, id) BY <1>1, IdsAreNat, Lengths DEF Reopened
    <3> QED BY <1>6, <3>1
  <2> QED BY <1>1, <2>1 DEF Placed, Reopened
<1>8. Known BY <1>3, <1>5, ToSetEmpty DEF Known, Started
<1>9. Ordered
  <2>1. ~Before(store.start, None) /\ ~Before(store.committed, None)
    <3>1. store.start.segment > 0 /\ ~Before(store.committed, store.start)
          /\ store.start \in Positions /\ store.committed \in Positions
      BY <1>1 DEF Reopened, Parts
    <3> QED BY <3>1, NoneIs DEF Before, Positions
  <2>2. ~Before(store.start, store.start) /\ ~Before(store.committed, store.committed)
    BY <1>1, NotBefore DEF Parts
  <2> QED BY <1>1, <1>2, <1>4, <1>5, <2>1, <2>2 DEF Ordered, Reopened
<1>10. Removable BY <1>1 DEF Removable, Clean, Reopened
<1>11. Boundaries
  <2>1. Separates(store, spill.unflushed, None)
    <3>1. store.nextId \in Nat /\ store.active \in Nat BY <1>1, IdsAreNat DEF Parts
    <3> QED BY <1>3, <3>1, Empty, NoneIs DEF Separates
  <2> QED BY <1>3, <1>5, <2>1 DEF Boundaries
<1>12. Unpublished BY <1>2, <1>3, <1>6, Empty DEF Unpublished, Noted
<1>13. MemoryFirst
  <2>1. ASSUME ~Before(store.start, store.committed) PROVE NothingBeyond(store, store.start)
    <3> SUFFICES ASSUME NEW id \in Ids(store), NEW k \in 1 .. Length(store, id) PROVE ~Before(store.start, Pos(id, k))
      BY DEF NothingBeyond
    <3>1. Pos(id, k) \in Positions /\ ~Before(store.committed, Pos(id, k)) BY <1>6
    <3> QED BY <1>1, <2>1, <3>1, NotBefore DEF Parts
  <2> QED BY <1>2, <1>4, <1>5, <2>1 DEF MemoryFirst
<1>14. InBatchOrSettled BY <1>4 DEF InBatchOrSettled
<1>15. Somewhere
  <2> SUFFICES ASSUME NEW j \in Jobs, Pending(j) PROVE j \in Beyond(store, order.consumed)
    BY DEF Somewhere
  <2>1. PICK id \in Ids(store) : j \in ToSet(store.files[id]) BY DEF Started
  <2>2. PICK k \in 1 .. Length(store, id) : j = store.files[id][k]
    <3>1. store.files[id] \in Seq(Jobs) /\ Len(store.files[id]) = Length(store, id) BY <1>1, Lengths
    <3> QED BY <2>1, <3>1, InToSet
  <2> QED BY <1>2, <1>6, <2>2 DEF Beyond, Between
<1> QED BY <1>7, <1>8, <1>9, <1>10, <1>11, <1>12, <1>13, <1>14, <1>15 DEF IInv

LEMMA InitHolds ==
  ASSUME Init PROVE IInv
<1>1. Types /\ Counted BY InitTyped, InitCounted
<1>2. <<>> \in [{} -> Seq(Jobs)] /\ {} \subseteq 1 .. 0 /\ 0 \in Nat BY SMT
<1>3. store = OpenStore(<<>>) BY DEF Init
<1>4. Ids(store) = {} /\ Reopened(store) BY <1>2, <1>3, OpenStoreFinds
<1>5. store.start = Pos(1, 0) /\ store.committed = Pos(1, 0) BY <1>2, <1>3, OpenStoreIs
<1>6. Numbered(store, captured) BY <1>4 DEF Numbered
<1>7. \A j \in Jobs : ~Pending(j) BY DEF Init, Pending
<1>8. Started BY <1>4, <1>5, <1>6, <1>7 DEF Init, Started
<1> QED BY <1>1, <1>8, StartHolds

LEMMA RestartHolds ==
  ASSUME IInv, Types', Counted', Restart PROVE IInv'
<1>1. StoreOK(store) /\ Known BY PartsTyped DEF IInv, Parts
<1>2. PICK kept \in 0 .. Length(store, store.active) : store' = OpenStore(Found(kept))
  BY DEF Restart, Found
<1> DEFINE D == Ids(store)
<1>3. D \subseteq 1 .. store.nextId - 1 /\ store.nextId - 1 \in Nat /\ Found(kept) \in [D -> Seq(Jobs)]
  BY <1>1, FoundIs
<1> HIDE DEF D
<1>4. Ids(store') = D /\ Reopened(store') /\ store'.files = Found(kept)
  BY <1>2, <1>3, OpenStoreFinds, OpenStoreIs
<1>5. Numbered(store', captured)
  <2> SUFFICES ASSUME NEW id \in D, NEW k \in 1 .. Length(store', id)
               PROVE  Found(kept)[id][k] <= captured
    BY <1>4 DEF Numbered
  <2>1. id \in Ids(store') /\ id \in Ids(store) /\ Length(store', id) = Len(Found(kept)[id])
    BY <1>4 DEF Length, D
  <2>2. k \in 1 .. Len(Found(kept)[id]) BY <2>1
  <2>3. ASSUME NEW i \in 1 .. Length(store, id) PROVE store.files[id][i] <= captured
    BY <1>1, <2>1 DEF Known, Numbered
  <2>4. CASE store.active = NoSegment \/ id # store.active
    <3>1. Found(kept)[id] = store.files[id] BY <1>1, <2>1, <2>4, TruncatedIs DEF Found
    <3>2. Len(store.files[id]) = Length(store, id) BY <1>1, <2>1, Lengths
    <3> QED BY <2>2, <2>3, <3>1, <3>2
  <2>5. CASE store.active # NoSegment /\ id = store.active
    <3>1. Len(Found(kept)[id]) = kept /\ \A i \in 1 .. kept : Found(kept)[id][i] = store.files[id][i]
      BY <1>1, <2>5, TruncatedIs DEF Found
    <3>2. kept <= Length(store, id) /\ Length(store, id) \in Nat /\ kept \in Nat
      BY <1>1, <2>5, Lengths
    <3>3. k \in 1 .. kept /\ k \in 1 .. Length(store, id) BY <2>2, <3>1, <3>2
    <3> QED BY <2>3, <3>1, <3>3
  <2> QED BY <2>4, <2>5
<1>6. \A j \in Jobs : Pending(j)' => \E id \in Ids(store') : j \in ToSet(store'.files[id])
  <2> DEFINE onDisk == UNION {ToSet(store'.files[id]) : id \in Ids(store')}
  <2>1. fate' = Settle(Jobs \ onDisk, "lost") BY DEF Restart
  <2>2. \A j \in Jobs : Pending(j)' => j \in onDisk
    <3> DEFINE S == Jobs \ onDisk
    <3>1. fate' = Settle(S, "lost") /\ "lost" # "pending" BY <2>1
    <3> HIDE DEF S
    <3>2. \A j \in Jobs : Pending(j)' => j \notin S BY <3>1, SettleIs
    <3> QED BY <3>2 DEF S
  <2> QED BY <2>2
<1>7. Started' BY <1>4, <1>5, <1>6 DEF Restart, Started
<1>8. (Types /\ Counted /\ Started => IInv)' BY StartHolds, PTL
<1> QED BY <1>7, <1>8

--------------------
(* Every step keeps the invariant.  Two failures are left out: one that
   makes the records on disk and the end of the stream disagree (a sync
   that fails on its own), and one that settles records as written while
   they are still in the buffer (a record too large for a frame). *)
LEMMA SpillKeeps ==
  ASSUME {"sync", "oversize"} \cap Faults = {}
  PROVE  IInv /\ Types' /\ Counted' /\ (SpillStep \/ SpillOther) => IInv'
<1> SUFFICES ASSUME IInv, Types', Counted', SpillStep \/ SpillOther PROVE IInv' OBVIOUS
<1>1. CASE SpillRoll \/ SpillRollSettle \/ SpillRollRecord
  BY <1>1, RollMoves, RollSettles, RollRecords
<1>2. CASE SpillPurge \/ SpillPurgeDelete \/ SpillPurgeSkip
  BY <1>2, PurgeStarts, PurgeDeletes, PurgeSkips
<1>3. CASE SpillRelease \/ SpillTake \/ SpillAppend \/ SpillFlush
  BY <1>3, ReleaseKeeps, TakeKeeps, AppendKeeps, FlushSettles
<1>4. CASE SpillRetryDeletes \/ SpillUnblock BY <1>4, RetryKeeps, UnblockKeeps
<1>5. CASE SpillFull \/ SpillAppendError \/ SpillPanic
  BY <1>5, FullKeeps, AppendErrorSettles, PanicSettles
<1>6. CASE SpillTooLarge BY <1>6 DEF SpillTooLarge
<1>7. CASE SpillSync BY <1>7, SyncMoves
<1> QED BY <1>1, <1>2, <1>3, <1>4, <1>5, <1>6, <1>7 DEF SpillStep, SpillOther

LEMMA InductiveStep ==
  ASSUME {"sync", "oversize"} \cap Faults = {}
  PROVE  IInv /\ [Next]_vars => IInv'
<1> SUFFICES ASSUME IInv, [Next]_vars PROVE IInv' OBVIOUS
<1>1. Types' /\ Counted' BY TypesStep, CountedStep DEF IInv
<1>2. CASE Submit \/ ClearStep \/ Restart BY <1>1, <1>2, SubmitKeeps, ClearKeeps, RestartHolds
<1>3. CASE SpillStep \/ SpillOther BY <1>1, <1>3, SpillKeeps
<1>4. CASE WriterStep \/ WriterOther BY <1>1, <1>4, WriterKeeps
<1>5. CASE UNCHANGED vars
  BY <1>1, <1>5, Untouched DEF vars, queueVars, clearReqVars, readVars, spillVars, jobVars
<1> QED BY <1>2, <1>3, <1>4, <1>5 DEF Next

LEMMA SomewhereImplies == IInv => NothingVanishes
<1> SUFFICES ASSUME IInv, NEW j \in Jobs, fate[j] = "pending"
             PROVE  j \in ToSet(memory) \cup ToSet(InHandoff) \cup ToSet(writer.batch)
                            \cup Unread(Pos(store.nextId, 0))
  BY DEF NothingVanishes
<1>1. Parts /\ Somewhere BY PartsTyped DEF IInv
<1>2. j \in Queued \cup Beyond(store, order.consumed) BY <1>1 DEF Somewhere, Pending
<1>3. Unread(Pos(store.nextId, 0)) = Beyond(store, order.consumed) BY <1>1, UnreadIs DEF Parts, Beyond
<1>4. ToSet(InHandoff) = ToSet(handoff) \cup ToSet(held) \cup ToSet(spill.hand)
                           \cup ToSet(JobsOf(spill.unflushed))
  <2>1. InHandoff = handoff \o held \o spill.hand \o JobsOf(spill.unflushed) BY DEF InHandoff, JobsOf
  <2>2. /\ handoff \in Seq(Jobs) /\ held \in Seq(Jobs) /\ spill.hand \in Seq(Jobs)
        /\ spill.unflushed \in Seq(Entries)
    BY <1>1 DEF Parts
  <2> QED BY <2>1, <2>2, HandoffSums
<1> QED BY <1>2, <1>3, <1>4 DEF Queued

(* Whatever else fails, and whenever the process restarts: a payload that
   nobody has decided about is in the memory queue, waits for the spill
   thread, is in its hands or in its buffer, is in the batch of the
   writer, or lies in a segment ahead of what the writer has consumed.  No
   file is deleted and no position moved past it. *)
THEOREM NothingIsLost ==
  ASSUME {"sync", "oversize"} \cap Faults = {}
  PROVE  Spec => []NothingVanishes
<1>1. Init => IInv BY InitHolds
<1>2. IInv /\ [Next]_vars => IInv' BY InductiveStep
<1>3. IInv => NothingVanishes BY SomewhereImplies
<1> QED BY <1>1, <1>2, <1>3, PTL DEF Spec

--------------------
(* What a clear discards. *)
LEMMA WithinItself == ASSUME NEW s, StoreOK(s) PROVE Within(s, s)
BY DEF Within, StoreOK

LEMMA WithinBoth ==
  ASSUME NEW s, NEW t, NEW u, StoreOK(s), StoreOK(t), StoreOK(u), Within(s, t), Within(t, u)
  PROVE  Within(s, u)
<1>1. s.nextId \in Nat /\ t.nextId \in Nat /\ u.nextId \in Nat BY DEF StoreOK
<1> QED BY <1>1 DEF Within

(* Files with fewer records, each where it was. *)
LEMMA WithinFiles ==
  ASSUME NEW s, NEW t, StoreOK(s), StoreOK(t), Ids(t) \subseteq Ids(s),
         \A id \in Ids(t) : \A k \in 1 .. Length(t, id) :
           k \in 1 .. Length(s, id) /\ t.files[id][k] = s.files[id][k],
         t.nextId = s.nextId, t.active \in {s.active, NoSegment}
  PROVE  Within(s, t)
<1>1. \A id \in Nat : Stored(t, id) \subseteq Stored(s, id) BY DEF Stored
<1> QED BY <1>1 DEF Within, StoreOK

LEMMA WithinCut ==
  ASSUME NEW s, NEW t, StoreOK(s), StoreOK(t), s.active # NoSegment, NEW kept \in MayKeep(s), Cut(s, t, kept)
  PROVE  Within(s, t)
<1>1. kept \in 0 .. Length(s, s.active) /\ s.active \in Ids(s) /\ Length(s, s.active) \in Nat
  BY KeptIs, Lengths DEF StoreOK
<1>2. ASSUME NEW id \in Ids(t), NEW k \in 1 .. Length(t, id)
      PROVE  k \in 1 .. Length(s, id) /\ t.files[id][k] = s.files[id][k]
  <2>1. CASE id = s.active
    <3>1. Length(t, id) = kept BY <2>1, Lengths DEF Cut
    <3> QED BY <1>1, <2>1, <3>1 DEF Cut
  <2>2. CASE id # s.active
    <3>1. t.files[id] = s.files[id] /\ id \in Ids(s) BY <2>2 DEF Cut
    <3> QED BY <3>1 DEF Length
  <2> QED BY <2>1, <2>2
<1> QED BY <1>2, WithinFiles DEF Cut

LEMMA WithinClosed ==
  ASSUME NEW s, StoreOK(s), NEW kept \in MayKeep(s)
  PROVE  /\ Within(s, CloseActive(s, kept)) /\ StoreOK(CloseActive(s, kept))
         /\ Within(s, AbandonActive(s, kept)) /\ StoreOK(AbandonActive(s, kept))
         /\ Within(s, Roll(s, kept)) /\ StoreOK(Roll(s, kept)) /\ Roll(s, kept).active = NoSegment
<1> DEFINE u == CloseActive(s, kept)  v == AbandonActive(s, kept)  t == Roll(s, kept)
<1>1. /\ StoreOK(u) /\ (s.active = NoSegment => u = s)
      /\ s.active # NoSegment => Cut(s, u, kept)
  BY CloseIs
<1>2. /\ StoreOK(v) /\ (s.active = NoSegment => v = s)
      /\ s.active # NoSegment => Cut(s, v, kept)
  BY AbandonIs
<1>3. StoreOK(t) /\ t.files = u.files /\ t.active = NoSegment /\ t.nextId = u.nextId BY RollIs
<1> HIDE DEF u, v, t
<1>4. Within(s, u) /\ Within(s, v) BY <1>1, <1>2, WithinCut, WithinItself
<1>5. Within(u, t)
  <2>1. Ids(t) = Ids(u) /\ \A id : Length(t, id) = Length(u, id) BY <1>3 DEF Ids, Length
  <2> QED BY <1>1, <1>3, <2>1, WithinFiles
<1>6. Within(s, t) BY <1>1, <1>3, <1>4, <1>5, WithinBoth
<1> QED BY <1>1, <1>2, <1>3, <1>4, <1>6 DEF u, v, t

LEMMA WithinFlushed ==
  ASSUME NEW s, StoreOK(s)
  PROVE  Within(s, Flush(s)) /\ Within(s, FlushUnsynced(s))
<1> DEFINE t == Flush(s)  u == FlushUnsynced(s)
<1>1. StoreOK(t) /\ StoreOK(u) /\ t.files = s.files /\ t.active = s.active /\ t.nextId = s.nextId
  BY FlushedIs
<1>2. u.files = s.files /\ u.active = s.active /\ u.nextId = s.nextId
  <2>1. s = [files |-> s.files, active |-> s.active, flushed |-> s.flushed, nextId |-> s.nextId,
             deletes |-> s.deletes, start |-> s.start, committed |-> s.committed]
    BY DEF StoreOK
  <2>2. u = [s EXCEPT !.flushed = Length(s, s.active)] BY DEF FlushUnsynced
  <2> HIDE DEF u
  <2> QED BY <2>1, <2>2
<1> HIDE DEF t, u
<1>3. /\ Ids(t) = Ids(s) /\ \A id : Length(t, id) = Length(s, id)
      /\ Ids(u) = Ids(s) /\ \A id : Length(u, id) = Length(s, id)
  BY <1>1, <1>2 DEF Ids, Length
<1> QED BY <1>1, <1>2, <1>3, WithinFiles DEF t, u

LEMMA WithinDeleted ==
  ASSUME NEW s, StoreOK(s), NEW ids \in SUBSET Ids(s), NEW failed
  PROVE  Within(s, Delete(s, ids, failed)) /\ StoreOK(Delete(s, ids, failed))
<1> DEFINE t == Delete(s, ids, failed)
<1>1. Deleted(s, t, ids, failed) BY DeleteIs
<1> HIDE DEF t
<1>2. StoreOK(t) /\ Ids(t) \subseteq Ids(s) /\ t.nextId = s.nextId /\ t.active = s.active
      /\ \A id \in Ids(t) : t.files[id] = s.files[id]
  BY <1>1 DEF Deleted
<1>3. \A id \in Ids(t) : Length(t, id) = Length(s, id) BY <1>2 DEF Length
<1>4. Within(s, t) BY <1>2, <1>3, WithinFiles
<1> QED BY <1>2, <1>4 DEF t

LEMMA WithinReleased ==
  ASSUME NEW s, StoreOK(s), NEW c \in Positions, NEW failed
  PROVE  Within(s, ReleaseConsumed(s, c, failed))
<1> DEFINE u == IF FullyRead(s, c) THEN CloseActive(s, s.flushed) ELSE s
           t == ReleaseConsumed(s, c, failed)
<1>1. /\ StoreOK(u) /\ Consumed(s, c) \subseteq Ids(u)
      /\ t = Delete(u, Consumed(s, c), failed)
  BY ReleaseIs
<1>2. Within(s, u) BY EverythingKept, WithinClosed, WithinItself
<1> HIDE DEF u, t
<1>3. Within(u, t) /\ StoreOK(t) BY <1>1, WithinDeleted
<1> QED BY <1>1, <1>2, <1>3, WithinBoth DEF t

LEMMA WithinPurged ==
  ASSUME NEW s, StoreOK(s), NEW p \in Positions, NEW failed
  PROVE  Within(s, PurgeBefore(s, p, failed))
<1> DEFINE u == Delete(s, Older(s, p), failed)  t == PurgeBefore(s, p, failed)
<1>1. /\ StoreOK(u) /\ Older(s, p) \subseteq Ids(s) /\ StoreOK(t)
      /\ t.files = u.files /\ t.active = u.active /\ t.nextId = u.nextId
  BY PurgeIs
<1>2. Within(s, u) BY <1>1, WithinDeleted
<1> HIDE DEF u, t
<1>3. Within(u, t)
  <2>1. Ids(t) = Ids(u) /\ \A id : Length(t, id) = Length(u, id) BY <1>1 DEF Ids, Length
  <2> QED BY <1>1, <2>1, WithinFiles
<1> QED BY <1>1, <1>2, <1>3, WithinBoth DEF t

LEMMA GrownReady ==
  ASSUME NEW s, StoreOK(s)
  PROVE  LET r == ReadyToAppend(s) IN
         /\ \A id \in Nat : Stored(r, id) \subseteq Stored(s, id)
         /\ s.nextId <= r.nextId /\ (r.active = s.active \/ r.active = s.nextId)
<1> DEFINE u == BeforeOpening(s)  r == ReadyToAppend(s)
<1>1. /\ StoreOK(u) /\ StoreOK(r) /\ r.active \in Ids(r) /\ r.active # NoSegment
      /\ r = IF u.active = NoSegment THEN Opened(u) ELSE u
  BY ReadyIs
<1>2. Within(s, u) BY EverythingKept, WithinClosed, WithinItself DEF BeforeOpening
<1>3. u.nextId = s.nextId BY EverythingKept, CloseIs DEF BeforeOpening
<1> HIDE DEF u, r
<1>4. CASE u.active = NoSegment
  <2>1. /\ r.active = u.nextId /\ r.nextId = u.nextId + 1 /\ Ids(r) = Ids(u) \cup {u.nextId}
        /\ r.files[u.nextId] = <<>> /\ \A id \in Ids(u) : r.files[id] = u.files[id]
    BY <1>1, <1>4, OpenedIs
  <2>2. Length(r, u.nextId) = 0 BY <2>1 DEF Length
  <2>3. \A id \in Ids(u) : Length(r, id) = Length(u, id) BY <2>1 DEF Length
  <2>4. ASSUME NEW id \in Nat PROVE Stored(r, id) \subseteq Stored(u, id)
    BY <2>1, <2>2, <2>3 DEF Stored
  <2>5. u.nextId \in Nat BY <1>1 DEF StoreOK
  <2> QED BY <1>2, <1>3, <2>1, <2>4, <2>5 DEF Within, r
<1>5. CASE u.active # NoSegment
  <2>1. r = u BY <1>1, <1>5
  <2> QED BY <1>2, <1>5, <2>1 DEF Within, r
<1> QED BY <1>4, <1>5

LEMMA WithinFailed ==
  ASSUME NEW s, StoreOK(s), s.active = NoSegment \/ NeedsRoll(s)
  PROVE  Within(s, AbandonActive(ReadyToAppend(s), 0))
<1> DEFINE r == ReadyToAppend(s)  t == AbandonActive(r, 0)
<1>1. StoreOK(r) /\ r.flushed = 0 BY ReadyIs, ReadyFlushed
<1>2. /\ \A id \in Nat : Stored(r, id) \subseteq Stored(s, id)
      /\ s.nextId <= r.nextId
  BY GrownReady
<1> HIDE DEF r
<1>3. 0 \in MayKeep(r) BY <1>1, EverythingKept
<1>4. Within(r, t) /\ t.active = NoSegment /\ StoreOK(t) BY <1>1, <1>3, WithinClosed, AbandonIs
<1> HIDE DEF t
<1>5. s.nextId \in Nat /\ r.nextId \in Nat /\ t.nextId \in Nat BY <1>1, <1>4 DEF StoreOK
<1>6. Within(s, t) BY <1>2, <1>4, <1>5 DEF Within
<1> QED BY <1>6 DEF t, r

LEMMA GrownAppended ==
  ASSUME NEW s, StoreOK(s), NEW j \in Jobs
  PROVE  Grown(s, AppendRecord(s, j), j)
<1> DEFINE r == ReadyToAppend(s)  t == AppendRecord(s, j)
<1>1. StoreOK(r) /\ r.active \in Ids(r) /\ r.active # NoSegment BY ReadyIs
<1>2. /\ \A id \in Nat : Stored(r, id) \subseteq Stored(s, id)
      /\ s.nextId <= r.nextId /\ (r.active = s.active \/ r.active = s.nextId)
  BY GrownReady
<1>3. t = Appended(r, j) BY AppendIs
<1> HIDE DEF r, t
<1>4. /\ t.active = r.active /\ t.nextId = r.nextId /\ Ids(t) = Ids(r) /\ StoreOK(t)
      /\ \A id \in Ids(r) \ {r.active} : t.files[id] = r.files[id]
      /\ Length(t, t.active) = Length(r, r.active) + 1
      /\ t.files[r.active][Length(r, r.active) + 1] = j
      /\ \A k \in 1 .. Length(r, r.active) : t.files[r.active][k] = r.files[r.active][k]
  BY <1>1, <1>3, AppendedIs
<1>5. Length(r, r.active) \in Nat /\ r.active \in Nat BY <1>1, Lengths, IdsAreNat
<1>6. ASSUME NEW id \in Nat, NEW i \in Stored(t, id), ~(id = t.active /\ i = j) PROVE i \in Stored(r, id)
  <2>1. PICK k \in 1 .. Length(t, id) : t.files[id][k] = i /\ id \in Ids(r) BY <1>4, <1>6 DEF Stored
  <2>2. CASE id = r.active
    <3>1. k \in 1 .. Length(r, id) BY <1>4, <1>5, <1>6, <2>1, <2>2
    <3> QED BY <1>4, <1>6, <2>1, <2>2, <3>1 DEF Stored
  <2>3. CASE id # r.active
    <3>1. t.files[id] = r.files[id] /\ Length(t, id) = Length(r, id) BY <1>4, <2>1, <2>3 DEF Length
    <3> QED BY <1>6, <2>1, <3>1 DEF Stored
  <2> QED BY <2>2, <2>3
<1>7. Grown(s, t, j)
  <2>1. \A id \in Nat : Stored(t, id) \subseteq Stored(r, id) \cup (IF id = t.active THEN {j} ELSE {})
    BY <1>6
  <2>2. \A id \in Nat : Stored(t, id) \subseteq Stored(s, id) \cup (IF id = t.active THEN {j} ELSE {})
    BY <1>2, <2>1
  <2> QED BY <1>1, <1>2, <1>4, <1>5, <2>2 DEF Grown
<1> QED BY <1>7 DEF t

LEMMA Narrower ==
  ASSUME NEW s, NEW t, StoreOK(s), StoreOK(t), Within(s, t), NEW S, NEW n \in Nat
  PROVE  /\ All(s, S) => All(t, S)
         /\ Below(s, n, S) => Below(t, n, S)
         /\ Parted(s, n, S) => Parted(t, n, S)
<1>1. All(s, S) => All(t, S) BY DEF Within, All
<1>2. Below(s, n, S) => Below(t, n, S) BY DEF Within, Below
<1>3. s.nextId \in Nat /\ t.nextId \in Nat BY DEF StoreOK
<1> QED BY <1>1, <1>2, <1>3 DEF Within, Parted

(* What the purge throws away lies before its boundary. *)
LEMMA UnreadBelow ==
  ASSUME Parts, NEW p \in Positions, p.offset = 0, NEW S, Below(store, p.segment, S)
  PROVE  Unread(p) \subseteq S
<1>0. Unread(p) = Between(store, order.consumed, p) BY UnreadIs
<1> SUFFICES ASSUME NEW j \in Between(store, order.consumed, p) PROVE j \in S
  BY <1>0
<1>1. PICK id \in Ids(store) : \E k \in 1 .. OnDisk(store, id) :
        j = store.files[id][k] /\ ~Before(p, Pos(id, k))
  BY DEF Between
<1>a. PICK k \in 1 .. OnDisk(store, id) : j = store.files[id][k] /\ ~Before(p, Pos(id, k)) BY <1>1
<1>2. StoreOK(store) /\ p.segment \in Nat BY DEF Parts, Positions
<1>3. id \in Nat /\ OnDisk(store, id) \in Nat /\ Length(store, id) \in Nat /\ OnDisk(store, id) <= Length(store, id)
  BY <1>2, IdsAreNat, Lengths
<1>4. id < p.segment BY <1>a, <1>2, <1>3 DEF Before, Pos
<1>5. k \in 1 .. Length(store, id) /\ j \in Jobs BY <1>3 DEF Between
<1>6. j \in Stored(store, id) BY <1>a, <1>5 DEF Stored
<1> QED BY <1>3, <1>4, <1>6 DEF Below

--------------------

(* The numbers among them. *)
LEMMA Stamps ==
  ASSUME Types
  PROVE  /\ generation \in Nat /\ mirror \in Int /\ begun \in Nat /\ boot \in Nat /\ captured \in Nat
         /\ \A j \in Jobs : /\ cap[j].gen \in Int /\ cap[j].begun \in Nat /\ cap[j].boot \in Nat
                            /\ cap[j].clean \in BOOLEAN
         /\ \A c \in Clears : threshold[c] \in Int /\ c \in Nat /\ c > 0
         /\ Jobs \subseteq Nat \ {0} /\ MaxJobs \in Nat
<1>1. MaxJobs \in Nat /\ Jobs \subseteq Nat \ {0} /\ \A c \in Clears : c \in Nat /\ c > 0
  BY QueueAssumption DEF Jobs, Clears
<1>2. generation \in Nat /\ mirror \in Int /\ begun \in Nat /\ boot \in Nat /\ captured \in Nat
  BY DEF Types, Unresolved
<1>3. ASSUME NEW c \in Clears PROVE threshold[c] \in Int
  <2>1. threshold[c] \in Nat \cup {Unresolved, NotRunning} BY DEF Types
  <2> QED BY <2>1 DEF Unresolved, NotRunning
<1>4. ASSUME NEW j \in Jobs
      PROVE  cap[j].gen \in Int /\ cap[j].begun \in Nat /\ cap[j].boot \in Nat /\ cap[j].clean \in BOOLEAN
  <2>1. cap[j] \in [gen : Nat \cup {Unresolved}, begun : Nat, clean : BOOLEAN, boot : Nat]
    BY DEF Types
  <2>2. Unresolved \in Int BY DEF Unresolved
  <2> QED BY <2>1, <2>2
<1> QED BY <1>1, <1>2, <1>3, <1>4

LEMMA SubmitStamps ==
  ASSUME Types, Submit
  PROVE  /\ captured + 1 \in Jobs /\ captured' = captured + 1
         /\ \A j \in Jobs : j # captured + 1 => cap'[j] = cap[j]
         /\ cap'[captured + 1].gen = mirror /\ cap'[captured + 1].begun = begun
         /\ cap'[captured + 1].clean = (Running = {}) /\ cap'[captured + 1].boot = boot
<1>1. captured + 1 \in Jobs BY Stamps DEF Submit, Jobs
<1>2. cap' = [cap EXCEPT ![captured + 1] = [gen |-> mirror, begun |-> begun,
                                            clean |-> Running = {}, boot |-> boot]]
      /\ captured' = captured + 1
  BY DEF Submit
<1>3. DOMAIN cap = Jobs BY DEF Types
<1> QED BY <1>1, <1>2, <1>3

LEMMA BeginsOne ==
  ASSUME Overlap = FALSE, Types, BeginClear
  PROVE  /\ begun + 1 \in Clears /\ begun' = begun + 1 /\ Running = {} /\ Running' = {begun + 1}
         /\ clear' = [clear EXCEPT ![begun + 1] = "begun"]
         /\ threshold' = [threshold EXCEPT ![begun + 1] = mirror]
<1>1. begun + 1 \in Clears BY Stamps, QueueAssumption DEF BeginClear, Clears
<1>2. Running = {} /\ clear' = [clear EXCEPT ![begun + 1] = "begun"] /\ begun' = begun + 1
      /\ threshold' = [threshold EXCEPT ![begun + 1] = mirror]
  BY DEF BeginClear
<1>3. DOMAIN clear = Clears BY DEF Types
<1>4. \A d \in Clears : d # begun + 1 => clear'[d] \notin {"begun", "committed"}
  BY <1>2, <1>3 DEF Running
<1>5. clear'[begun + 1] = "begun" BY <1>1, <1>2, <1>3
<1>6. Running' = {begun + 1} BY <1>1, <1>4, <1>5 DEF Running
<1> QED BY <1>1, <1>2, <1>6

--------------------
(* The clears, the generation and the stamps. *)
LEMMA ClearsKeepStill ==
  ASSUME Types, Clearing, Stamped, UNCHANGED <<generation, clear, begun, threshold, cap, boot>>,
         mirror' \in {mirror, generation}, purges' \in {purges, {}}
  PROVE  Clearing' /\ Stamped'
<1>1. Clearing' BY Stamps DEF Clearing, Running
<1>2. Stamped' BY DEF Stamped, Running, Earlier
<1> QED BY <1>1, <1>2

LEMMA ClearsSubmit ==
  ASSUME Types, Clearing, Stamped, Submit PROVE Clearing' /\ Stamped'
<1>1. UNCHANGED <<generation, mirror, clear, begun, threshold, purges, boot>> /\ Running' = Running
  BY DEF Submit, clearReqVars, clearVars, fixedVars, Running
<1>2. Clearing' BY <1>1 DEF Clearing
<1>3. /\ captured + 1 \in Jobs
      /\ \A j \in Jobs : j # captured + 1 => cap'[j] = cap[j]
      /\ cap'[captured + 1].gen = mirror /\ cap'[captured + 1].begun = begun
      /\ cap'[captured + 1].clean = (Running = {}) /\ cap'[captured + 1].boot = boot
  BY SubmitStamps
<1> DEFINE j0 == captured + 1
<1> HIDE DEF j0
<1>4. ASSUME NEW j \in Jobs PROVE cap'[j].gen <= generation /\ cap'[j].begun <= begun
  BY <1>3, Stamps DEF Clearing, Stamped
<1>5. ASSUME NEW c \in Clears, clear[c] \in {"committed", "done"}, NEW j \in Jobs, cap'[j].begun < c
      PROVE  cap'[j].gen < generation
  <2>1. c <= begun BY <1>5, Stamps DEF Clearing
  <2>2. j # captured + 1 BY <1>3, <1>5, <2>1, Stamps
  <2> QED BY <1>3, <1>5, <2>2 DEF Stamped, Earlier
<1>6. ASSUME Running # {}, NEW j \in Jobs
      PROVE  ~(cap'[j].clean /\ cap'[j].begun = begun /\ cap'[j].boot = boot)
  BY <1>3, <1>6 DEF Stamped
<1>7. Stamped' BY <1>1, <1>4, <1>5, <1>6 DEF Stamped, Earlier
<1> QED BY <1>2, <1>7

LEMMA ClearsBegin ==
  ASSUME Overlap = FALSE, Types, Clearing, Stamped, BeginClear
  PROVE  Clearing' /\ Stamped'
<1>1. /\ begun + 1 \in Clears /\ begun' = begun + 1 /\ Running = {} /\ Running' = {begun + 1}
      /\ clear' = [clear EXCEPT ![begun + 1] = "begun"]
      /\ threshold' = [threshold EXCEPT ![begun + 1] = mirror]
  BY BeginsOne
<1>2. UNCHANGED <<generation, mirror, purges, cap, boot>> BY DEF BeginClear, jobVars, fixedVars
<1>3. /\ \A d \in Clears : d # begun + 1 => clear'[d] = clear[d] /\ threshold'[d] = threshold[d]
      /\ clear'[begun + 1] = "begun" /\ threshold'[begun + 1] = mirror
      /\ clear[begun + 1] = "idle" /\ \A d \in Clears : threshold[d] = NotRunning
  BY <1>1, Stamps DEF Types, Clearing
<1>4. Clearing'
  <2>1. \A c \in Clears : c > begun' => clear'[c] = "idle" BY <1>1, <1>3, Stamps DEF Clearing
  <2>2. \A c \in purges : clear'[c] = "done" BY <1>3 DEF Clearing, Types
  <2>3. ASSUME NEW c \in Clears, threshold'[c] # NotRunning
        PROVE  c \in Running' /\ threshold'[c] <= generation /\ (clear'[c] = "committed" => threshold'[c] < generation)
    BY <1>1, <1>3, <2>3 DEF Clearing
  <2> QED BY <1>1, <1>2, <2>1, <2>2, <2>3 DEF Clearing
<1>5. Stamped'
  <2>1. \A j \in Jobs : cap[j].begun <= begun' /\ cap[j].begun # begun' BY <1>1, Stamps DEF Stamped
  <2>2. \A c \in Clears : clear'[c] \in {"committed", "done"} => clear[c] \in {"committed", "done"}
    BY <1>3
  <2> QED BY <1>2, <2>1, <2>2 DEF Stamped, Earlier
<1> QED BY <1>4, <1>5

LEMMA ClearsCommit ==
  ASSUME Types, Clearing, Stamped, NEW c \in Clears, CommitClear(c)
  PROVE  Clearing' /\ Stamped'
<1>1. /\ generation' = generation + 1 /\ UNCHANGED <<mirror, purges, begun, threshold, cap, boot>>
      /\ clear[c] = "begun" /\ clear'[c] = "committed" /\ \A d \in Clears : d # c => clear'[d] = clear[d]
  BY DEF CommitClear, Types, clearReqVars, jobVars, fixedVars
<1>2. Running' = Running BY <1>1 DEF Running
<1>3. Clearing' BY <1>1, <1>2, Stamps DEF Clearing, Types
<1>4. Stamped'
  <2>1. \A j \in Jobs : cap[j].gen < generation' BY <1>1, Stamps DEF Stamped
  <2> QED BY <1>1, <1>2, <2>1, Stamps DEF Stamped, Earlier
<1> QED BY <1>3, <1>4

(* A clear that ends, one way or the other. *)
LEMMA ClearsEnd ==
  ASSUME Types, Clearing, Stamped, NEW c \in Running, NEW how \in {"failed", "done"},
         clear' = [clear EXCEPT ![c] = how], threshold' = [threshold EXCEPT ![c] = NotRunning],
         UNCHANGED <<generation, begun, cap, boot>>, mirror' \in {mirror, generation},
         purges' = purges \/ (how = "done" /\ purges' = purges \cup {c}),
         how = "done" => clear[c] = "committed"
  PROVE  Clearing' /\ Stamped'
<1>1. /\ c \in Clears /\ clear'[c] = how /\ threshold'[c] = NotRunning
      /\ \A d \in Clears : d # c => clear'[d] = clear[d] /\ threshold'[d] = threshold[d]
      /\ purges \subseteq Clears
  BY DEF Types, Running
<1>2. Running' = Running \ {c} BY <1>1 DEF Running
<1>3. Clearing'
  <2>1. mirror' <= generation' BY Stamps DEF Clearing
  <2>2. \A d \in Clears : d > begun' => clear'[d] = "idle" BY <1>1, Stamps DEF Clearing, Running
  <2>3. \A d \in purges' : clear'[d] = "done" BY <1>1 DEF Clearing, Running
  <2>4. ASSUME NEW d \in Clears, threshold'[d] # NotRunning
        PROVE  d \in Running' /\ threshold'[d] <= generation' /\ (clear'[d] = "committed" => threshold'[d] < generation')
    BY <1>1, <1>2, <2>4 DEF Clearing
  <2> QED BY <1>2, <2>1, <2>2, <2>3, <2>4 DEF Clearing
<1>4. Stamped'
  <2>1. \A d \in Clears : clear'[d] \in {"committed", "done"} => clear[d] \in {"committed", "done"}
    BY <1>1
  <2> QED BY <1>2, <2>1 DEF Stamped, Earlier
<1> QED BY <1>3, <1>4

LEMMA ClearsRestart ==
  ASSUME Types, Clearing, Stamped, Restart PROVE Clearing' /\ Stamped'
<1>1. /\ UNCHANGED <<generation, begun, cap>> /\ mirror' \in {Unresolved, generation} /\ purges' = {}
      /\ \A c \in Clears : threshold'[c] = NotRunning
      /\ \A c \in Clears : clear'[c] = IF c \in Running THEN "aborted" ELSE clear[c]
  BY DEF Restart
<1>2. Running' = {} BY <1>1 DEF Running
<1>3. mirror' <= generation' BY <1>1, Stamps DEF Unresolved
<1>4. \A c \in Clears : c > begun => clear'[c] = "idle" BY <1>1 DEF Clearing, Running
<1>5. Clearing' BY <1>1, <1>2, <1>3, <1>4 DEF Clearing
<1>6. \A c \in Clears : clear'[c] \in {"committed", "done"} => clear[c] \in {"committed", "done"}
  BY <1>1
<1>7. Stamped' BY <1>1, <1>2, <1>6 DEF Stamped, Earlier
<1> QED BY <1>5, <1>7

(* The clear that ends is the only one, and what it raises the mirror to
   is not ahead of the database. *)
LEMMA AbandonsOne ==
  ASSUME Types, Clearing, NEW c \in Clears, AbandonClear(c)
  PROVE  /\ c \in Running /\ Running = {c} /\ held' = <<>> /\ handoff' = held \o handoff
         /\ clear' = [clear EXCEPT ![c] = "failed"] /\ threshold' = [threshold EXCEPT ![c] = NotRunning]
         /\ rolls' = rolls \ {c} /\ boundary' = [boundary EXCEPT ![c] = None]
         /\ UNCHANGED <<purges, generation, mirror, begun, captured, cap, boot, fate, store, spill>>
<1>1. c \in Running BY DEF AbandonClear, Running
<1>2. Running = {c} BY <1>1 DEF Clearing
<1>3. Running \ {c} = {} BY <1>2
<1> QED BY <1>1, <1>2, <1>3 DEF AbandonClear, Requeue, jobVars, fixedVars, spillVars

LEMMA FinishesOne ==
  ASSUME Types, Clearing, NEW c \in Clears, NEW read \in {generation, Unresolved}, FinishClear(c, read)
  PROVE  /\ c \in Running /\ Running = {c} /\ clear[c] = "committed" /\ held' = <<>>
         /\ ToSet(handoff') \subseteq ToSet(handoff)
         /\ clear' = [clear EXCEPT ![c] = "done"] /\ threshold' = [threshold EXCEPT ![c] = NotRunning]
         /\ mirror' \in {mirror, generation}
         /\ rolls' = rolls \ {c} /\ purges' \in {purges, purges \cup {c}}
         /\ UNCHANGED <<boundary, generation, begun, captured, cap, boot, store, spill>>
         /\ \A j \in Jobs : fate[j] = "pending" /\ fate'[j] = "discarded" =>
              j \in ToSet(held) \/ cap[j].gen < 0 \/ cap[j].gen < generation
<1> DEFINE raised == IF read > mirror THEN read ELSE mirror
           limit == IF read = Unresolved THEN raised ELSE read
           fresh == {j \in Jobs : Fresh(j, limit)}
           fromMemory == Among(memory, Jobs \ fresh)
           fromHandoff == Among(handoff, Jobs \ fresh)
           dropped == fromHandoff \o (IF Running = {c} THEN held ELSE <<>>)
<1>1. c \in Running /\ clear[c] = "committed" BY DEF FinishClear, Running
<1>2. Running = {c} BY <1>1 DEF Clearing
<1>3. raised \in {mirror, generation}
  <2>1. mirror \in Nat \cup {Unresolved} BY DEF Types
  <2> QED BY <2>1 DEF Unresolved
<1>4. limit \in Int /\ limit <= generation BY <1>3, Stamps DEF Clearing, Unresolved
<1>5. mirror' = raised /\ handoff' = Among(handoff, fresh)
      /\ fate' = Settle(ToSet(fromMemory) \cup ToSet(dropped), "discarded")
  BY DEF FinishClear
<1>6. /\ clear' = [clear EXCEPT ![c] = "done"] /\ threshold' = [threshold EXCEPT ![c] = NotRunning]
      /\ rolls' = rolls \ {c} /\ purges' \in {purges, purges \cup {c}}
      /\ held' = <<>>
      /\ UNCHANGED <<boundary, generation, begun, captured, cap, boot, store, spill>>
  BY <1>2 DEF FinishClear, spillVars, fixedVars
<1> HIDE DEF limit, raised
<1>7. memory \in Seq(Jobs) /\ handoff \in Seq(Jobs) /\ held \in Seq(Jobs) BY DEF Types
<1>8. /\ ToSet(handoff') \subseteq ToSet(handoff) /\ ToSet(fromMemory) \subseteq Jobs \ fresh
      /\ ToSet(fromHandoff) \subseteq Jobs \ fresh /\ fromHandoff \in Seq(Jobs)
  <2> HIDE DEF fresh
  <2> QED BY <1>5, <1>7, AmongWhich, AmongTyped
<1>9. ToSet(dropped) \subseteq ToSet(fromHandoff) \cup ToSet(held)
  <2> HIDE DEF fromHandoff
  <2>1. dropped = fromHandoff \o held BY <1>2
  <2> QED BY <1>7, <1>8, <2>1, ToSetConcat
<1>10. ASSUME NEW j \in Jobs, fate[j] = "pending", fate'[j] = "discarded"
       PROVE  j \in ToSet(held) \/ cap[j].gen < 0 \/ cap[j].gen < generation
  <2> HIDE DEF fromMemory, fromHandoff, dropped
  <2>1. j \in ToSet(fromMemory) \cup ToSet(dropped) BY <1>5, <1>10 DEF Settle
  <2>2. CASE j \notin fresh BY <1>4, <2>2, Stamps DEF Fresh
  <2>3. CASE j \in fresh BY <1>8, <1>9, <2>1, <2>3
  <2> QED BY <2>2, <2>3
<1> QED BY <1>1, <1>2, <1>3, <1>5, <1>6, <1>8, <1>10

LEMMA QuietIs == SpillStep \/ SpillOther \/ WriterStep \/ WriterOther => Quiet
<1>1. SpillRoll \/ SpillRollSettle \/ SpillRollRecord \/ SpillPurge \/ SpillPurgeDelete \/ SpillPurgeSkip => Quiet
  BY DEF Quiet, SpillRoll, SpillRollSettle, SpillRollRecord, SpillPurge, SpillPurgeDelete, SpillPurgeSkip,
         clearReqVars, clearVars, jobVars, fixedVars
<1>2. SpillRelease \/ SpillTake \/ SpillAppend \/ SpillFlush \/ SpillRetryDeletes \/ SpillUnblock \/ SpillSync => Quiet
  BY DEF Quiet, SpillRelease, SpillTake, SpillAppend, SpillFlush, SpillRetryDeletes, SpillUnblock, SpillSync,
         clearReqVars, clearVars, jobVars, fixedVars
<1>3. ASSUME NEW s, AppendFailed(s) PROVE Quiet
  BY <1>3 DEF Quiet, AppendFailed, clearReqVars, clearVars, jobVars, fixedVars
<1>4. SpillAppendError \/ SpillTooLarge => Quiet BY <1>3 DEF SpillAppendError, SpillTooLarge
<1>5. SpillFull \/ SpillPanic => Quiet
  BY DEF Quiet, SpillFull, SpillPanic, clearReqVars, clearVars, jobVars, fixedVars
<1>6. WriterTakeMemory \/ WriterStartRead \/ DiscardRead \/ WriterResume \/ RespawnWriter => Quiet
  BY DEF Quiet, WriterTakeMemory, WriterStartRead, DiscardRead, WriterResume, RespawnWriter,
         clearReqVars, clearVars, jobVars, fixedVars
<1>7. WriterTransaction \/ WriterDone \/ WriterRefresh \/ WriterPanic \/ WriterReadFails => Quiet
  BY DEF Quiet, WriterTransaction, WriterDone, WriterRefresh, WriterPanic, WriterReadFails,
         clearReqVars, clearVars, jobVars, fixedVars
<1>8. ASSUME NEW damaged, EndRead(damaged) PROVE Quiet
  BY <1>8 DEF Quiet, EndRead, clearReqVars, clearVars, jobVars, fixedVars
<1> QED BY <1>1, <1>2, <1>4, <1>5, <1>6, <1>7, <1>8 DEF SpillStep, SpillOther, WriterStep, WriterOther, WriterEndRead

LEMMA ClearsKeep ==
  ASSUME Overlap = FALSE, Types, Clearing, Stamped, [Next]_vars
  PROVE  Clearing' /\ Stamped'
<1>1. CASE SpillStep \/ SpillOther \/ WriterStep \/ WriterOther
  BY <1>1, QuietIs, ClearsKeepStill DEF Quiet
<1>2. CASE UNCHANGED vars
  BY <1>2, ClearsKeepStill DEF vars, clearReqVars, clearVars, jobVars, fixedVars
<1>3. CASE Submit \/ Restart BY <1>3, ClearsSubmit, ClearsRestart
<1>4. CASE BeginClear BY <1>4, ClearsBegin
<1>5. ASSUME NEW c \in Clears, CommitClear(c) PROVE Clearing' /\ Stamped' BY <1>5, ClearsCommit
<1>6. ASSUME NEW c \in Clears, AbandonClear(c) PROVE Clearing' /\ Stamped'
  BY <1>6, AbandonsOne, ClearsEnd
<1>7. ASSUME NEW c \in Clears, NEW read \in {generation, Unresolved}, FinishClear(c, read)
      PROVE  Clearing' /\ Stamped'
  BY <1>7, FinishesOne, ClearsEnd
<1> QED BY <1>1, <1>2, <1>3, <1>4, <1>5, <1>6, <1>7 DEF Next, ClearStep, EndClear

--------------------

LEMMA WriterStays == WriterStep \/ WriterOther => Stays /\ UNCHANGED <<store, spill>>
<1> DEFINE Goal == Stays /\ UNCHANGED <<store, spill>>
<1>1. WriterTakeMemory \/ WriterStartRead \/ DiscardRead \/ WriterResume \/ RespawnWriter => Goal
  BY DEF Stays, WriterTakeMemory, WriterStartRead, DiscardRead, WriterResume, RespawnWriter,
         queueVars, clearReqVars, clearVars, jobVars, fixedVars, spillVars
<1>2. WriterTransaction \/ WriterDone \/ WriterRefresh \/ WriterPanic \/ WriterReadFails => Goal
  BY DEF Stays, WriterTransaction, WriterDone, WriterRefresh, WriterPanic, WriterReadFails,
         queueVars, clearReqVars, clearVars, jobVars, fixedVars, spillVars
<1>3. ASSUME NEW damaged, EndRead(damaged) PROVE Goal
  BY <1>3 DEF Stays, EndRead, clearReqVars, clearVars, jobVars, fixedVars, spillVars
<1> QED BY <1>1, <1>2, <1>3 DEF WriterStep, WriterOther, WriterEndRead

LEMMA FailedIsPlain ==
  ASSUME NEW s, AppendFailed(s), Within(store, s)
  PROVE  Plain
<1>1. store' = s /\ spill' = IdleSpill BY DEF AppendFailed
<1> QED BY <1>1, IdleSpillTyped DEF AppendFailed, Plain, Stays, clearReqVars, clearVars, fixedVars

LEMMA PlainIs ==
  ASSUME Types, \/ SpillRelease \/ SpillFull \/ SpillAppendError \/ SpillTooLarge \/ SpillFlush
                \/ SpillSync \/ SpillRetryDeletes \/ SpillUnblock \/ SpillPanic
  PROVE  Plain
<1>1. StoreOK(store) /\ Within(store, store) /\ releaseUpto \in Positions /\ spill \in SpillStates
  BY WithinItself DEF Types, SpillTyped
<1>2. ASSUME NEW k \in MayKeep(store) PROVE Within(store, AbandonActive(store, k)) /\ Within(store, CloseActive(store, k))
  BY <1>1, WithinClosed
<1>3. CASE SpillRelease
  <2>1. \E failed : store' = ReleaseConsumed(store, releaseUpto, failed) BY <1>3 DEF SpillRelease
  <2>2. Within(store, store') BY <1>1, <2>1, WithinReleased
  <2> QED BY <1>3, <2>2 DEF SpillRelease, SpillIdle, Plain, Stays, queueVars, clearReqVars, clearVars, jobVars, fixedVars
<1>4. CASE SpillFull
  BY <1>1, <1>4 DEF SpillFull, Plain, Stays, clearReqVars, clearVars, jobVars, fixedVars, SpillStates
<1>5. CASE SpillAppendError
  <2>1. \E s : AppendFailed(s) /\ Within(store, s)
    <3>1. CASE \E kept \in MayKeep(store) :
                 AppendFailed(IF NeedsRoll(store) THEN CloseActive(store, kept) ELSE AbandonActive(store, kept))
      <4>1. PICK kept \in MayKeep(store) :
              AppendFailed(IF NeedsRoll(store) THEN CloseActive(store, kept) ELSE AbandonActive(store, kept))
        BY <3>1
      <4> DEFINE s == IF NeedsRoll(store) THEN CloseActive(store, kept) ELSE AbandonActive(store, kept)
      <4>2. Within(store, s) BY <1>2
      <4> HIDE DEF s
      <4>3. AppendFailed(s) BY <4>1 DEF s
      <4> QED BY <4>2, <4>3
    <3>2. CASE (store.active = NoSegment \/ NeedsRoll(store)) /\ AppendFailed(AbandonActive(ReadyToAppend(store), 0))
      BY <1>1, <3>2, WithinFailed
    <3> QED BY <1>5, <3>1, <3>2 DEF SpillAppendError
  <2> QED BY <2>1, FailedIsPlain
<1>6. CASE SpillTooLarge BY <1>1, <1>6, FailedIsPlain DEF SpillTooLarge
<1>7. CASE SpillFlush
  <2>1. Within(store, store') BY <1>1, <1>2, <1>7, WithinFlushed DEF SpillFlush
  <2> QED BY <1>7, <2>1, IdleSpillTyped DEF SpillFlush, Plain, Stays, clearReqVars, clearVars, fixedVars
<1>8. CASE SpillSync
  <2>1. Within(store, store') BY <1>1, <1>2, <1>8, WithinFlushed DEF SpillSync
  <2> QED BY <1>8, <2>1 DEF SpillSync, Plain, Stays, queueVars, clearReqVars, clearVars, jobVars, fixedVars
<1>9. CASE SpillRetryDeletes
  <2>1. store.deletes \in SUBSET Ids(store) BY <1>1 DEF StoreOK
  <2>2. Within(store, store') BY <1>1, <1>9, <2>1, WithinDeleted DEF SpillRetryDeletes
  <2> QED BY <1>9, <2>2 DEF SpillRetryDeletes, Plain, Stays, queueVars, clearReqVars, clearVars, jobVars, fixedVars
<1>10. CASE SpillUnblock
  BY <1>1, <1>10 DEF SpillUnblock, Plain, Stays, clearReqVars, clearVars, jobVars, fixedVars, spillVars
<1>11. CASE SpillPanic
  <2>1. Within(store, store') BY <1>1, <1>2, <1>11, KeepableIs DEF SpillPanic
  <2> QED BY <1>11, <2>1, IdleSpillTyped DEF SpillPanic, Plain, Stays, clearReqVars, clearVars, fixedVars
<1> QED BY <1>3, <1>4, <1>5, <1>6, <1>7, <1>8, <1>9, <1>10, <1>11

LEMMA HandKeepsStill ==
  ASSUME InHand, UNCHANGED <<threshold, cap, captured>>,
         ToSet(handoff') \cup ToSet(held') \cup ToSet(spill'.hand)
           \subseteq ToSet(handoff) \cup ToSet(held) \cup ToSet(spill.hand),
         ToSet(held') \subseteq ToSet(held)
  PROVE  InHand'
BY DEF InHand, Caught, MustHold

LEMMA HandSubmit ==
  ASSUME Types, InHand, Submit PROVE InHand'
<1>1. /\ captured + 1 \in Jobs /\ captured' = captured + 1
      /\ \A j \in Jobs : j # captured + 1 => cap'[j] = cap[j]
  BY SubmitStamps
<1>2. UNCHANGED <<held, spill, threshold>> BY DEF Submit, clearReqVars, spillVars
<1>3. Caught \subseteq Caught' /\ captured + 1 \in Caught' /\ captured + 1 \notin Caught
  BY <1>1, Stamps DEF Caught
<1>4. ToSet(handoff') \subseteq ToSet(handoff) \cup {captured + 1}
  <2>1. handoff' \in {handoff, Append(handoff, captured + 1)} BY DEF Submit
  <2>2. ToSet(Append(handoff, captured + 1)) = ToSet(handoff) \cup {captured + 1}
    BY <1>1, ToSetAppend DEF Types
  <2> QED BY <2>1, <2>2
<1>5. \A j \in ToSet(held) : MustHold(j)'
  <2> SUFFICES ASSUME NEW j \in ToSet(held) PROVE MustHold(j)' OBVIOUS
  <2>1. cap'[j] = cap[j] /\ MustHold(j) BY <1>1, <1>3 DEF InHand, Caught
  <2> QED BY <1>2, <2>1 DEF MustHold
<1> QED BY <1>2, <1>3, <1>4, <1>5 DEF InHand

LEMMA HandBegin ==
  ASSUME Overlap = FALSE, Types, Clearing, InHand, BeginClear
  PROVE  InHand'
<1>1. begun + 1 \in Clears /\ Running = {} /\ threshold' = [threshold EXCEPT ![begun + 1] = mirror]
  BY BeginsOne
<1>2. UNCHANGED <<handoff, held, spill, captured, cap>>
  BY DEF BeginClear, queueVars, spillVars, jobVars
<1>3. \A c \in Clears : threshold[c] = NotRunning BY <1>1 DEF Clearing
<1>4. held = <<>> \/ ToSet(held) = {} BY <1>3 DEF InHand, MustHold
<1> QED BY <1>2, <1>4, ToSetEmpty DEF InHand, Caught

LEMMA HandTake ==
  ASSUME Types, InHand, SpillTake PROVE InHand'
<1> DEFINE free == {i \in DOMAIN handoff : ~MustHold(handoff[i])}
           first == IF free = {} THEN Len(handoff) + 1 ELSE Min(free)
           front == SubSeq(handoff, 1, first - 1)
           rest == SubSeq(handoff, first + 1, Len(handoff))
<1>1. handoff \in Seq(Jobs) /\ held \in Seq(Jobs) /\ spill \in SpillStates /\ spill.hand = <<>>
  BY DEF Types, SpillTyped, SpillTake, SpillIdle
<1>2. DOMAIN handoff = 1 .. Len(handoff) /\ Len(handoff) \in Nat BY <1>1, LenProperties
<1>3. /\ held' = held \o front /\ handoff' = rest
      /\ spill' = IF free = {} THEN spill ELSE [spill EXCEPT !.pc = "job", !.hand = <<handoff[first]>>]
      /\ UNCHANGED <<threshold, cap, captured>>
  BY DEF SpillTake, clearReqVars, jobVars
<1>4. first - 1 \in 0 .. Len(handoff) /\ \A i \in 1 .. first - 1 : i \in DOMAIN handoff /\ i \notin free
  <2>1. CASE free = {} BY <1>2, <2>1
  <2>2. CASE free # {}
    <3>1. free \subseteq Nat BY <1>2
    <3>2. Min(free) \in free /\ \A i \in free : Min(free) <= i
      <4> HIDE DEF free
      <4> QED BY <2>2, <3>1, MinIs
    <3>3. Min(free) \in 1 .. Len(handoff) /\ first = Min(free) BY <1>2, <2>2, <3>2
    <3> HIDE DEF first
    <3>4. first - 1 \in 0 .. Len(handoff) BY <1>2, <3>3
    <3>5. ASSUME NEW i \in 1 .. first - 1 PROVE i \in DOMAIN handoff /\ i \notin free
      <4> HIDE DEF free
      <4> QED BY <1>2, <3>2, <3>3
    <3> QED BY <3>4, <3>5
  <2> QED BY <2>1, <2>2
<1>5. /\ front \in Seq(Jobs)
      /\ ToSet(front) \cup ToSet(rest) \cup ToSet(spill'.hand) \subseteq ToSet(handoff)
  <2>1. free \subseteq DOMAIN handoff OBVIOUS
  <2>2. /\ front \in Seq(Jobs)
        /\ free = {} => ToSet(handoff) = ToSet(front) \cup ToSet(rest)
        /\ free # {} => ToSet(handoff) = ToSet(front) \cup ToSet(<<handoff[first]>>) \cup ToSet(rest)
    <3> HIDE DEF free
    <3> QED BY <1>1, <2>1, TakeIs
  <2> HIDE DEF free, front, rest, first
  <2>3. free = {} => spill'.hand = <<>> BY <1>1, <1>3
  <2>4. free # {} => spill'.hand = <<handoff[first]>> BY <1>1, <1>3 DEF SpillStates
  <2> QED BY <2>2, <2>3, <2>4, ToSetEmpty
<1>6. ASSUME NEW j \in ToSet(front) PROVE MustHold(j)
  <2> DEFINE n == first - 1
  <2> HIDE DEF first, free
  <2>1. Len(front) = n /\ \A i \in 1 .. n : front[i] = handoff[i]
    <3>1. n \in 0 .. Len(handoff) BY <1>4
    <3> HIDE DEF n
    <3>2. front = SubSeq(handoff, 1, n) BY DEF n
    <3> QED BY <1>1, <3>1, <3>2, CutInTwo
  <2>2. PICK i \in 1 .. n : front[i] = j
    <3> HIDE DEF front
    <3> QED BY <1>5, <1>6, <2>1, InToSet
  <2>3. i \in DOMAIN handoff /\ i \notin free /\ handoff[i] = j BY <1>4, <2>1, <2>2
  <2> QED BY <2>3 DEF free
<1> HIDE DEF front, rest, free, first
<1>7. ToSet(held') = ToSet(held) \cup ToSet(front) BY <1>1, <1>3, <1>5, ToSetConcat
<1>8. \A j \in ToSet(held') : MustHold(j)' BY <1>3, <1>6, <1>7 DEF InHand, MustHold
<1> QED BY <1>3, <1>5, <1>7, <1>8 DEF InHand, Caught

LEMMA MovesIs ==
  ASSUME Types, \/ SpillRoll \/ SpillRollSettle \/ SpillRollRecord \/ SpillPurge
                \/ SpillPurgeDelete \/ SpillPurgeSkip \/ SpillAppend
  PROVE  Moves
<1>1. spill \in SpillStates BY DEF Types, SpillTyped
<1>2. CASE SpillRoll
  BY <1>1, <1>2 DEF SpillRoll, Moves, SpillStates, queueVars, clearVars, jobVars, fixedVars
<1>3. CASE SpillRollSettle
  BY <1>1, <1>3 DEF SpillRollSettle, Moves, SpillStates, clearReqVars, clearVars, fixedVars
<1>4. CASE SpillRollRecord
  BY <1>1, <1>4 DEF SpillRollRecord, Moves, SpillStates, queueVars, clearVars, jobVars, fixedVars
<1>5. CASE SpillPurge
  BY <1>1, <1>5 DEF SpillPurge, Moves, SpillStates, queueVars, clearVars, jobVars, fixedVars
<1>6. CASE SpillPurgeDelete
  BY <1>1, <1>6 DEF SpillPurgeDelete, Moves, SpillStates, queueVars, clearReqVars, clearVars, fixedVars
<1>7. CASE SpillPurgeSkip
  BY <1>1, <1>7 DEF SpillPurgeSkip, Moves, SpillStates, clearReqVars, clearVars, fixedVars
<1>8. CASE SpillAppend
  BY <1>1, <1>8 DEF SpillAppend, Moves, SpillStates, queueVars, clearReqVars, clearVars, jobVars, fixedVars
<1> QED BY <1>2, <1>3, <1>4, <1>5, <1>6, <1>7, <1>8

LEMMA HandKeeps ==
  ASSUME Overlap = FALSE, Types, Clearing, InHand, [Next]_vars
  PROVE  InHand'
<1>1. CASE Moves BY <1>1, HandKeepsStill, ToSetEmpty DEF Moves
<1>2. CASE Plain BY <1>2, HandKeepsStill, ToSetEmpty DEF Plain, Stays
<1>3. CASE Stays /\ UNCHANGED <<store, spill>> BY <1>3, HandKeepsStill DEF Stays
<1>4. CASE SpillTake BY <1>4, HandTake
<1>5. SpillStep \/ SpillOther => InHand'
  BY <1>1, <1>2, <1>4, MovesIs, PlainIs DEF SpillStep, SpillOther
<1>6. WriterStep \/ WriterOther => InHand' BY <1>3, WriterStays
<1>7. CASE UNCHANGED vars
  BY <1>7, HandKeepsStill DEF vars, queueVars, clearReqVars, jobVars, spillVars
<1>8. CASE Submit \/ BeginClear BY <1>8, HandSubmit, HandBegin
<1>9. CASE Restart BY <1>9, IdleSpillTyped, ToSetEmpty DEF Restart, InHand
<1>10. ASSUME NEW c \in Clears, CommitClear(c) PROVE InHand'
  BY <1>10, HandKeepsStill DEF CommitClear, queueVars, clearReqVars, jobVars, spillVars
<1>11. ASSUME NEW c \in Clears, AbandonClear(c) PROVE InHand'
  <2>1. /\ held' = <<>> /\ handoff' = held \o handoff
        /\ UNCHANGED <<captured, cap, spill>>
    BY <1>11, AbandonsOne
  <2>2. ToSet(handoff') = ToSet(held) \cup ToSet(handoff) BY <2>1, ToSetConcat DEF Types
  <2> QED BY <2>1, <2>2, ToSetEmpty DEF InHand, Caught
<1>12. ASSUME NEW c \in Clears, NEW read \in {generation, Unresolved}, FinishClear(c, read) PROVE InHand'
  <2>1. /\ held' = <<>> /\ ToSet(handoff') \subseteq ToSet(handoff)
        /\ UNCHANGED <<captured, cap, spill>>
    BY <1>12, FinishesOne
  <2> QED BY <2>1, ToSetEmpty DEF InHand, Caught
<1> QED BY <1>5, <1>6, <1>7, <1>8, <1>9, <1>10, <1>11, <1>12 DEF Next, ClearStep, EndClear

--------------------
(* The files.  Steps that lose records and keep the boundaries ... *)
LEMMA SegmentsAreNat ==
  ASSUME Types
  PROVE  /\ StoreOK(store) /\ store.nextId \in Nat /\ store.active \in Nat /\ spill.at.segment \in Nat
         /\ \A c \in Clears : boundary[c].segment \in Nat
<1>1. \A p \in Positions : p.segment \in Nat BY DEF Positions
<1>2. StoreOK(store) /\ spill.at \in Positions /\ \A c \in Clears : boundary[c] \in Positions
  BY DEF Types, SpillTyped, SpillStates
<1> QED BY <1>1, <1>2, IdsAreNat DEF StoreOK

LEMMA Shrinks ==
  ASSUME Types, Types', Filed, Within(store, store')
  PROVE  /\ All(store', Caught)
         /\ \A c \in rolls : All(store', Earlier(c))
         /\ \A c \in Clears : Parted(store', boundary[c].segment, Earlier(c))
         /\ spill.pc = "purging" => Below(store', spill.at.segment, Outdated)
<1>1. /\ StoreOK(store) /\ StoreOK(store') /\ spill.at.segment \in Nat
      /\ \A c \in Clears : boundary[c].segment \in Nat
  BY SegmentsAreNat DEF Types
<1>2. /\ All(store, Caught) /\ \A c \in rolls : All(store, Earlier(c))
      /\ \A c \in Clears : Parted(store, boundary[c].segment, Earlier(c))
      /\ spill.pc = "purging" => Below(store, spill.at.segment, Outdated)
  BY DEF Filed, Asked, Bounds, Purged
<1> QED BY <1>1, <1>2, Narrower

LEMMA FiledPlain ==
  ASSUME Types, Types', Filed, Plain PROVE Filed'
<1>1. /\ UNCHANGED <<rolls, boundary, captured>> /\ spill'.pc = "idle"
      /\ ToSet(spill'.hand) \subseteq ToSet(spill.hand)
      /\ Caught' = Caught /\ \A c : Earlier(c)' = Earlier(c)
  BY ToSetEmpty DEF Plain, Stays, Caught, Earlier
<1>2. /\ All(store', Caught) /\ \A c \in rolls : All(store', Earlier(c))
      /\ \A c \in Clears : Parted(store', boundary[c].segment, Earlier(c))
  BY Shrinks DEF Plain
<1> QED BY <1>1, <1>2 DEF Filed, Asked, Rolled, Bounds, Purged

(* ... steps that touch neither: another job is captured, a clear begins,
   commits or ends, the writer moves ... *)
LEMMA FiledStill ==
  ASSUME Types, Filed, UNCHANGED <<store, spill>>, captured <= captured', captured' \in Nat,
         \A j \in Caught : cap'[j] = cap[j],
         generation <= generation', generation' \in Nat, boot' = boot,
         begun' = begun \/ (begun < begun' /\ begun' \in Nat /\ \A j \in Jobs : cap[j].begun <= begun),
         \A c \in Clears : boundary'[c] \in {boundary[c], None},
         \A c \in rolls' : c \in rolls \/ Earlier(c)' = Jobs, InHand
  PROVE  Filed'
<1>1. /\ All(store, Caught) /\ StoreOK(store) /\ \A c \in Clears : boundary[c].segment \in Nat
      /\ spill.at.segment \in Nat /\ ToSet(spill.hand) \subseteq Caught /\ rolls \subseteq Clears
      /\ spill.seqs \subseteq Clears
  BY SegmentsAreNat DEF Filed, InHand, Types, SpillTyped, SpillStates
<1>2. Caught \subseteq Caught' /\ Caught \subseteq Jobs BY Stamps DEF Caught
<1>3. \A c : Earlier(c) \cap Caught \subseteq Earlier(c)' BY <1>2 DEF Earlier
<1>4. Outdated \cap Caught \subseteq Outdated'
  <2> SUFFICES ASSUME NEW j \in Outdated, j \in Caught PROVE j \in Outdated' OBVIOUS
  <2>1. j \in Jobs /\ cap'[j] = cap[j] BY <1>2
  <2>2. CASE cap[j].gen >= 0 BY <2>1, <2>2, Stamps DEF Outdated
  <2>3. CASE ~(cap[j].gen >= 0)
    <3>1. ~(cap[j].clean /\ cap[j].begun = begun' /\ cap[j].boot = boot)
      <4>1. CASE begun' = begun BY <2>3, <4>1 DEF Outdated
      <4>2. CASE begun < begun' /\ cap[j].begun <= begun BY <2>1, <4>2, Stamps
      <4> QED BY <2>1, <4>1, <4>2
    <3> QED BY <2>1, <2>3, <3>1 DEF Outdated
  <2> QED BY <2>2, <2>3
<1>5. All(store, Caught') BY <1>1, <1>2 DEF All
<1>6. Asked'
  <2> SUFFICES ASSUME NEW c \in rolls' PROVE All(store, Earlier(c)') /\ ToSet(spill.hand) \subseteq Earlier(c)'
    BY DEF Asked
  <2>1. CASE c \in rolls
    <3>1. All(store, Earlier(c)) /\ ToSet(spill.hand) \subseteq Earlier(c) BY <2>1 DEF Filed, Asked
    <3>2. ToSet(spill.hand) \subseteq Earlier(c)' BY <1>1, <1>3, <3>1
    <3>3. All(store, Earlier(c)') BY <1>1, <1>3, <3>1 DEF All
    <3> QED BY <3>2, <3>3
  <2>2. CASE Earlier(c)' = Jobs
    <3>1. All(store, Jobs) /\ ToSet(spill.hand) \subseteq Jobs BY <1>1, <1>2 DEF All, Stored
    <3> QED BY <2>2, <3>1
  <2> QED BY <2>1, <2>2
<1>7. Rolled'
  <2> SUFFICES ASSUME spill.pc \in {"rolled", "settled"}, NEW c \in spill.seqs PROVE All(store, Earlier(c)')
    BY DEF Filed, Rolled
  <2>1. All(store, Earlier(c)) BY DEF Filed, Rolled
  <2> QED BY <1>1, <1>3, <2>1 DEF All
<1>8. Bounds'
  <2> SUFFICES ASSUME NEW c \in Clears PROVE Parted(store, boundary'[c].segment, Earlier(c)')
    BY DEF Bounds
  <2>1. Parted(store, boundary[c].segment, Earlier(c)) BY DEF Filed, Bounds
  <2>2. CASE boundary'[c] = boundary[c] BY <1>1, <1>3, <2>1, <2>2 DEF Parted, Below, All
  <2>3. CASE boundary'[c] = None
    <3>1. boundary'[c].segment = 0 BY <2>3, NoneIs
    <3> QED BY <1>1, <3>1, SegmentsAreNat DEF Parted, Below
  <2> QED BY <2>2, <2>3
<1>9. Purged'
  <2> SUFFICES ASSUME spill.pc \in {"purging", "purged"} PROVE Below(store, spill.at.segment, Outdated')
    BY DEF Filed, Purged
  <2>1. Below(store, spill.at.segment, Outdated) BY DEF Filed, Purged
  <2> QED BY <1>1, <1>4, <2>1 DEF Below, All
<1> QED BY <1>5, <1>6, <1>7, <1>8, <1>9 DEF Filed

LEMMA FiledClears ==
  ASSUME Overlap = FALSE, Types, Clearing, Stamped, InHand, Filed, ClearStep
  PROVE  Filed'
<1>1. CASE BeginClear
  <2>1. begun' = begun + 1 /\ Running = {} BY <1>1, BeginsOne
  <2>2. /\ UNCHANGED <<store, spill, captured, cap, generation, boot, boundary>>
        /\ rolls' \subseteq rolls \cup {begun + 1}
    BY <1>1 DEF BeginClear, spillVars, jobVars, fixedVars
  <2>3. \A j \in Jobs : cap[j].begun <= begun /\ cap[j].begun < begun + 1 BY Stamps DEF Stamped
  <2>4. Earlier(begun + 1) = Jobs /\ \A c : Earlier(c)' = Earlier(c) BY <2>2, <2>3 DEF Earlier
  <2>5. \A c \in rolls' : c \in rolls \/ Earlier(c)' = Jobs BY <2>2, <2>4
  <2> QED BY <2>1, <2>2, <2>3, <2>5, Stamps, FiledStill
<1>2. ASSUME NEW c \in Clears, CommitClear(c) PROVE Filed'
  <2>1. /\ UNCHANGED <<store, spill, captured, cap, boot, begun, boundary, rolls>> /\ generation' = generation + 1
    BY <1>2 DEF CommitClear, spillVars, clearReqVars, jobVars, fixedVars
  <2> QED BY <2>1, Stamps, FiledStill
<1>3. ASSUME NEW c \in Clears, AbandonClear(c) PROVE Filed'
  <2>1. /\ UNCHANGED <<store, spill, captured, cap, boot, begun, generation>> /\ rolls' = rolls \ {c}
        /\ boundary' = [boundary EXCEPT ![c] = None]
    BY <1>3, AbandonsOne
  <2>2. \A d \in Clears : boundary'[d] \in {boundary[d], None} BY <2>1 DEF Types
  <2> QED BY <2>1, <2>2, Stamps, FiledStill
<1>4. ASSUME NEW c \in Clears, NEW read \in {generation, Unresolved}, FinishClear(c, read) PROVE Filed'
  <2>1. /\ UNCHANGED <<store, spill, captured, cap, boot, begun, generation, boundary>> /\ rolls' = rolls \ {c}
    BY <1>4, FinishesOne
  <2> QED BY <2>1, Stamps, FiledStill
<1> QED BY <1>1, <1>2, <1>3, <1>4 DEF ClearStep, EndClear

LEMMA FiledSubmit ==
  ASSUME Types, Filed, InHand, Submit PROVE Filed'
<1>1. /\ captured' = captured + 1 /\ \A j \in Jobs : j # captured + 1 => cap'[j] = cap[j]
  BY SubmitStamps
<1>2. UNCHANGED <<store, spill, generation, boot, begun, boundary, rolls>>
  BY DEF Submit, spillVars, clearReqVars, clearVars, fixedVars
<1>3. \A j \in Caught : cap'[j] = cap[j] BY <1>1, Stamps DEF Caught
<1> QED BY <1>1, <1>2, <1>3, Stamps, FiledStill

(* ... the roll, which makes a boundary of the end of the stream ... *)
LEMMA FiledRoll ==
  ASSUME Types, Types', Filed, SpillRoll PROVE Filed'
<1>1. PICK kept \in MayKeep(store) : store' = Roll(store, kept) BY KeepableIs DEF SpillRoll, Types
<1>2. Within(store, store') /\ store'.active = NoSegment BY <1>1, SegmentsAreNat, WithinClosed
<1>3. /\ UNCHANGED boundary /\ rolls' = {} /\ Caught' = Caught /\ \A c : Earlier(c)' = Earlier(c)
  BY DEF SpillRoll, clearVars, jobVars, fixedVars, Caught, Earlier
<1>4. spill'.pc = "rolled" /\ spill'.seqs = rolls /\ spill'.at = Pos(store'.nextId, 0)
  <2>1. spill \in SpillStates BY DEF Types, SpillTyped
  <2>2. spill' = [spill EXCEPT !.pc = "rolled", !.seqs = rolls, !.at = Pos(store'.nextId, 0)]
    BY DEF SpillRoll
  <2> QED BY <2>1, <2>2 DEF SpillStates
<1>5. /\ All(store', Caught) /\ \A c \in rolls : All(store', Earlier(c))
      /\ \A c \in Clears : Parted(store', boundary[c].segment, Earlier(c))
  BY <1>2, Shrinks
<1> QED BY <1>2, <1>3, <1>4, <1>5 DEF Filed, Asked, Rolled, Bounds, Purged

LEMMA FiledRollSettle ==
  ASSUME Types, Filed, SpillRollSettle PROVE Filed'
<1>1. spill' = [spill EXCEPT !.pc = "settled", !.unflushed = <<>>] /\ spill \in SpillStates /\ spill.pc = "rolled"
  BY DEF SpillRollSettle, Types, SpillTyped
<1>2. /\ UNCHANGED <<store, rolls, boundary, captured, cap, generation, begun, boot>>
      /\ spill'.pc = "settled" /\ spill'.at = spill.at /\ spill'.seqs = spill.seqs /\ spill'.hand = spill.hand
  BY <1>1 DEF SpillRollSettle, SpillStates, clearReqVars, clearVars, fixedVars
<1> QED BY <1>1, <1>2 DEF Filed, Caught, Asked, Rolled, Bounds, Purged, Earlier

LEMMA FiledRecord ==
  ASSUME Types, Filed, SpillRollRecord PROVE Filed'
<1>1. /\ spill' = [spill EXCEPT !.pc = "idle", !.seqs = {}, !.at = None] /\ spill \in SpillStates
      /\ spill.pc = "settled"
  BY DEF SpillRollRecord, Types, SpillTyped
<1>2. /\ UNCHANGED <<store, rolls, captured, cap, generation, begun, boot>>
      /\ spill'.pc = "idle" /\ spill'.hand = spill.hand
      /\ boundary' = [c \in Clears |-> IF c \in spill.seqs THEN spill.at ELSE boundary[c]]
      /\ Caught' = Caught /\ \A c : Earlier(c)' = Earlier(c)
  BY <1>1 DEF SpillRollRecord, SpillStates, clearVars, jobVars, fixedVars, Caught, Earlier
<1>3. Bounds'
  <2> SUFFICES ASSUME NEW c \in Clears PROVE Parted(store, boundary'[c].segment, Earlier(c))
    BY <1>2 DEF Bounds
  <2>1. CASE c \in spill.seqs
    <3>1. boundary'[c].segment = store.nextId
      BY <1>1, <1>2, <2>1, SegmentsAreNat, PosIs DEF Filed, Rolled
    <3>2. store.active = NoSegment /\ All(store, Earlier(c)) /\ store.nextId \in Nat
      BY <1>1, <2>1, SegmentsAreNat DEF Filed, Rolled
    <3> QED BY <3>1, <3>2 DEF Parted, Below, All
  <2>2. CASE c \notin spill.seqs BY <1>2, <2>2 DEF Filed, Bounds
  <2> QED BY <2>1, <2>2
<1> QED BY <1>2, <1>3 DEF Filed, Asked, Rolled, Purged

(* ... the purge: a clear that ended outdated what it had found ... *)
LEMMA EndedOutdates ==
  ASSUME Types, Clearing, Stamped, NEW c \in Clears, clear[c] = "done"
  PROVE  Earlier(c) \subseteq Outdated
<1>1. c <= begun BY Stamps DEF Clearing
<1> SUFFICES ASSUME NEW j \in Jobs, cap[j].begun < c PROVE j \in Outdated
  BY DEF Earlier
<1>2. cap[j].gen < generation BY DEF Stamped, Earlier
<1>3. cap[j].begun # begun BY <1>1, Stamps
<1> QED BY <1>2, <1>3 DEF Outdated

LEMMA FiledPurge ==
  ASSUME Types, Clearing, Stamped, Filed, SpillPurge PROVE Filed'
<1>1. /\ UNCHANGED <<store, rolls, captured, cap, generation, begun, boot>>
      /\ boundary' = [c \in Clears |-> IF c \in purges THEN None ELSE boundary[c]]
      /\ spill.pc = "idle" /\ spill \in SpillStates
      /\ Caught' = Caught /\ Outdated' = Outdated /\ \A c : Earlier(c)' = Earlier(c)
  BY DEF SpillPurge, SpillIdle, Types, SpillTyped, clearVars, jobVars, fixedVars, Caught, Earlier, Outdated
<1>2. Bounds'
  <2> SUFFICES ASSUME NEW c \in Clears PROVE Parted(store, boundary'[c].segment, Earlier(c))
    BY <1>1 DEF Bounds
  <2>1. CASE c \in purges
    <3>1. boundary'[c].segment = 0 BY <1>1, <2>1, NoneIs
    <3> QED BY <3>1, SegmentsAreNat DEF Parted, Below
  <2>2. CASE c \notin purges BY <1>1, <2>2 DEF Filed, Bounds
  <2> QED BY <2>1, <2>2
<1>3. CASE Recorded = {}
  <2>1. spill' = spill BY <1>3 DEF SpillPurge
  <2> QED BY <1>1, <1>2, <2>1 DEF Filed, Asked, Rolled, Purged
<1>4. CASE Recorded # {}
  <2> DEFINE top == Max({boundary[c].segment : c \in Recorded})
  <2>1. PICK c \in Recorded : top = boundary[c].segment /\ top \in Nat BY <1>4, RecordedIs DEF Types
  <2> HIDE DEF top
  <2>2. c \in Clears /\ clear[c] = "done" BY <2>1 DEF Recorded, Clearing, Types
  <2>3. Below(store, top, Outdated)
    <3>1. Below(store, top, Earlier(c)) BY <2>1, <2>2 DEF Filed, Bounds, Parted
    <3> QED BY <2>2, <3>1, EndedOutdates DEF Below
  <2>4. spill'.pc = "purging" /\ spill'.at = Pos(top, 0) /\ spill'.hand = spill.hand
    <3>1. spill' = [spill EXCEPT !.pc = "purging", !.at = Pos(top, 0)] BY <1>4 DEF SpillPurge, top
    <3> QED BY <1>1, <3>1 DEF SpillStates
  <2>5. Purged' BY <1>1, <2>1, <2>3, <2>4, PosIs DEF Purged
  <2> QED BY <1>1, <1>2, <2>4, <2>5 DEF Filed, Asked, Rolled
<1> QED BY <1>3, <1>4

LEMMA FiledDelete ==
  ASSUME Types, Types', Filed, SpillPurgeDelete PROVE Filed'
<1>1. /\ UNCHANGED <<rolls, boundary>>
      /\ spill' = [spill EXCEPT !.pc = "purged"] /\ spill.pc = "purging" /\ spill \in SpillStates
      /\ Caught' = Caught /\ Outdated' = Outdated /\ \A c : Earlier(c)' = Earlier(c)
  BY DEF SpillPurgeDelete, Types, SpillTyped, clearReqVars, clearVars, fixedVars, Caught, Earlier, Outdated
<1>2. spill'.pc = "purged" /\ spill'.at = spill.at /\ spill'.hand = spill.hand /\ spill.at \in Positions
  BY <1>1 DEF SpillStates
<1>3. Within(store, store')
  <2>1. StoreOK(store) /\ \E failed : store' = PurgeBefore(store, spill.at, failed)
    BY DEF SpillPurgeDelete, Types
  <2> QED BY <1>2, <2>1, WithinPurged
<1>4. /\ All(store', Caught) /\ \A c \in rolls : All(store', Earlier(c))
      /\ \A c \in Clears : Parted(store', boundary[c].segment, Earlier(c))
      /\ Below(store', spill.at.segment, Outdated)
  BY <1>1, <1>3, Shrinks
<1>5. Asked' BY <1>1, <1>2, <1>4 DEF Filed, Asked
<1>6. Purged' BY <1>1, <1>2, <1>4 DEF Filed, Purged
<1> QED BY <1>1, <1>2, <1>4, <1>5, <1>6 DEF Filed, Rolled, Bounds

LEMMA FiledSkip ==
  ASSUME Types, Filed, SpillPurgeSkip PROVE Filed'
<1>1. spill' = [spill EXCEPT !.pc = "idle", !.at = None] /\ spill \in SpillStates
  BY DEF SpillPurgeSkip, Types, SpillTyped
<1>2. /\ UNCHANGED <<store, rolls, boundary, captured, cap, generation, begun, boot>>
      /\ spill'.pc = "idle" /\ spill'.hand = spill.hand
  BY <1>1 DEF SpillPurgeSkip, SpillStates, clearReqVars, clearVars, fixedVars
<1> QED BY <1>2 DEF Filed, Caught, Asked, Rolled, Bounds, Purged, Earlier

(* ... and the job in hand, which goes behind every boundary. *)
LEMMA FiledTake ==
  ASSUME Types, Filed, SpillTake PROVE Filed'
<1>1. /\ UNCHANGED <<store, rolls, boundary, captured, cap, generation, begun, boot>> /\ rolls = {}
      /\ spill.pc = "idle" /\ spill \in SpillStates
  BY DEF SpillTake, SpillIdle, Types, SpillTyped, clearReqVars, clearVars, jobVars, fixedVars
<1>2. spill'.pc \in {"idle", "job"}
  <2>1. \/ spill' = spill
        \/ \E h : spill' = [spill EXCEPT !.pc = "job", !.hand = h]
    BY DEF SpillTake
  <2> QED BY <1>1, <2>1 DEF SpillStates
<1> QED BY <1>1, <1>2 DEF Filed, Caught, Asked, Rolled, Bounds, Purged, Earlier

LEMMA FiledAppend ==
  ASSUME Types, Types', InHand, Filed, SpillAppend PROVE Filed'
<1>1. PICK j \in Jobs : spill.hand = <<j>> BY DEF Types, SpillTyped, SpillAppend
<1>2. Grown(store, store', j) /\ ToSet(spill.hand) = {j}
  <2>1. spill.hand[1] = j /\ ToSet(<<j>>) = {j} BY <1>1, ToSetOne
  <2>2. StoreOK(store) /\ store' = AppendRecord(store, j) BY <2>1 DEF SpillAppend, Types
  <2> QED BY <1>1, <2>1, <2>2, GrownAppended
<1>3. /\ UNCHANGED <<rolls, boundary, captured, cap, generation, begun, boot>>
      /\ Caught' = Caught /\ \A c : Earlier(c)' = Earlier(c)
  BY DEF SpillAppend, clearReqVars, clearVars, jobVars, fixedVars, Caught, Earlier
<1>4. spill'.pc = "idle" /\ spill'.hand = <<>>
  <2>1. \E u : spill' = [spill EXCEPT !.pc = "idle", !.hand = <<>>, !.unflushed = u]
    BY DEF SpillAppend
  <2>2. spill \in SpillStates BY DEF Types, SpillTyped
  <2> QED BY <2>1, <2>2 DEF SpillStates
<1>5. /\ store.nextId \in Nat /\ store.active \in Nat /\ store'.nextId \in Nat
      /\ \A c \in Clears : boundary[c].segment \in Nat
  BY SegmentsAreNat DEF Types, StoreOK
<1>6. All(store', Caught) BY <1>2 DEF Filed, InHand, All, Grown
<1>7. Asked'
  <2> SUFFICES ASSUME NEW c \in rolls PROVE All(store', Earlier(c))
    BY <1>3, <1>4, ToSetEmpty DEF Asked
  <2> QED BY <1>2 DEF Filed, Asked, All, Grown
<1>8. Bounds'
  <2> SUFFICES ASSUME NEW c \in Clears PROVE Parted(store', boundary[c].segment, Earlier(c))
    BY <1>3 DEF Bounds
  <2> DEFINE n == boundary[c].segment
  <2>1. Below(store, n, Earlier(c)) /\ n <= store.nextId /\ (store.active # NoSegment => n <= store.active)
    BY DEF Filed, Bounds, Parted
  <2>2. n \in Nat BY <1>5
  <2> HIDE DEF n
  <2>3. n <= store'.active /\ store'.active \in Nat /\ n <= store'.nextId
    BY <1>2, <1>5, <2>1, <2>2 DEF Grown
  <2>4. ASSUME NEW id \in Nat, id < n PROVE Stored(store', id) \subseteq Stored(store, id)
    BY <1>2, <2>2, <2>3, <2>4 DEF Grown
  <2>5. Below(store', n, Earlier(c)) BY <2>1, <2>4 DEF Below
  <2> QED BY <2>3, <2>5 DEF Parted, n
<1> QED BY <1>3, <1>4, <1>6, <1>7, <1>8 DEF Filed, Rolled, Purged

LEMMA FiledRestart ==
  ASSUME Types, Filed, Restart PROVE Filed'
<1>1. PICK kept \in 0 .. Length(store, store.active) : store' = OpenStore(Found(kept))
  BY DEF Restart, Found
<1>2. /\ StoreOK(store) /\ StoreOK(store') /\ store'.files = Found(kept) /\ Ids(store') = Ids(store)
      /\ Found(kept) \in [Ids(store) -> Seq(Jobs)]
  <2>1. StoreOK(store) BY DEF Types
  <2>2. /\ Found(kept) \in [Ids(store) -> Seq(Jobs)] /\ Ids(store) \subseteq 1 .. store.nextId - 1
        /\ store.nextId - 1 \in Nat
    BY <2>1, FoundIs
  <2> DEFINE D == Ids(store)
  <2> HIDE DEF D
  <2>3. /\ StoreOK(OpenStore(Found(kept))) /\ Ids(OpenStore(Found(kept))) = D
        /\ OpenStore(Found(kept)).files = Found(kept)
    BY <2>2, OpenStoreFinds, OpenStoreIs DEF D
  <2> QED BY <1>1, <2>1, <2>2, <2>3 DEF D
<1>3. ASSUME NEW id \in Ids(store), NEW k \in 1 .. Length(store', id)
      PROVE  k \in 1 .. Length(store, id) /\ Found(kept)[id][k] = store.files[id][k]
  <2>1. Length(store', id) = Len(Found(kept)[id]) BY <1>2 DEF Length
  <2>2. CASE store.active # NoSegment /\ id = store.active
    <3>1. /\ Len(Found(kept)[id]) = kept
          /\ \A i \in 1 .. kept : Found(kept)[id][i] = store.files[id][i]
      BY <1>2, <2>2, TruncatedIs DEF Found
    <3>2. Length(store, id) \in Nat /\ kept \in 0 .. Length(store, id) BY <1>2, <2>2, Lengths
    <3> QED BY <2>1, <3>1, <3>2
  <2>3. CASE ~(store.active # NoSegment /\ id = store.active)
    <3>1. Found(kept)[id] = store.files[id] BY <1>2, <2>3, TruncatedIs DEF Found
    <3> QED BY <2>1, <3>1 DEF Length
  <2> QED BY <2>2, <2>3
<1>4. \A id \in Nat : Stored(store', id) \subseteq Stored(store, id) BY <1>2, <1>3 DEF Stored
<1>5. /\ UNCHANGED <<captured, cap>> /\ rolls' = {} /\ \A c \in Clears : boundary'[c] = None
      /\ spill' = IdleSpill
  BY DEF Restart
<1>6. All(store, Caught)' /\ Asked' BY <1>4, <1>5 DEF Filed, All, Caught, Asked
<1>7. Bounds'
  <2> SUFFICES ASSUME NEW c \in Clears PROVE Parted(store', boundary'[c].segment, Earlier(c)')
    BY DEF Bounds
  <2>1. boundary'[c].segment = 0 BY <1>5, NoneIs
  <2>2. store'.nextId \in Nat /\ store'.active \in Nat BY <1>2, IdsAreNat DEF StoreOK
  <2> QED BY <2>1, <2>2 DEF Parted, Below
<1>8. Rolled' /\ Purged' BY <1>5, IdleSpillTyped DEF Rolled, Purged
<1> QED BY <1>6, <1>7, <1>8 DEF Filed

LEMMA FiledKeeps ==
  ASSUME Overlap = FALSE, Types, Types', Clearing, Stamped, InHand, Filed, [Next]_vars
  PROVE  Filed'
<1>1. CASE SpillStep \/ SpillOther
  BY <1>1, PlainIs, FiledPlain, FiledRoll, FiledRollSettle, FiledRecord, FiledPurge, FiledDelete, FiledSkip,
     FiledTake, FiledAppend DEF SpillStep, SpillOther
<1>2. CASE Stays /\ UNCHANGED <<store, spill>> BY <1>2, Stamps, FiledStill DEF Stays
<1>3. CASE WriterStep \/ WriterOther BY <1>2, <1>3, WriterStays
<1>4. CASE UNCHANGED vars
  BY <1>2, <1>4 DEF vars, Stays, queueVars, clearReqVars, clearVars, jobVars, spillVars, fixedVars
<1>5. CASE Submit \/ ClearStep \/ Restart BY <1>5, FiledSubmit, FiledClears, FiledRestart
<1> QED BY <1>1, <1>3, <1>4, <1>5 DEF Next

--------------------
(* So the clears discard only what the database would reject. *)
LEMMA ClearInit ==
  ASSUME Init PROVE ClearInv
<1>1. Types BY InitTyped
<1>2. Running = {} /\ purges = {} /\ \A c \in Clears : threshold[c] = NotRunning BY DEF Init, Running
<1>3. Clearing BY <1>2 DEF Init, Clearing, Unresolved
<1>4. Stamped BY <1>2 DEF Init, Stamped, Unresolved
<1>5. InHand BY IdleSpillTyped, ToSetEmpty DEF Init, InHand
<1>6. Ids(store) = {}
  <2>1. <<>> \in [{} -> Seq(Jobs)] /\ {} \subseteq 1 .. 0 /\ 0 \in Nat BY SMT
  <2> QED BY <2>1, OpenStoreFinds DEF Init
<1>7. Filed
  <2>1. \A id : Stored(store, id) = {} BY <1>6 DEF Stored
  <2>2. All(store, Caught) /\ Asked BY <2>1 DEF Init, All, Asked
  <2>3. Bounds
    <3>1. \A c \in Clears : boundary[c].segment = 0 BY NoneIs DEF Init
    <3> QED BY <1>1, <2>1, <3>1, SegmentsAreNat DEF Bounds, Parted, Below
  <2>4. Rolled /\ Purged BY IdleSpillTyped DEF Init, Rolled, Purged
  <2> QED BY <2>2, <2>3, <2>4 DEF Filed
<1> QED BY <1>1, <1>3, <1>4, <1>5, <1>7 DEF ClearInv

LEMMA ClearInvStep == Overlap = FALSE /\ ClearInv /\ [Next]_vars => ClearInv'
BY TypesStep, ClearsKeep, HandKeeps, FiledKeeps DEF ClearInv

LEMMA OnlyClearsDiscard ==
  ASSUME Types, NEW j \in Jobs, [Next]_vars, Discarded(j)
  PROVE  \/ SpillPurgeDelete \/ SpillPurgeSkip
         \/ \E c \in Clears : \E read \in {generation, Unresolved} : FinishClear(c, read)
<1>1. \A S, outcome : outcome # "discarded" => fate' # Settle(S, outcome) BY DEF Settle, Discarded
<1>2. fate' # fate BY DEF Discarded
<1>3. ~(Submit \/ BeginClear \/ Restart \/ UNCHANGED vars)
  <2>1. ~Submit
    <3> SUFFICES ASSUME Submit PROVE FALSE OBVIOUS
    <3>1. captured + 1 \in Jobs BY SubmitStamps
    <3>2. \E x \in {"dropped", "pending"} : fate' = [fate EXCEPT ![captured + 1] = x] BY DEF Submit
    <3> QED BY <3>1, <3>2 DEF Types, Discarded
  <2>2. ~BeginClear /\ ~UNCHANGED vars BY <1>2 DEF BeginClear, vars, jobVars
  <2>3. ~Restart BY <1>1 DEF Restart
  <2> QED BY <2>1, <2>2, <2>3
<1>4. \A c \in Clears : ~CommitClear(c) /\ ~AbandonClear(c)
  BY <1>2 DEF CommitClear, AbandonClear, jobVars
<1>5. /\ ~SpillRoll /\ ~SpillRollSettle /\ ~SpillRollRecord /\ ~SpillPurge /\ ~SpillRelease /\ ~SpillTake
      /\ ~SpillAppend /\ ~SpillFlush /\ ~SpillRetryDeletes /\ ~SpillUnblock
  BY <1>1, <1>2 DEF SpillRoll, SpillRollSettle, SpillRollRecord, SpillPurge, SpillRelease, SpillTake, SpillAppend,
     SpillFlush, SpillRetryDeletes, SpillUnblock, jobVars
<1>6. \A s : ~AppendFailed(s) BY <1>1 DEF AppendFailed
<1>7. ~SpillFull /\ ~SpillAppendError /\ ~SpillTooLarge /\ ~SpillSync /\ ~SpillPanic
  BY <1>1, <1>2, <1>6 DEF SpillFull, SpillAppendError, SpillTooLarge, SpillSync, SpillPanic, jobVars
<1>8. /\ ~WriterTakeMemory /\ ~WriterStartRead /\ ~DiscardRead /\ ~WriterResume /\ ~WriterDone /\ ~RespawnWriter
      /\ ~WriterRefresh /\ ~WriterReadFails /\ ~WriterPanic
  <2>1. /\ ~WriterTakeMemory /\ ~WriterStartRead /\ ~DiscardRead /\ ~WriterResume /\ ~WriterDone /\ ~RespawnWriter
        /\ ~WriterRefresh
    BY <1>2 DEF WriterTakeMemory, WriterStartRead, DiscardRead, WriterResume, WriterDone, RespawnWriter,
       WriterRefresh, jobVars
  <2>2. ~WriterReadFails BY <1>1, <1>2 DEF WriterReadFails
  <2>3. ~WriterPanic
    <3> SUFFICES ASSUME WriterPanic PROVE FALSE OBVIOUS
    <3>1. \E S : \E outcome \in {"dropped", "lost"} : fate' = Settle(S, outcome) BY DEF WriterPanic
    <3> QED BY <1>1, <3>1
  <2> QED BY <2>1, <2>2, <2>3
<1>9. \A damaged : ~EndRead(damaged) BY <1>1 DEF EndRead
<1>10. ~WriterTransaction
  <2> SUFFICES ASSUME WriterTransaction PROVE FALSE OBVIOUS
  <2>1. PICK n \in 1 .. Len(writer.batch) :
          LET done == ToSet(SubSeq(writer.batch, 1, n)) IN
          \E failed \in IF "db" \in Faults THEN {{}, done} ELSE {{}} :
            fate' = [i \in Jobs |->
                       IF i \notin done THEN fate[i]
                       ELSE IF i \in failed THEN Settle({i}, "dropped")[i]
                       ELSE IF Accepted(i) THEN "written"
                       ELSE Settle({i}, "stale")[i]]
    BY DEF WriterTransaction
  <2> DEFINE done == ToSet(SubSeq(writer.batch, 1, n))
  <2>2. PICK failed :
          fate' = [i \in Jobs |->
                     IF i \notin done THEN fate[i]
                     ELSE IF i \in failed THEN Settle({i}, "dropped")[i]
                     ELSE IF Accepted(i) THEN "written"
                     ELSE Settle({i}, "stale")[i]]
    BY <2>1
  <2> HIDE DEF done
  <2> QED BY <2>2 DEF Settle, Discarded
<1> QED BY <1>3, <1>4, <1>5, <1>7, <1>8, <1>9, <1>10
     DEF Next, ClearStep, EndClear, SpillStep, SpillOther, WriterStep, WriterOther, WriterEndRead

LEMMA OutdatedRejected == ASSUME Types, NEW j \in Outdated PROVE ~Accepted(j)
BY Stamps DEF Outdated, Accepted

LEMMA DiscardsStep ==
  ASSUME ClearInv, [Next]_vars, NEW j \in Jobs, Discarded(j)
  PROVE  ~Accepted(j)
<1>1. Types /\ Clearing /\ Stamped /\ InHand /\ Purged /\ Parts BY PartsTyped DEF ClearInv, Filed
<1>2. CASE SpillPurgeDelete \/ SpillPurgeSkip
  <2>1. spill.pc \in {"purging", "purged"} /\ fate' = Settle(Skipped(spill.at), "discarded")
    BY <1>2 DEF SpillPurgeDelete, SpillPurgeSkip
  <2>2. j \in Unread(spill.at) BY <2>1 DEF Discarded, Settle, Skipped
  <2>3. Unread(spill.at) \subseteq Outdated
    <3>1. spill.at \in Positions /\ spill.at.offset = 0 /\ Below(store, spill.at.segment, Outdated)
      BY <1>1, <2>1 DEF Parts, Purged
    <3> QED BY <1>1, <3>1, UnreadBelow
  <2> QED BY <1>1, <2>2, <2>3, OutdatedRejected
<1>3. ASSUME NEW c \in Clears, NEW read \in {generation, Unresolved}, FinishClear(c, read)
      PROVE  ~Accepted(j)
  <2>1. /\ Running = {c} /\ clear[c] = "committed"
        /\ j \in ToSet(held) \/ cap[j].gen < 0 \/ cap[j].gen < generation
    BY <1>1, <1>3, FinishesOne DEF Discarded
  <2>2. ~(cap[j].clean /\ cap[j].begun = begun /\ cap[j].boot = boot) BY <1>1, <2>1 DEF Stamped
  <2>3. j \in ToSet(held) => cap[j].gen < generation
    <3> SUFFICES ASSUME j \in ToSet(held) PROVE cap[j].gen < generation OBVIOUS
    <3>1. PICK d \in Clears : threshold[d] # NotRunning /\ cap[j].gen <= threshold[d]
      BY <1>1 DEF InHand, MustHold
    <3>2. d = c /\ threshold[d] < generation BY <1>1, <2>1, <3>1 DEF Clearing
    <3> QED BY <1>1, <3>1, <3>2, Stamps
  <2> QED BY <1>1, <2>1, <2>2, <2>3, Stamps DEF Accepted
<1> QED BY <1>1, <1>2, <1>3, OnlyClearsDiscard

(* As long as clears do not overlap, and whatever fails: a clear discards,
   from the memory queue, from the hand-off queue, from what was held back
   and from the segments it deletes or passes over, only what the database
   would reject. *)
THEOREM OnlyStaleDiscarded ==
  ASSUME Overlap = FALSE
  PROVE  Spec => DiscardsOnlyStale
<1>1. Init => ClearInv BY ClearInit
<1>2. ClearInv /\ [Next]_vars => ClearInv' BY ClearInvStep
<1>3. ClearInv /\ [Next]_vars =>
        [\A j \in Jobs : fate[j] = "pending" /\ fate'[j] = "discarded" => ~Accepted(j)]_vars
  BY DiscardsStep DEF Discarded
<1> QED BY <1>1, <1>2, <1>3, PTL DEF Spec, DiscardsOnlyStale
=============================================================================

