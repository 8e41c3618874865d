-------------------------- MODULE AccessChainProofs --------------------------
(***************************************************************************)
(* Proofs about the accesses of SPIR-V generation (AccessChain), for every *)
(* type, every selector and any number of dereferences.                    *)
(*                                                                         *)
(* A chain denotes a selection: the address it has so far, with what is    *)
(* pending, names the places GLSL selects.  Pushing a dereference goes on  *)
(* to the selection GLSL means; what a load and a store do depends on the  *)
(* selection only.  So it is enough that each chain in use denotes what is *)
(* meant (ChainInv).                                                       *)
(***************************************************************************)
EXTENDS AccessChain, SequenceTheorems, FiniteSetTheorems, WellFoundedInduction, TLAPS

-----------------------------------------------------------------------------
(* Places and paths.                                                         *)

\* A type, and what is left of it below n indices.
Type(T) == T \in Seq(Nat \ {0}) /\ (T # <<>> => T[Len(T)] > 1)
Rest(T, n) == SubSeq(T, n + 1, Len(T))
\* A path from the root of a type.
Starts(v, T) == v \in Seq(Nat) /\ Len(v) <= Len(T) /\ \A k \in 1 .. Len(v) : v[k] < T[k]

(* A place is a path all the way down.                                       *)
LEMMA PlaceIs ==
  ASSUME NEW T \in Seq(Nat), NEW p
  PROVE  p \in Places(T) <=> p \in Seq(Nat) /\ Len(p) = Len(T) /\ \A k \in 1 .. Len(T) : p[k] < T[k]
<1> DEFINE U == UNION {0 .. T[k] - 1 : k \in 1 .. Len(T)}
<1>1. ASSUME p \in Places(T)
      PROVE  p \in Seq(Nat) /\ Len(p) = Len(T) /\ \A k \in 1 .. Len(T) : p[k] < T[k]
  <2>1. p \in [1 .. Len(T) -> U] /\ \A k \in 1 .. Len(T) : p[k] < T[k]
    BY <1>1 DEF Places
  <2>2. U \subseteq Nat
    OBVIOUS
  <2>3. p \in [1 .. Len(T) -> Nat]
    BY <2>1, <2>2
  <2> QED BY <2>1, <2>3
<1>2. ASSUME p \in Seq(Nat), Len(p) = Len(T), \A k \in 1 .. Len(T) : p[k] < T[k]
      PROVE  p \in Places(T)
  <2>1. \A k \in 1 .. Len(T) : p[k] \in 0 .. T[k] - 1
    BY <1>2
  <2>2. \A k \in 1 .. Len(T) : p[k] \in U
    BY <2>1
  <2>3. p \in [1 .. Len(T) -> U]
    <3> HIDE DEF U
    <3> QED BY <1>2, <2>2
  <2> QED BY <1>2, <2>3 DEF Places
<1> QED BY <1>1, <1>2

LEMMA RestIs ==
  ASSUME NEW T \in Seq(Nat), NEW n \in Nat, n <= Len(T)
  PROVE  /\ Rest(T, n) \in Seq(Nat) /\ Len(Rest(T, n)) = Len(T) - n
         /\ \A k \in 1 .. Len(T) - n : Rest(T, n)[k] = T[n + k]
BY SubSeqProperties DEF Rest

(* A path and a place of what is left join to a place.                       *)
LEMMA Join ==
  ASSUME NEW T \in Seq(Nat), NEW v, Starts(v, T), NEW p \in Places(Rest(T, Len(v)))
  PROVE  /\ v \o p \in Places(T) /\ IsPrefix(v, v \o p)
         /\ SubSeq(v \o p, Len(v) + 1, Len(v \o p)) = p
<1> DEFINE n == Len(v)
           R == Rest(T, n)
<1>1. v \in Seq(Nat) /\ n \in Nat /\ n <= Len(T) /\ \A k \in 1 .. n : v[k] < T[k]
  BY DEF Starts
<1>2. /\ R \in Seq(Nat) /\ Len(R) = Len(T) - n
      /\ \A k \in 1 .. Len(T) - n : R[k] = T[n + k]
  BY <1>1, RestIs
<1>3. p \in Seq(Nat) /\ Len(p) = Len(T) - n /\ \A k \in 1 .. Len(T) - n : p[k] < R[k]
  BY <1>2, PlaceIs
<1> HIDE DEF R
<1> DEFINE q == v \o p
<1>4. /\ q \in Seq(Nat) /\ Len(q) = Len(T)
      /\ \A k \in 1 .. n : q[k] = v[k]
      /\ \A k \in 1 .. Len(T) - n : q[n + k] = p[k]
  BY <1>1, <1>3
<1> HIDE DEF q
<1>5. \A k \in 1 .. Len(T) : q[k] < T[k]
  <2> TAKE k \in 1 .. Len(T)
  <2>1. CASE k <= n
    BY <2>1, <1>1, <1>4
  <2>2. CASE k > n
    <3>1. k - n \in 1 .. Len(T) - n /\ k = n + (k - n)
      BY <1>1, <2>2
    <3> QED BY <1>2, <1>3, <1>4, <3>1
  <2> QED BY <2>1, <2>2, <1>1
<1>6. q \in Places(T)
  BY <1>4, <1>5, PlaceIs
<1>7. SubSeq(v, 1, n) = SubSeq(q, 1, n)
  BY <1>1, <1>4, SubSeqProperties
<1>8. SubSeq(q, n + 1, Len(q)) = p
  BY <1>1, <1>3, <1>4, SubSeqProperties
<1> QED BY <1>1, <1>4, <1>6, <1>7, <1>8 DEF IsPrefix, q

(* A place that a path is a prefix of is joined so.                          *)
LEMMA Split ==
  ASSUME NEW T \in Seq(Nat), NEW v, Starts(v, T), NEW q \in Places(T), IsPrefix(v, q)
  PROVE  /\ SubSeq(q, Len(v) + 1, Len(q)) \in Places(Rest(T, Len(v)))
         /\ v \o SubSeq(q, Len(v) + 1, Len(q)) = q
<1> DEFINE n == Len(v)
           R == Rest(T, n)
           p == SubSeq(q, n + 1, Len(q))
<1>1. v \in Seq(Nat) /\ n \in Nat /\ n <= Len(T) /\ \A k \in 1 .. n : v[k] < T[k]
  BY DEF Starts
<1>2. /\ R \in Seq(Nat) /\ Len(R) = Len(T) - n
      /\ \A k \in 1 .. Len(T) - n : R[k] = T[n + k]
  BY <1>1, RestIs
<1>3. q \in Seq(Nat) /\ Len(q) = Len(T) /\ \A k \in 1 .. Len(T) : q[k] < T[k]
  BY PlaceIs
<1>4. /\ p \in Seq(Nat) /\ Len(p) = Len(T) - n
      /\ \A k \in 1 .. Len(T) - n : p[k] = q[n + k]
  <2>1. n + 1 \in Int /\ Len(q) \in Int /\ \A k \in n + 1 .. Len(q) : q[k] \in Nat
    BY <1>1, <1>3
  <2>2. /\ p \in Seq(Nat) /\ Len(p) = IF n + 1 <= Len(q) THEN Len(q) - (n + 1) + 1 ELSE 0
        /\ \A k \in 1 .. Len(q) - (n + 1) + 1 : p[k] = q[n + 1 + k - 1]
    BY <2>1, SubSeqProperties
  <2>3. \A k \in 1 .. Len(T) - n : k \in 1 .. Len(q) - (n + 1) + 1 /\ n + k = n + 1 + k - 1
    BY <1>1, <1>3
  <2> HIDE DEF p
  <2> QED BY <1>1, <1>3, <2>2, <2>3
<1>5. \A k \in 1 .. n : v[k] = q[k]
  <2>1. SubSeq(v, 1, n) = SubSeq(q, 1, n)
    BY DEF IsPrefix
  <2>2. \A k \in 1 .. n : SubSeq(v, 1, n)[k] = v[k] /\ SubSeq(q, 1, n)[k] = q[k]
    BY <1>1, <1>3, SubSeqProperties
  <2> QED BY <2>1, <2>2
<1> HIDE DEF R, p
<1>6. \A k \in 1 .. Len(T) - n : p[k] < R[k]
  <2> TAKE k \in 1 .. Len(T) - n
  <2>1. n + k \in 1 .. Len(T)
    BY <1>1
  <2> QED BY <1>2, <1>3, <1>4, <2>1
<1>7. p \in Places(R)
  BY <1>2, <1>4, <1>6, PlaceIs
<1>8. v \o p = q
  <2>1. v \o p \in Seq(Nat) /\ Len(v \o p) = Len(T)
    BY <1>1, <1>4
  <2>2. \A k \in 1 .. Len(T) : (v \o p)[k] = q[k]
    <3> TAKE k \in 1 .. Len(T)
    <3>1. CASE k <= n
      BY <1>1, <1>4, <1>5, <3>1
    <3>2. CASE k > n
      <4>1. k - n \in 1 .. Len(T) - n /\ k = n + (k - n)
        BY <1>1, <3>2
      <4> QED BY <1>1, <1>4, <4>1
    <3>3. k <= n \/ k > n
      BY <1>1
    <3> QED BY <3>1, <3>2, <3>3
  <2> QED BY <2>1, <2>2, <1>3, SeqEqual
<1> QED BY <1>7, <1>8 DEF p, R

(* What lies below a path.                                                   *)
Below(value, v, V) == [p \in Places(V) |-> value[v \o p]]
LEMMA AtIs ==
  ASSUME NEW T \in Seq(Nat), NEW v, Starts(v, T), NEW value, DOMAIN value = Places(T)
  PROVE  At(value, v) = Below(value, v, Rest(T, Len(v)))
<1> DEFINE D == {SubSeq(q, Len(v) + 1, Len(q)) : q \in {r \in DOMAIN value : IsPrefix(v, r)}}
           E == Places(Rest(T, Len(v)))
<1>1. D \subseteq E
  BY Split
<1>2. ASSUME NEW p \in Places(Rest(T, Len(v)))
      PROVE  p \in D
  <2>1. v \o p \in Places(T) /\ IsPrefix(v, v \o p) /\ SubSeq(v \o p, Len(v) + 1, Len(v \o p)) = p
    BY Join
  <2> QED BY <2>1
<1>3. D = E
  BY <1>1, <1>2
<1> QED BY <1>3 DEF At, Below

LEMMA MoreThanOne == \A k \in Nat : k > 1 => k # 1 /\ k # 0
OBVIOUS

LEMMA Longer ==
  ASSUME NEW v \in Seq(Nat), NEW i \in Nat
  PROVE  /\ v \o <<i>> \in Seq(Nat) /\ Len(v \o <<i>>) = Len(v) + 1
         /\ (v \o <<i>>)[Len(v) + 1] = i
         /\ \A k \in 1 .. Len(v) : (v \o <<i>>)[k] = v[k]
OBVIOUS

LEMMA Regroup ==
  ASSUME NEW v \in Seq(Nat), NEW i \in Nat, NEW p \in Seq(Nat)
  PROVE  (v \o <<i>>) \o p = v \o (<<i>> \o p)
<1>1. <<i>> \in Seq(Nat)
  OBVIOUS
<1> QED BY <1>1, ConcatAssociative

(* The places of a scalar and of a vector.                                   *)
LEMMA PlacesOfScalar == Places(<<>>) = {<<>>}
<1>1. <<>> \in Seq(Nat) /\ Len(<<>>) = 0
  OBVIOUS
<1>2. \A p : p \in Places(<<>>) <=> p = <<>>
  <2> TAKE p
  <2>1. p \in Places(<<>>) <=> p \in Seq(Nat) /\ Len(p) = 0
    <3>1. p \in Places(<<>>) <=> p \in Seq(Nat) /\ Len(p) = Len(<<>>)
                                 /\ \A k \in 1 .. Len(<<>>) : p[k] < <<>>[k]
      BY <1>1, PlaceIs
    <3> QED BY <3>1, <1>1
  <2>2. p \in Seq(Nat) => (Len(p) = 0 <=> p = <<>>)
    BY EmptySeq
  <2> QED BY <1>1, <2>1, <2>2
<1> QED BY <1>2

LEMMA PlacesOfVector ==
  ASSUME NEW n \in Nat
  PROVE  /\ \A p \in Places(<<n>>) : p[1] \in Nat /\ p[1] < n /\ p = <<p[1]>>
         /\ \A i \in Nat : i < n => <<i>> \in Places(<<n>>)
<1>1. <<n>> \in Seq(Nat) /\ Len(<<n>>) = 1 /\ <<n>>[1] = n
  OBVIOUS
<1>2. ASSUME NEW p \in Places(<<n>>)
      PROVE  p[1] \in Nat /\ p[1] < n /\ p = <<p[1]>>
  <2>1. p \in Seq(Nat) /\ Len(p) = Len(<<n>>) /\ \A k \in 1 .. Len(<<n>>) : p[k] < <<n>>[k]
    BY <1>1, PlaceIs
  <2>2. p \in Seq(Nat) /\ Len(p) = 1 /\ p[1] < n
    BY <1>1, <2>1
  <2> QED BY <2>2
<1>3. ASSUME NEW i \in Nat, i < n
      PROVE  <<i>> \in Places(<<n>>)
  <2>1. <<i>> \in Seq(Nat) /\ Len(<<i>>) = 1 /\ <<i>>[1] = i
    OBVIOUS
  <2>2. \A k \in 1 .. Len(<<n>>) : <<i>>[k] < <<n>>[k]
    BY <1>1, <1>3, <2>1
  <2> QED BY <1>1, <2>1, <2>2, PlaceIs
<1> QED BY <1>2, <1>3

-----------------------------------------------------------------------------
(* What a path selects, and what components of a vector do.                  *)

Under(v, V) == [type |-> V, at |-> [p \in Places(V) |-> v \o p]]
ComponentsOf(v, w) ==
  [type |-> <<Len(w)>>, at |-> [p \in Places(<<Len(w)>>) |-> v \o <<w[p[1] + 1]>>]]

(* An index makes the path longer and the type shorter.                      *)
LEMMA Deeper ==
  ASSUME NEW T \in Seq(Nat), NEW v, Starts(v, T), Len(v) < Len(T),
         NEW i \in Nat, i < Rest(T, Len(v))[1]
  PROVE  /\ Starts(v \o <<i>>, T) /\ Len(v \o <<i>>) = Len(v) + 1
         /\ Rest(T, Len(v) + 1) = Tail(Rest(T, Len(v)))
         /\ SelectIndex(Under(v, Rest(T, Len(v))), i) = Under(v \o <<i>>, Tail(Rest(T, Len(v))))
<1> DEFINE n == Len(v)
           V == Rest(T, n)
<1>1. v \in Seq(Nat) /\ n \in Nat /\ n < Len(T) /\ \A k \in 1 .. n : v[k] < T[k]
  BY DEF Starts
<1>2. V \in Seq(Nat) /\ Len(V) = Len(T) - n /\ \A k \in 1 .. Len(T) - n : V[k] = T[n + k]
  <2>1. n <= Len(T)
    BY <1>1
  <2> HIDE DEF n
  <2> QED BY <1>1, <2>1, RestIs
<1>3. /\ Rest(T, n + 1) \in Seq(Nat) /\ Len(Rest(T, n + 1)) = Len(T) - (n + 1)
      /\ \A k \in 1 .. Len(T) - (n + 1) : Rest(T, n + 1)[k] = T[n + 1 + k]
  <2>1. n + 1 \in Nat /\ n + 1 <= Len(T)
    BY <1>1
  <2> QED BY <2>1, RestIs
<1>4. i < T[n + 1]
  <2>1. 1 \in 1 .. Len(T) - n
    BY <1>1
  <2> QED BY <1>2, <2>1
<1>5. /\ v \o <<i>> \in Seq(Nat) /\ Len(v \o <<i>>) = n + 1 /\ (v \o <<i>>)[n + 1] = i
      /\ \A k \in 1 .. n : (v \o <<i>>)[k] = v[k]
  BY <1>1
<1>6. Starts(v \o <<i>>, T)
  <2>1. ASSUME NEW k \in 1 .. n + 1
        PROVE  (v \o <<i>>)[k] < T[k]
    <3>1. k \in 1 .. n \/ k = n + 1
      BY <1>1
    <3> QED BY <1>1, <1>4, <1>5, <3>1
  <2>2. n + 1 <= Len(T)
    BY <1>1
  <2> DEFINE x == v \o <<i>>
  <2> HIDE DEF x, n
  <2> QED BY <1>5, <2>1, <2>2 DEF Starts, x
<1> HIDE DEF V
<1>7. Rest(T, n + 1) = Tail(V)
  <2>1. Tail(V) \in Seq(Nat) /\ Len(Tail(V)) = Len(V) - 1
        /\ \A k \in 1 .. Len(V) - 1 : Tail(V)[k] = V[k + 1]
    BY <1>1, <1>2
  <2>2. \A k \in 1 .. Len(V) - 1 : Tail(V)[k] = Rest(T, n + 1)[k]
    <3> TAKE k \in 1 .. Len(V) - 1
    <3>1. k \in 1 .. Len(T) - (n + 1) /\ k + 1 \in 1 .. Len(T) - n /\ n + (k + 1) = n + 1 + k
      BY <1>1, <1>2
    <3>2. Tail(V)[k] = V[k + 1] /\ V[k + 1] = T[n + (k + 1)] /\ Rest(T, n + 1)[k] = T[n + 1 + k]
      BY <1>2, <1>3, <2>1, <3>1
    <3> QED BY <3>1, <3>2
  <2>3. Len(Tail(V)) = Len(Rest(T, n + 1))
    BY <1>1, <1>2, <1>3, <2>1
  <2> HIDE DEF n
  <2> QED BY <1>2, <1>3, <2>1, <2>2, <2>3, SeqEqual
<1>8. SelectIndex(Under(v, V), i) = Under(v \o <<i>>, Tail(V))
  <2>1. V \in Seq(Nat) /\ Len(V) \in Nat \ {0}
    BY <1>1, <1>2
  <2>2. Starts(<<i>>, V) /\ Len(<<i>>) = 1
    <3>1. <<i>> \in Seq(Nat) /\ Len(<<i>>) = 1 /\ <<i>>[1] = i
      OBVIOUS
    <3>2. i < V[1]
      BY DEF V
    <3> QED BY <2>1, <3>1, <3>2 DEF Starts
  <2>3. Rest(V, 1) = Tail(V)
    <3>1. Rest(V, 1) = SubSeq(V, 2, Len(V))
      BY DEF Rest
    <3>2. V # <<>>
      BY <2>1
    <3> QED BY <2>1, <3>1, <3>2, TailIsSubSeq
  <2> DEFINE at == [p \in Places(V) |-> v \o p]
  <2>4. At(at, <<i>>) = [p \in Places(Tail(V)) |-> at[<<i>> \o p]]
    <3>1. DOMAIN at = Places(V)
      OBVIOUS
    <3> DEFINE y == <<i>>
    <3>2. Starts(y, V) /\ Rest(V, Len(y)) = Tail(V)
      BY <2>2, <2>3
    <3> HIDE DEF at, y
    <3>3. At(at, y) = Below(at, y, Rest(V, Len(y)))
      BY <2>1, <3>1, <3>2, AtIs
    <3> QED BY <3>2, <3>3 DEF y, Below
  <2>5. ASSUME NEW p \in Places(Tail(V))
        PROVE  at[<<i>> \o p] = (v \o <<i>>) \o p
    <3>1. <<i>> \o p \in Places(V)
      BY <2>1, <2>2, <2>3, Join
    <3>2. p \in Seq(Nat)
      <4>1. Tail(V) \in Seq(Nat)
        BY <2>1
      <4> QED BY <4>1, PlaceIs
    <3>3. <<i>> \in Seq(Nat)
      OBVIOUS
    <3>4. v \o (<<i>> \o p) = (v \o <<i>>) \o p
      BY <1>1, <3>2, Regroup
    <3> QED BY <3>1, <3>4
  <2>6. At(at, <<i>>) = [p \in Places(Tail(V)) |-> (v \o <<i>>) \o p]
    BY <2>4, <2>5
  <2> QED BY <2>6 DEF SelectIndex, Under
<1> QED BY <1>5, <1>6, <1>7, <1>8 DEF V

(* A component of chosen components, and components of them.                 *)
LEMMA ChosenComponent ==
  ASSUME NEW v \in Seq(Nat), NEW w \in Seq(Nat), NEW i \in Nat, i < Len(w)
  PROVE  SelectIndex(ComponentsOf(v, w), i) = Under(v \o <<w[i + 1]>>, <<>>)
<1> DEFINE m == Len(w)
           at == [p \in Places(<<m>>) |-> v \o <<w[p[1] + 1]>>]
           x == v \o <<w[i + 1]>>
<1>1. m \in Nat /\ w[i + 1] \in Nat
  OBVIOUS
<1>2. <<m>> \in Seq(Nat) /\ <<i>> \in Seq(Nat) /\ <<i>> \in Places(<<m>>) /\ Starts(<<i>>, <<m>>)
      /\ Tail(<<m>>) = <<>> /\ Rest(<<m>>, 1) = <<>>
  <2>1. <<i>> \in Places(<<m>>)
    BY <1>1, PlacesOfVector
  <2>2. Rest(<<m>>, 1) = <<>>
    BY <1>1, SubSeqEmpty DEF Rest
  <2> QED BY <1>1, <2>1, <2>2 DEF Starts
<1>3. At(at, <<i>>) = [p \in Places(<<>>) |-> at[<<i>> \o p]]
  <2>1. Len(<<i>>) = 1
    OBVIOUS
  <2>2. DOMAIN at = Places(<<m>>)
    OBVIOUS
  <2> DEFINE y == <<i>>
  <2>3. <<m>> \in Seq(Nat) /\ Starts(y, <<m>>) /\ Rest(<<m>>, Len(y)) = <<>>
    BY <1>2, <2>1
  <2> HIDE DEF m, at, y
  <2>4. At(at, y) = Below(at, y, Rest(<<m>>, Len(y)))
    BY <2>2, <2>3, AtIs
  <2> QED BY <2>3, <2>4 DEF y, Below
<1>4. ASSUME NEW p \in Places(<<>>)
      PROVE  at[<<i>> \o p] = x \o p
  <2>1. p = <<>>
    BY PlacesOfScalar
  <2>2. <<i>> \o <<>> = <<i>> /\ x \o <<>> = x
    BY <1>1
  <2>3. at[<<i>>] = x
    BY <1>2
  <2> QED BY <2>1, <2>2, <2>3
<1>5. At(at, <<i>>) = [p \in Places(<<>>) |-> x \o p]
  BY <1>3, <1>4
<1> QED BY <1>2, <1>5 DEF SelectIndex, ComponentsOf, Under

LEMMA ChosenComponents ==
  ASSUME NEW v \in Seq(Nat), NEW w \in Seq(Nat), w # <<>>,
         NEW s \in Seq(Nat), \A i \in 1 .. Len(s) : s[i] < Len(w)
  PROVE  /\ SelectComponents(ComponentsOf(v, w), s) = ComponentsOf(v, Stacked(w, s))
         /\ Stacked(w, s) \in Seq(Nat) /\ Len(Stacked(w, s)) = Len(s)
         /\ \A i \in 1 .. Len(s) : Stacked(w, s)[i] = w[s[i] + 1]
<1> DEFINE z == [i \in 1 .. Len(s) |-> w[s[i] + 1]]
           at == [p \in Places(<<Len(w)>>) |-> v \o <<w[p[1] + 1]>>]
<1>1. Stacked(w, s) = z
  BY DEF Stacked
<1>2. z \in Seq(Nat) /\ Len(z) = Len(s) /\ Len(s) \in Nat
  <2>1. \A i \in 1 .. Len(s) : w[s[i] + 1] \in Nat
    OBVIOUS
  <2> QED BY <2>1
<1>3. ASSUME NEW p \in Places(<<Len(s)>>)
      PROVE  at[<<s[p[1] + 1]>>] = v \o <<z[p[1] + 1]>>
  <2>1. p[1] \in Nat /\ p[1] < Len(s)
    BY <1>2, PlacesOfVector
  <2>2. p[1] + 1 \in 1 .. Len(s)
    BY <1>2, <2>1
  <2> DEFINE j == s[p[1] + 1]
  <2>3. j \in Nat /\ j < Len(w)
    BY <2>2
  <2>4. <<j>> \in Places(<<Len(w)>>)
    <3>1. Len(w) \in Nat
      OBVIOUS
    <3> HIDE DEF j
    <3> QED BY <2>3, <3>1, PlacesOfVector
  <2>5. z[p[1] + 1] = w[j + 1]
    BY <2>2
  <2>6. at[<<j>>] = v \o <<w[j + 1]>>
    BY <2>4
  <2> HIDE DEF z, at
  <2> QED BY <2>5, <2>6
<1>6. \A i \in 1 .. Len(s) : z[i] = w[s[i] + 1]
  OBVIOUS
<1> HIDE DEF z, at
<1>4. [p \in Places(<<Len(s)>>) |-> at[<<s[p[1] + 1]>>]] = [p \in Places(<<Len(s)>>) |-> v \o <<z[p[1] + 1]>>]
  BY <1>3
<1>5. SelectComponents(ComponentsOf(v, w), s)
        = [type |-> <<Len(s)>>, at |-> [p \in Places(<<Len(s)>>) |-> at[<<s[p[1] + 1]>>]]]
  BY DEF SelectComponents, ComponentsOf, at
<1> QED BY <1>1, <1>2, <1>4, <1>5, <1>6 DEF ComponentsOf

(* Components of a vector, and all of them in order.                         *)
LEMMA VectorComponents ==
  ASSUME NEW v \in Seq(Nat), NEW n \in Nat,
         NEW s \in Seq(Nat), \A i \in 1 .. Len(s) : s[i] < n
  PROVE  /\ SelectComponents(Under(v, <<n>>), s) = ComponentsOf(v, s)
         /\ Len(s) = n /\ (\A i \in 1 .. Len(s) : s[i] = i - 1) => ComponentsOf(v, s) = Under(v, <<n>>)
<1> DEFINE at == [p \in Places(<<n>>) |-> v \o p]
<1>0. Len(s) \in Nat
  OBVIOUS
<1>1. ASSUME NEW p \in Places(<<Len(s)>>)
      PROVE  /\ at[<<s[p[1] + 1]>>] = v \o <<s[p[1] + 1]>>
             /\ Len(s) = n /\ (\A i \in 1 .. Len(s) : s[i] = i - 1) => v \o <<s[p[1] + 1]>> = v \o p
  <2>1. p[1] \in Nat /\ p[1] < Len(s) /\ p = <<p[1]>>
    BY <1>0, PlacesOfVector
  <2>2. p[1] + 1 \in 1 .. Len(s)
    BY <1>0, <2>1
  <2> DEFINE j == s[p[1] + 1]
  <2>3. j \in Nat /\ j < n
    BY <2>2
  <2>4. <<j>> \in Places(<<n>>)
    BY <2>3, PlacesOfVector
  <2>5. ASSUME \A i \in 1 .. Len(s) : s[i] = i - 1
        PROVE  j = p[1]
    BY <2>1, <2>2, <2>5
  <2> HIDE DEF j
  <2>6. at[<<j>>] = v \o <<j>>
    BY <2>4
  <2>7. (\A i \in 1 .. Len(s) : s[i] = i - 1) => v \o <<j>> = v \o p
    BY <2>1, <2>5
  <2> HIDE DEF at
  <2> QED BY <2>6, <2>7 DEF j
<1>2. SelectComponents(Under(v, <<n>>), s)
        = [type |-> <<Len(s)>>, at |-> [p \in Places(<<Len(s)>>) |-> at[<<s[p[1] + 1]>>]]]
  BY DEF SelectComponents, Under
<1>3. [p \in Places(<<Len(s)>>) |-> at[<<s[p[1] + 1]>>]] = [p \in Places(<<Len(s)>>) |-> v \o <<s[p[1] + 1]>>]
  BY <1>1
<1>4. ASSUME Len(s) = n, \A i \in 1 .. Len(s) : s[i] = i - 1
      PROVE  ComponentsOf(v, s) = Under(v, <<n>>)
  <2>1. [p \in Places(<<Len(s)>>) |-> v \o <<s[p[1] + 1]>>] = [p \in Places(<<n>>) |-> v \o p]
    BY <1>1, <1>4
  <2> QED BY <1>4, <2>1 DEF ComponentsOf, Under
<1> QED BY <1>2, <1>3, <1>4 DEF ComponentsOf


-----------------------------------------------------------------------------
(* What a chain selects.                                                     *)

Entry == [constant : BOOLEAN, value : Nat]
Path(ic) == [i \in DOMAIN ic |-> ic[i].value]
Left(c, T) == Rest(T, Len(c.indexChain))
Chain(c) ==
  c = [base |-> c.base, indexChain |-> c.indexChain, instr |-> c.instr, swizzle |-> c.swizzle,
       component |-> c.component, preSwizzleBaseType |-> c.preSwizzleBaseType, isRValue |-> c.isRValue]

\* Its address ends above the vector, and what is pending chooses from it.
OnVector(c, T) ==
  /\ Len(Left(c, T)) = 1 /\ c.swizzle \in Seq(Nat)
  /\ \A i \in 1 .. Len(c.swizzle) : c.swizzle[i] < Left(c, T)[1]
Plain(c, T, S) ==
  /\ c.swizzle = <<>> /\ c.component = NoComponent
  /\ S = Under(Path(c.indexChain), Left(c, T))
One(c, T, S) ==
  /\ OnVector(c, T) /\ Len(c.swizzle) = 1 /\ c.component = NoComponent
  /\ S = Under(Path(c.indexChain) \o <<c.swizzle[1]>>, <<>>)
Many(c, T, S) ==
  /\ OnVector(c, T) /\ Len(c.swizzle) > 1 /\ c.component = NoComponent
  /\ S = ComponentsOf(Path(c.indexChain), c.swizzle)
Indexed(c, T, S) ==
  /\ OnVector(c, T) /\ c.swizzle = <<>>
  /\ \E i \in Nat : /\ i < Left(c, T)[1] /\ c.component = Dynamic(i)
                    /\ S = Under(Path(c.indexChain) \o <<i>>, <<>>)
ManyIndexed(c, T, S) ==
  /\ OnVector(c, T) /\ Len(c.swizzle) > 1
  /\ \E i \in Nat : /\ i < Len(c.swizzle) /\ c.component = Dynamic(i)
                    /\ S = Under(Path(c.indexChain) \o <<c.swizzle[i + 1]>>, <<>>)

Leads(c, T) == Chain(c) /\ c.indexChain \in Seq(Entry) /\ Starts(Path(c.indexChain), T)
Denotes(c, T, S) ==
  /\ Leads(c, T)
  /\ Plain(c, T, S) \/ One(c, T, S) \/ Many(c, T, S) \/ Indexed(c, T, S) \/ ManyIndexed(c, T, S)
\* Nothing was emitted for it, and it knows the vector it chooses from.
Fresh(c, T) ==
  /\ c.instr = NoInstr
  /\ c.preSwizzleBaseType =
       IF c.swizzle = <<>> /\ c.component = NoComponent THEN NoType ELSE Left(c, T)

LEMMA PathIs ==
  ASSUME NEW ic \in Seq(Entry)
  PROVE  /\ Path(ic) \in Seq(Nat) /\ Len(Path(ic)) = Len(ic) /\ Len(ic) \in Nat
         /\ Path(<<>>) = <<>>
         /\ \A i \in 1 .. Len(ic) : Path(ic)[i] = ic[i].value
<1>1. \A i \in 1 .. Len(ic) : ic[i].value \in Nat
  <2> TAKE i \in 1 .. Len(ic)
  <2>1. ic[i] \in Entry
    BY ElementOfSeq
  <2> QED BY <2>1 DEF Entry
<1> QED BY <1>1 DEF Path

LEMMA PathPushed ==
  ASSUME NEW ic \in Seq(Entry), NEW x \in Entry
  PROVE  /\ Append(ic, x) \in Seq(Entry) /\ Len(Append(ic, x)) = Len(ic) + 1
         /\ Path(Append(ic, x)) = Path(ic) \o <<x.value>>
         /\ Front(Append(ic, x)) = ic
<1> DEFINE n == Len(ic)
           d == Append(ic, x)
           v == Path(ic)
           u == v \o <<x.value>>
<1>1. /\ n \in Nat /\ d \in Seq(Entry) /\ Len(d) = n + 1 /\ d[n + 1] = x
      /\ \A i \in 1 .. n : d[i] = ic[i]
  OBVIOUS
<1>2. v \in Seq(Nat) /\ Len(v) = n /\ \A i \in 1 .. n : v[i] = ic[i].value
  BY PathIs
<1>3. x.value \in Nat
  BY DEF Entry
<1> HIDE DEF v, d
<1>4. /\ u \in Seq(Nat) /\ Len(u) = n + 1 /\ u[n + 1] = x.value
      /\ \A i \in 1 .. n : u[i] = v[i]
  <2> HIDE DEF n
  <2> QED BY <1>1, <1>2, <1>3, Longer
<1>5. Path(d) \in Seq(Nat) /\ Len(Path(d)) = n + 1 /\ \A i \in 1 .. n + 1 : Path(d)[i] = d[i].value
  BY <1>1, PathIs
<1>6. Path(d) = u
  <2>1. \A i \in 1 .. n + 1 : Path(d)[i] = u[i]
    <3> TAKE i \in 1 .. n + 1
    <3>1. i \in 1 .. n \/ i = n + 1
      BY <1>1
    <3> QED BY <1>1, <1>2, <1>4, <1>5, <3>1
  <2> HIDE DEF u, n
  <2> QED BY <1>4, <1>5, <2>1, SeqEqual
<1>7. Front(d) = ic
  <2>1. Front(d) = SubSeq(d, 1, n)
    BY <1>1 DEF Front
  <2>2. /\ SubSeq(d, 1, n) \in Seq(Entry) /\ Len(SubSeq(d, 1, n)) = n
        /\ \A i \in 1 .. n : SubSeq(d, 1, n)[i] = d[i]
    <3>1. \A i \in 1 .. n : d[i] \in Entry
      BY <1>1, ElementOfSeq
    <3> QED BY <1>1, <3>1, SubSeqProperties
  <2> QED BY <1>1, <2>1, <2>2, SeqEqual
<1> QED BY <1>1, <1>6, <1>7 DEF d, v

(* The vector that what is pending chooses from has two components or more.  *)
LEMMA VectorLeft ==
  ASSUME NEW T, Type(T), NEW c, Leads(c, T)
  PROVE  /\ Left(c, T) \in Seq(Nat) /\ Len(Left(c, T)) = Len(T) - Len(c.indexChain)
         /\ T \in Seq(Nat) /\ Len(c.indexChain) \in Nat /\ Len(c.indexChain) <= Len(T)
         /\ Path(c.indexChain) \in Seq(Nat) /\ Len(Path(c.indexChain)) = Len(c.indexChain)
         /\ Len(Left(c, T)) = 1 => /\ Left(c, T) = <<Left(c, T)[1]>> /\ Left(c, T)[1] \in Nat
                                   /\ Left(c, T)[1] > 1
<1> DEFINE n == Len(c.indexChain)
           V == Left(c, T)
<1>1. n \in Nat /\ Path(c.indexChain) \in Seq(Nat) /\ Len(Path(c.indexChain)) = n
  BY PathIs DEF Leads
<1>2. n <= Len(T)
  BY <1>1 DEF Leads, Starts
<1>3. T \in Seq(Nat)
  BY DEF Type
<1>4. V \in Seq(Nat) /\ Len(V) = Len(T) - n /\ \A k \in 1 .. Len(T) - n : V[k] = T[n + k]
  BY <1>1, <1>2, <1>3, RestIs DEF Left
<1> HIDE DEF V
<1>5. ASSUME Len(V) = 1
      PROVE  V = <<V[1]>> /\ V[1] \in Nat /\ V[1] > 1
  <2>1. V = <<V[1]>> /\ V[1] \in Nat
    BY <1>4, <1>5
  <2>2. Len(T) = n + 1 /\ V[1] = T[n + 1]
    <3>1. Len(T) \in Nat /\ Len(T) - n = 1
      <4>1. Len(T) \in Nat
        BY <1>3
      <4>2. Len(V) = Len(T) - n
        BY <1>4
      <4> QED BY <4>1, <4>2, <1>5
    <3>2. 1 \in 1 .. Len(T) - n
      BY <3>1
    <3> HIDE DEF n
    <3> QED BY <1>1, <1>4, <3>1, <3>2
  <2>3. T # <<>>
    BY <1>1, <2>2
  <2> QED BY <2>1, <2>2, <2>3 DEF Type
<1> QED BY <1>1, <1>2, <1>3, <1>4, <1>5 DEF V

(* The type tells how a selection may be written.                            *)
LEMMA KindOfSelection ==
  ASSUME NEW c, NEW T, NEW S, Denotes(c, T, S)
  PROVE  \/ S.type = <<>> /\ ~ Many(c, T, S)
         \/ Plain(c, T, S) /\ S.type = Left(c, T)
         \/ Many(c, T, S) /\ S.type = <<Len(c.swizzle)>>
<1>1. \A v, V : Under(v, V).type = V
  BY DEF Under
<1>2. \A v, w : ComponentsOf(v, w).type = <<Len(w)>>
  BY DEF ComponentsOf
<1>3. \A k : <<k>> # <<>>
  OBVIOUS
<1>4. CASE Plain(c, T, S)
  BY <1>1, <1>4 DEF Plain
<1>5. CASE Many(c, T, S)
  BY <1>2, <1>5 DEF Many
<1>6. CASE One(c, T, S) \/ Indexed(c, T, S) \/ ManyIndexed(c, T, S)
  <2>1. S.type = <<>>
    <3>1. CASE One(c, T, S)
      BY <1>1, <3>1 DEF One
    <3>2. CASE Indexed(c, T, S)
      BY <1>1, <3>2 DEF Indexed
    <3>3. CASE ManyIndexed(c, T, S)
      BY <1>1, <3>3 DEF ManyIndexed
    <3> QED BY <1>6, <3>1, <3>2, <3>3
  <2>2. Many(c, T, S) => S.type # <<>>
    <3>1. Many(c, T, S) => S.type = <<Len(c.swizzle)>>
      BY <1>2 DEF Many
    <3>2. <<Len(c.swizzle)>> # <<>>
      BY <1>3
    <3> QED BY <3>1, <3>2
  <2> QED BY <2>1, <2>2
<1> QED BY <1>4, <1>5, <1>6 DEF Denotes


-----------------------------------------------------------------------------
(* The pushes.                                                               *)

WithSwizzle(c, s, t) ==
  [c EXCEPT !.preSwizzleBaseType = IF @ = NoType THEN t ELSE @, !.swizzle = Stacked(@, s)]
LEMMA WithSwizzleIs ==
  ASSUME NEW c, Chain(c), NEW s, NEW t
  PROVE  LET e == WithSwizzle(c, s, t) IN
         /\ e.indexChain = c.indexChain /\ Chain(e) /\ e.swizzle = Stacked(c.swizzle, s)
         /\ e.component = c.component /\ e.instr = c.instr /\ e.base = c.base
         /\ e.isRValue = c.isRValue
         /\ e.preSwizzleBaseType = IF c.preSwizzleBaseType = NoType THEN t ELSE c.preSwizzleBaseType
<1> SUFFICES ASSUME NEW e, e = WithSwizzle(c, s, t)
             PROVE  /\ e.indexChain = c.indexChain /\ Chain(e) /\ e.swizzle = Stacked(c.swizzle, s)
                    /\ e.component = c.component /\ e.instr = c.instr /\ e.base = c.base
                    /\ e.isRValue = c.isRValue
                    /\ e.preSwizzleBaseType = IF c.preSwizzleBaseType = NoType THEN t ELSE c.preSwizzleBaseType
  OBVIOUS
<1>1. e = [base |-> c.base, indexChain |-> c.indexChain, instr |-> c.instr,
           swizzle |-> Stacked(c.swizzle, s), component |-> c.component,
           preSwizzleBaseType |-> IF c.preSwizzleBaseType = NoType THEN t ELSE c.preSwizzleBaseType,
           isRValue |-> c.isRValue]
  BY DEF Chain, WithSwizzle
<1> QED BY <1>1 DEF Chain

LEMMA IndexPushed ==
  ASSUME NEW T, Type(T), NEW S, NEW c, Denotes(c, T, S), Fresh(c, T),
         Len(S.type) > 1, NEW x \in Entry, x.value < S.type[1],
         NEW d, d = [c EXCEPT !.indexChain = Append(@, x)]
  PROVE  /\ Denotes(d, T, SelectIndex(S, x.value)) /\ Fresh(d, T)
         /\ d.base = c.base /\ d.isRValue = c.isRValue
<1> DEFINE v == Path(c.indexChain)
           V == Left(c, T)
<1>1. Leads(c, T) /\ Chain(c) /\ c.indexChain \in Seq(Entry) /\ Starts(v, T)
  BY DEF Denotes, Leads
<1>2. V \in Seq(Nat) /\ T \in Seq(Nat) /\ v \in Seq(Nat) /\ Len(v) = Len(c.indexChain)
      /\ Len(V) = Len(T) - Len(c.indexChain) /\ Len(c.indexChain) \in Nat
  BY <1>1, VectorLeft
<1>3. Plain(c, T, S)
  <2>1. ASSUME S.type = <<>>
        PROVE  FALSE
    <3>1. Len(<<>>) = 0
      OBVIOUS
    <3>2. Len(S.type) = 0
      BY <2>1, <3>1
    <3> QED BY <3>2
  <2>2. ASSUME S.type = <<Len(c.swizzle)>>
        PROVE  FALSE
    <3>1. \A k : Len(<<k>>) = 1
      OBVIOUS
    <3>2. Len(S.type) = 1
      BY <2>2, <3>1
    <3> QED BY <3>2
  <2> QED BY <2>1, <2>2, KindOfSelection
<1>4. S = Under(v, V) /\ S.type = V
  BY <1>3 DEF Plain, Under
<1>5. x.value \in Nat /\ Len(v) < Len(T) /\ x.value < Rest(T, Len(v))[1] /\ V = Rest(T, Len(v))
  <2>1. x.value \in Nat
    BY DEF Entry
  <2>2. V = Rest(T, Len(v))
    BY <1>2 DEF Left
  <2>3. Len(T) \in Nat /\ Len(T) - Len(c.indexChain) > 1
    BY <1>2, <1>4
  <2> HIDE DEF v, V
  <2> QED BY <1>2, <1>4, <2>1, <2>2, <2>3
<1> DEFINE u == v \o <<x.value>>
<1>6. /\ Starts(u, T) /\ Len(u) = Len(v) + 1
      /\ Rest(T, Len(v) + 1) = Tail(V)
      /\ SelectIndex(S, x.value) = Under(u, Tail(V))
  <2> HIDE DEF v
  <2> QED BY <1>1, <1>2, <1>4, <1>5, Deeper
<1>7. d.indexChain = Append(c.indexChain, x) /\ Chain(d) /\ d.swizzle = c.swizzle
      /\ d.component = c.component /\ d.instr = c.instr /\ d.base = c.base
      /\ d.isRValue = c.isRValue /\ d.preSwizzleBaseType = c.preSwizzleBaseType
  <2>1. d = [c EXCEPT !.indexChain = Append(c.indexChain, x)]
    OBVIOUS
  <2> DEFINE y == Append(c.indexChain, x)
  <2> HIDE DEF y
  <2>2. d = [c EXCEPT !.indexChain = y]
    BY <2>1 DEF y
  <2>3. d.indexChain = y /\ Chain(d) /\ d.swizzle = c.swizzle
        /\ d.component = c.component /\ d.instr = c.instr /\ d.base = c.base
        /\ d.isRValue = c.isRValue /\ d.preSwizzleBaseType = c.preSwizzleBaseType
    BY <1>1, <2>2 DEF Chain
  <2> QED BY <2>3 DEF y
<1>8. d.indexChain \in Seq(Entry) /\ Path(d.indexChain) = u /\ Len(d.indexChain) = Len(v) + 1
  BY <1>1, <1>2, <1>7, PathPushed
<1>9. Left(d, T) = Tail(V)
  BY <1>6, <1>8 DEF Left
<1> HIDE DEF u, v, V
<1>10. Leads(d, T)
  BY <1>6, <1>7, <1>8 DEF Leads
<1>11. Plain(d, T, SelectIndex(S, x.value))
  BY <1>3, <1>6, <1>7, <1>8, <1>9 DEF Plain
<1>12. Fresh(d, T)
  BY <1>3, <1>7 DEF Fresh, Plain
<1> QED BY <1>7, <1>10, <1>11, <1>12 DEF Denotes

(* A swizzle lands on a vector, or on components already chosen.  One        *)
(* component of those is an index that GLSL wrote.                           *)
LEMMA SwizzlePushed ==
  ASSUME NEW T, Type(T), NEW S, NEW c, Denotes(c, T, S), Fresh(c, T), Len(S.type) = 1,
         NEW s \in Seq(Nat), s # <<>>, \A i \in 1 .. Len(s) : s[i] < S.type[1],
         NEW d, d = PushSwizzle(c, s, S.type)
  PROVE  /\ Denotes(d, T, IF Len(s) = 1 THEN SelectIndex(S, s[1]) ELSE SelectComponents(S, s))
         /\ Fresh(d, T) /\ d.base = c.base /\ d.isRValue = c.isRValue
<1> DEFINE v == Path(c.indexChain)
           V == Left(c, T)
           w == Stacked(c.swizzle, s)
           R == IF Len(s) = 1 THEN SelectIndex(S, s[1]) ELSE SelectComponents(S, s)
           W == IF Len(w) = 1 THEN Under(v \o <<w[1]>>, <<>>) ELSE ComponentsOf(v, w)
<1>1. Leads(c, T) /\ Chain(c) /\ c.indexChain \in Seq(Entry) /\ Starts(v, T)
  BY DEF Denotes, Leads
<1>2. V \in Seq(Nat) /\ T \in Seq(Nat) /\ v \in Seq(Nat) /\ Len(v) = Len(c.indexChain)
      /\ Len(V) = Len(T) - Len(c.indexChain) /\ Len(c.indexChain) \in Nat
  BY <1>1, VectorLeft
<1>3. Plain(c, T, S) \/ Many(c, T, S)
  <2>1. ASSUME S.type = <<>>
        PROVE  FALSE
    <3>1. Len(<<>>) = 0
      OBVIOUS
    <3>2. Len(S.type) = 0
      BY <2>1, <3>1
    <3> QED BY <3>2
  <2> QED BY <2>1, KindOfSelection
<1>4. c.component = NoComponent
  BY <1>3 DEF Plain, Many
<1>5. Len(V) = 1
  <2>1. CASE Plain(c, T, S)
    BY <2>1 DEF Plain, Under
  <2>2. CASE Many(c, T, S)
    BY <2>2 DEF Many, OnVector
  <2> QED BY <1>3, <2>1, <2>2
<1>6. V = <<V[1]>> /\ V[1] \in Nat /\ V[1] > 1
  BY <1>1, <1>5, VectorLeft
<1> DEFINE n == V[1]
\* What is chosen now, of the vector.
<1>7. /\ w \in Seq(Nat) /\ Len(w) = Len(s) /\ \A i \in 1 .. Len(w) : w[i] < n
      /\ R = W
  <2>0. Len(s) \in Nat \ {0} /\ s[1] \in Nat /\ s[1] < S.type[1]
    <3>1. Len(s) \in Nat \ {0}
      BY EmptySeq
    <3> QED BY <3>1
  <2>1. CASE Plain(c, T, S)
    <3>1. S = Under(v, <<n>>) /\ S.type = <<n>> /\ c.swizzle = <<>>
      BY <1>6, <2>1 DEF Plain, Under
    <3>2. w = s
      BY <3>1 DEF Stacked
    <3>3. \A i \in 1 .. Len(s) : s[i] < n
      BY <3>1
    <3>4. SelectComponents(S, s) = ComponentsOf(v, s)
      <4> HIDE DEF v, n
      <4> QED BY <1>2, <1>6, <3>1, <3>3, VectorComponents DEF n
    <3>5. SelectIndex(S, s[1]) = Under(v \o <<s[1]>>, <<>>)
      <4>1. Len(v) < Len(T) /\ V = Rest(T, Len(v))
        <5>1. Len(T) \in Nat
          BY <1>2
        <5>2. V = Rest(T, Len(v))
          BY <1>2 DEF Left
        <5>3. Len(v) \in Nat /\ Len(T) - Len(v) = 1
          BY <1>2, <1>5
        <5> HIDE DEF v, V
        <5> QED BY <5>1, <5>2, <5>3
      <4>2. Tail(V) = <<>>
        <5> DEFINE k == V[1]
        <5>1. V = <<k>>
          BY <1>6
        <5> HIDE DEF k, V
        <5> QED BY <5>1
      <4>3. s[1] < Rest(T, Len(v))[1]
        BY <2>0, <3>1, <4>1
      <4>4. SelectIndex(Under(v, V), s[1]) = Under(v \o <<s[1]>>, Tail(V))
        <5> HIDE DEF v, V
        <5> QED BY <1>1, <1>2, <2>0, <4>1, <4>3, Deeper
      <4> QED BY <1>6, <3>1, <4>2, <4>4
    <3> HIDE DEF v, n, w
    <3> QED BY <3>2, <3>3, <3>4, <3>5
  <2>2. CASE Many(c, T, S)
    <3>1. /\ S = ComponentsOf(v, c.swizzle) /\ S.type = <<Len(c.swizzle)>>
          /\ c.swizzle \in Seq(Nat) /\ Len(c.swizzle) > 1 /\ c.swizzle # <<>>
          /\ \A i \in 1 .. Len(c.swizzle) : c.swizzle[i] < n
      <4>1. S = ComponentsOf(v, c.swizzle) /\ S.type = <<Len(c.swizzle)>>
        BY <2>2 DEF Many, ComponentsOf
      <4>2. Len(<<>>) = 0
        OBVIOUS
      <4>3. c.swizzle \in Seq(Nat) /\ Len(c.swizzle) > 1
            /\ \A i \in 1 .. Len(c.swizzle) : c.swizzle[i] < n
        BY <2>2 DEF Many, OnVector
      <4> QED BY <4>1, <4>2, <4>3
    <3>2. \A i \in 1 .. Len(s) : s[i] < Len(c.swizzle)
      BY <3>1
    <3>3. /\ SelectComponents(S, s) = ComponentsOf(v, w)
          /\ w \in Seq(Nat) /\ Len(w) = Len(s) /\ \A i \in 1 .. Len(s) : w[i] = c.swizzle[s[i] + 1]
      <4> DEFINE o == c.swizzle
      <4>1. o \in Seq(Nat) /\ o # <<>> /\ S = ComponentsOf(v, o) /\ \A i \in 1 .. Len(s) : s[i] < Len(o)
        BY <3>1, <3>2
      <4> HIDE DEF v, o
      <4>2. /\ SelectComponents(S, s) = ComponentsOf(v, Stacked(o, s))
            /\ Stacked(o, s) \in Seq(Nat) /\ Len(Stacked(o, s)) = Len(s)
            /\ \A i \in 1 .. Len(s) : Stacked(o, s)[i] = o[s[i] + 1]
        BY <1>2, <4>1, ChosenComponents
      <4> QED BY <4>2 DEF o
    <3>4. SelectIndex(S, s[1]) = Under(v \o <<c.swizzle[s[1] + 1]>>, <<>>)
      <4>1. s[1] < Len(c.swizzle)
        BY <2>0, <3>2
      <4> HIDE DEF v
      <4> QED BY <1>2, <2>0, <3>1, <4>1, ChosenComponent
    <3>5. \A i \in 1 .. Len(s) : w[i] < n
      <4> TAKE i \in 1 .. Len(s)
      <4>1. s[i] \in Nat /\ s[i] < Len(c.swizzle) /\ Len(c.swizzle) \in Nat
        BY <3>1, <3>2
      <4>2. s[i] + 1 \in 1 .. Len(c.swizzle)
        BY <4>1
      <4> HIDE DEF w, n
      <4> QED BY <3>1, <3>3, <4>2
    <3>6. 1 \in 1 .. Len(s) /\ w[1] = c.swizzle[s[1] + 1]
      BY <2>0, <3>3
    <3> HIDE DEF v, n, w
    <3> QED BY <3>3, <3>4, <3>5, <3>6
  <2> QED BY <1>3, <2>1, <2>2
<1> DEFINE e == WithSwizzle(c, s, S.type)
<1>8. /\ e.indexChain = c.indexChain /\ Chain(e) /\ e.swizzle = w
      /\ e.component = c.component /\ e.instr = c.instr /\ e.base = c.base
      /\ e.isRValue = c.isRValue /\ e.preSwizzleBaseType = V
  <2>1. (IF c.preSwizzleBaseType = NoType THEN S.type ELSE c.preSwizzleBaseType) = V
    <3>1. CASE Plain(c, T, S)
      BY <3>1 DEF Plain, Under, Fresh
    <3>2. CASE Many(c, T, S)
      <4>1. c.swizzle # <<>> /\ V # NoType
        BY <1>6, <3>2 DEF Many, NoType
      <4> QED BY <4>1 DEF Fresh
    <3> QED BY <1>3, <3>1, <3>2
  <2> HIDE DEF V
  <2> QED BY <1>1, <2>1, WithSwizzleIs
<1> HIDE DEF e
<1>9. d = SimplifySwizzle(e)
  BY DEF PushSwizzle, e, WithSwizzle
<1>10. Left(e, T) = V /\ Leads(e, T)
  BY <1>1, <1>8 DEF Left, Leads
<1>11. Len(w) \in Nat \ {0}
  <2>1. Len(s) \in Nat \ {0}
    BY EmptySeq
  <2> HIDE DEF w
  <2> QED BY <1>7, <2>1
<1>12. CASE V[1] > Len(w) \/ \E i \in 1 .. Len(w) : w[i] # i - 1
  <2>1. d = e
    BY <1>8, <1>9, <1>12 DEF SimplifySwizzle
  <2>2. OnVector(d, T)
    BY <1>5, <1>7, <1>8, <1>10, <2>1 DEF OnVector
  <2>3. w # <<>>
    <3>1. Len(<<>>) = 0
      OBVIOUS
    <3> HIDE DEF w
    <3> QED BY <3>1, <1>11
  <2>4. Fresh(d, T)
    BY <1>8, <1>10, <2>1, <2>3 DEF Fresh
  <2>5. CASE Len(w) = 1
    <3>1. One(d, T, R)
      BY <1>4, <1>7, <1>8, <1>10, <2>1, <2>2, <2>5 DEF One
    <3> QED BY <1>8, <1>10, <2>1, <2>4, <3>1 DEF Denotes
  <2>6. CASE Len(w) # 1
    <3>1. Len(w) > 1
      <4> DEFINE k == Len(w)
      <4>1. k \in Nat \ {0} /\ k # 1
        BY <1>11, <2>6
      <4> HIDE DEF k
      <4>2. k > 1
        BY <4>1
      <4> QED BY <4>2 DEF k
    <3>2. Many(d, T, R)
      BY <1>4, <1>7, <1>8, <1>10, <2>1, <2>2, <2>6, <3>1 DEF Many
    <3> QED BY <1>8, <1>10, <2>1, <2>4, <3>2 DEF Denotes
  <2> QED BY <2>5, <2>6
<1>13. CASE ~ (V[1] > Len(w) \/ \E i \in 1 .. Len(w) : w[i] # i - 1)
  <2>1. Len(w) = n /\ \A i \in 1 .. Len(w) : w[i] = i - 1
    <3>1. \A i \in 1 .. Len(w) : w[i] = i - 1
      BY <1>13
    <3>2. Len(w) \in 1 .. Len(w) /\ w[Len(w)] = Len(w) - 1
      <4> HIDE DEF w
      <4> QED BY <1>11, <3>1
    <3>3. w[Len(w)] < n
      BY <1>7, <3>2
    <3> HIDE DEF w, V
    <3> QED BY <1>6, <1>11, <1>13, <3>1, <3>2, <3>3
  <2>2. ComponentsOf(v, w) = Under(v, V)
    <3>1. ComponentsOf(v, w) = Under(v, <<n>>)
      <4> HIDE DEF v, w, V
      <4> QED BY <1>2, <1>6, <1>7, <2>1, VectorComponents DEF n
    <3> QED BY <1>6, <3>1
  <2>3. R = Under(v, V)
    <3>1. Len(w) # 1
      <4> HIDE DEF w, V
      <4> QED BY <1>6, <2>1
    <3> HIDE DEF w, V, v, R
    <3> QED BY <1>7, <2>2, <3>1
  <2>4. d = [e EXCEPT !.swizzle = <<>>, !.preSwizzleBaseType = NoType]
    BY <1>4, <1>8, <1>9, <1>13 DEF SimplifySwizzle
  <2>5. /\ d.indexChain = c.indexChain /\ Chain(d) /\ d.swizzle = <<>>
        /\ d.component = c.component /\ d.instr = c.instr /\ d.base = c.base
        /\ d.isRValue = c.isRValue /\ d.preSwizzleBaseType = NoType
    <3> HIDE DEF w, V
    <3> QED BY <1>8, <2>4 DEF Chain
  <2>6. Left(d, T) = V /\ Leads(d, T)
    BY <1>1, <2>5 DEF Left, Leads
  <2>7. Plain(d, T, R) /\ Fresh(d, T)
    BY <1>4, <2>3, <2>5, <2>6 DEF Plain, Fresh
  <2> QED BY <2>5, <2>6, <2>7 DEF Denotes
<1> QED BY <1>12, <1>13


(* A dynamic component of a vector, or of components chosen from it.         *)
WithComponent(c, i, t) ==
  [c EXCEPT !.component = Dynamic(i), !.preSwizzleBaseType = IF @ = NoType THEN t ELSE @]
LEMMA WithComponentIs ==
  ASSUME NEW c, Chain(c), NEW i, NEW t
  PROVE  LET e == WithComponent(c, i, t) IN
         /\ e.indexChain = c.indexChain /\ Chain(e) /\ e.swizzle = c.swizzle
         /\ e.component = Dynamic(i) /\ e.instr = c.instr /\ e.base = c.base
         /\ e.isRValue = c.isRValue
         /\ e.preSwizzleBaseType = IF c.preSwizzleBaseType = NoType THEN t ELSE c.preSwizzleBaseType
<1> SUFFICES ASSUME NEW e, e = WithComponent(c, i, t)
             PROVE  /\ e.indexChain = c.indexChain /\ Chain(e) /\ e.swizzle = c.swizzle
                    /\ e.component = Dynamic(i) /\ e.instr = c.instr /\ e.base = c.base
                    /\ e.isRValue = c.isRValue
                    /\ e.preSwizzleBaseType = IF c.preSwizzleBaseType = NoType THEN t ELSE c.preSwizzleBaseType
  OBVIOUS
<1>1. e = [base |-> c.base, indexChain |-> c.indexChain, instr |-> c.instr,
           swizzle |-> c.swizzle, component |-> Dynamic(i),
           preSwizzleBaseType |-> IF c.preSwizzleBaseType = NoType THEN t ELSE c.preSwizzleBaseType,
           isRValue |-> c.isRValue]
  BY DEF Chain, WithComponent
<1> QED BY <1>1 DEF Chain

LEMMA ComponentPushed ==
  ASSUME NEW T, Type(T), NEW S, NEW c, Denotes(c, T, S), Fresh(c, T), Len(S.type) = 1,
         NEW i \in Nat, i < S.type[1], NEW d, d = PushComponent(c, i, S.type)
  PROVE  /\ Denotes(d, T, SelectIndex(S, i))
         /\ Fresh(d, T) /\ d.base = c.base /\ d.isRValue = c.isRValue
<1> DEFINE v == Path(c.indexChain)
           V == Left(c, T)
<1>1. Leads(c, T) /\ Chain(c) /\ c.indexChain \in Seq(Entry) /\ Starts(v, T)
  BY DEF Denotes, Leads
<1>2. V \in Seq(Nat) /\ T \in Seq(Nat) /\ v \in Seq(Nat) /\ Len(v) = Len(c.indexChain)
      /\ Len(V) = Len(T) - Len(c.indexChain) /\ Len(c.indexChain) \in Nat
  BY <1>1, VectorLeft
<1>0. Len(<<>>) = 0
  OBVIOUS
<1>3. Plain(c, T, S) \/ Many(c, T, S)
  <2>1. ASSUME S.type = <<>>
        PROVE  FALSE
    <3>1. Len(S.type) = 0
      BY <1>0, <2>1
    <3> QED BY <3>1
  <2> QED BY <2>1, KindOfSelection
<1>4. Len(c.swizzle) # 1
  <2>1. CASE Plain(c, T, S)
    <3>1. c.swizzle = <<>>
      BY <2>1 DEF Plain
    <3> QED BY <1>0, <3>1
  <2>2. CASE Many(c, T, S)
    <3>1. Len(c.swizzle) > 1 /\ c.swizzle \in Seq(Nat)
      BY <2>2 DEF Many, OnVector
    <3>2. Len(c.swizzle) \in Nat
      BY <3>1
    <3> QED BY <3>1, <3>2, MoreThanOne
  <2> QED BY <1>3, <2>1, <2>2
<1>5. Len(V) = 1
  <2>1. CASE Plain(c, T, S)
    BY <2>1 DEF Plain, Under
  <2>2. CASE Many(c, T, S)
    BY <2>2 DEF Many, OnVector
  <2> QED BY <1>3, <2>1, <2>2
<1>6. V = <<V[1]>> /\ V[1] \in Nat /\ V[1] > 1
  BY <1>1, <1>5, VectorLeft
<1>7. (IF c.preSwizzleBaseType = NoType THEN S.type ELSE c.preSwizzleBaseType) = V
  <2>1. CASE Plain(c, T, S)
    BY <2>1 DEF Plain, Under, Fresh
  <2>2. CASE Many(c, T, S)
    <3>1. V # NoType
      <4> DEFINE k == V[1]
      <4>1. V = <<k>>
        BY <1>6
      <4>2. <<k>> # <<>>
        OBVIOUS
      <4> HIDE DEF k, V
      <4> QED BY <4>1, <4>2 DEF NoType
    <3>2. c.swizzle # <<>>
      <4>1. Len(c.swizzle) > 1
        BY <2>2 DEF Many
      <4> QED BY <1>0, <4>1
    <3> QED BY <3>1, <3>2 DEF Fresh
  <2> QED BY <1>3, <2>1, <2>2
<1>8. /\ d.indexChain = c.indexChain /\ Chain(d) /\ d.swizzle = c.swizzle
      /\ d.component = Dynamic(i) /\ d.instr = c.instr /\ d.base = c.base
      /\ d.isRValue = c.isRValue /\ d.preSwizzleBaseType = V
  <2>1. d = WithComponent(c, i, S.type)
    BY <1>4 DEF PushComponent, WithComponent
  <2> HIDE DEF V
  <2> QED BY <1>1, <1>7, <2>1, WithComponentIs
<1>9. Left(d, T) = V /\ Leads(d, T) /\ Path(d.indexChain) = v
  BY <1>1, <1>8 DEF Left, Leads
<1>10. Dynamic(i) # NoComponent
  BY DEF Dynamic, NoComponent, Constant
<1>11. Fresh(d, T)
  BY <1>8, <1>9, <1>10 DEF Fresh
<1>12. CASE Plain(c, T, S)
  <2>1. S = Under(v, V) /\ S.type = V /\ c.swizzle = <<>>
    BY <1>12 DEF Plain, Under
  <2>2. Len(v) < Len(T) /\ V = Rest(T, Len(v))
    <3>1. Len(T) \in Nat
      BY <1>2
    <3>2. V = Rest(T, Len(v))
      BY <1>2 DEF Left
    <3>3. Len(v) \in Nat /\ Len(T) - Len(v) = 1
      BY <1>2, <1>5
    <3> HIDE DEF v, V
    <3> QED BY <3>1, <3>2, <3>3
  <2>3. Tail(V) = <<>>
    <3> DEFINE k == V[1]
    <3>1. V = <<k>>
      BY <1>6
    <3> HIDE DEF k, V
    <3> QED BY <3>1
  <2>4. i < Rest(T, Len(v))[1] /\ i < V[1]
    BY <2>1, <2>2
  <2>5. SelectIndex(Under(v, V), i) = Under(v \o <<i>>, Tail(V))
    <3> HIDE DEF v, V
    <3> QED BY <1>1, <1>2, <2>2, <2>4, Deeper
  <2>6. OnVector(d, T)
    <3>1. <<>> \in Seq(Nat)
      OBVIOUS
    <3> QED BY <1>0, <1>5, <1>8, <1>9, <2>1, <3>1 DEF OnVector
  <2>7. Indexed(d, T, SelectIndex(S, i))
    BY <1>8, <1>9, <2>1, <2>3, <2>4, <2>5, <2>6 DEF Indexed
  <2> QED BY <1>8, <1>9, <1>11, <2>7 DEF Denotes
<1>13. CASE Many(c, T, S)
  <2>1. S = ComponentsOf(v, c.swizzle) /\ S.type = <<Len(c.swizzle)>> /\ OnVector(c, T)
        /\ c.swizzle \in Seq(Nat) /\ Len(c.swizzle) > 1
    BY <1>13 DEF Many, ComponentsOf, OnVector
  <2>2. i < Len(c.swizzle)
    BY <2>1
  <2>3. SelectIndex(S, i) = Under(v \o <<c.swizzle[i + 1]>>, <<>>)
    <3> HIDE DEF v
    <3> QED BY <1>2, <2>1, <2>2, ChosenComponent
  <2>4. OnVector(d, T)
    BY <1>8, <1>9, <2>1 DEF OnVector
  <2>5. ManyIndexed(d, T, SelectIndex(S, i))
    BY <1>8, <1>9, <2>1, <2>2, <2>3, <2>4 DEF ManyIndexed
  <2> QED BY <1>8, <1>9, <1>11, <2>5 DEF Denotes
<1> QED BY <1>3, <1>12, <1>13

-----------------------------------------------------------------------------
(* From what is pending to an address.                                       *)

\* Of a chain whose instruction was emitted: what is pending is a swizzle.
Resolved(c, T, S) ==
  /\ Leads(c, T) /\ c.instr = Path(c.indexChain)
  /\ Plain(c, T, S) \/ Many(c, T, S)

(* An index into the vector is the end of an address.                        *)
LEMMA LastIndex ==
  ASSUME NEW T, Type(T), NEW c, Leads(c, T), Len(Left(c, T)) = 1,
         NEW x \in Entry, x.value < Left(c, T)[1],
         NEW d, Chain(d), d.indexChain = Append(c.indexChain, x)
  PROVE  /\ Leads(d, T) /\ Left(d, T) = <<>>
         /\ Path(d.indexChain) = Path(c.indexChain) \o <<x.value>>
<1> DEFINE v == Path(c.indexChain)
           V == Left(c, T)
<1>1. Chain(c) /\ c.indexChain \in Seq(Entry) /\ Starts(v, T)
  BY DEF Leads
<1>2. V \in Seq(Nat) /\ T \in Seq(Nat) /\ v \in Seq(Nat) /\ Len(v) = Len(c.indexChain)
      /\ Len(V) = Len(T) - Len(c.indexChain) /\ Len(c.indexChain) \in Nat /\ V = <<V[1]>>
  BY VectorLeft
<1>3. Len(v) < Len(T) /\ V = Rest(T, Len(v))
  <2>1. Len(T) \in Nat
    BY <1>2
  <2>2. V = Rest(T, Len(v))
    BY <1>2 DEF Left
  <2>3. Len(v) \in Nat /\ Len(T) - Len(v) = 1
    BY <1>2
  <2> HIDE DEF v, V
  <2> QED BY <2>1, <2>2, <2>3
<1>4. Tail(V) = <<>>
  <2> DEFINE k == V[1]
  <2>1. V = <<k>>
    BY <1>2
  <2> HIDE DEF k, V
  <2> QED BY <2>1
<1>5. x.value \in Nat /\ x.value < Rest(T, Len(v))[1]
  <2>1. x.value \in Nat
    BY DEF Entry
  <2> QED BY <1>3, <2>1
<1>6. /\ Starts(v \o <<x.value>>, T) /\ Rest(T, Len(v) + 1) = Tail(V)
  <2> HIDE DEF v, V
  <2> QED BY <1>1, <1>2, <1>3, <1>5, Deeper
<1>7. d.indexChain \in Seq(Entry) /\ Path(d.indexChain) = v \o <<x.value>> /\ Len(d.indexChain) = Len(v) + 1
  BY <1>1, <1>2, PathPushed
<1>8. Left(d, T) = <<>>
  BY <1>4, <1>6, <1>7 DEF Left
<1> QED BY <1>6, <1>7, <1>8 DEF Leads


(* To the extent a swizzle can be an index, it becomes one.                  *)
AsIndex(c, x) ==
  [c EXCEPT !.indexChain = Append(@, x), !.swizzle = <<>>, !.preSwizzleBaseType = NoType]
LEMMA AsIndexIs ==
  ASSUME NEW c, Chain(c), NEW x
  PROVE  LET e == AsIndex(c, x) IN
         /\ e.indexChain = Append(c.indexChain, x) /\ Chain(e) /\ e.swizzle = <<>>
         /\ e.component = c.component /\ e.instr = c.instr /\ e.base = c.base
         /\ e.isRValue = c.isRValue
<1> SUFFICES ASSUME NEW e, e = AsIndex(c, x)
             PROVE  /\ e.indexChain = Append(c.indexChain, x) /\ Chain(e) /\ e.swizzle = <<>>
                    /\ e.component = c.component /\ e.instr = c.instr /\ e.base = c.base
                    /\ e.isRValue = c.isRValue
  OBVIOUS
<1>1. e = [base |-> c.base, indexChain |-> Append(c.indexChain, x), instr |-> c.instr,
           swizzle |-> <<>>, component |-> c.component,
           preSwizzleBaseType |-> NoType, isRValue |-> c.isRValue]
  BY DEF Chain, AsIndex
<1> QED BY <1>1 DEF Chain

ComponentIndexed(c) ==
  [c EXCEPT !.indexChain = Append(@, c.component), !.component = NoComponent,
            !.preSwizzleBaseType = NoType]
LEMMA ComponentIndexedIs ==
  ASSUME NEW c, Chain(c)
  PROVE  LET e == ComponentIndexed(c) IN
         /\ e.indexChain = Append(c.indexChain, c.component) /\ Chain(e) /\ e.swizzle = c.swizzle
         /\ e.component = NoComponent /\ e.instr = c.instr /\ e.base = c.base
         /\ e.isRValue = c.isRValue
<1> SUFFICES ASSUME NEW e, e = ComponentIndexed(c)
             PROVE  /\ e.indexChain = Append(c.indexChain, c.component) /\ Chain(e)
                    /\ e.swizzle = c.swizzle
                    /\ e.component = NoComponent /\ e.instr = c.instr /\ e.base = c.base
                    /\ e.isRValue = c.isRValue
  OBVIOUS
<1>1. e = [base |-> c.base, indexChain |-> Append(c.indexChain, c.component), instr |-> c.instr,
           swizzle |-> c.swizzle, component |-> NoComponent,
           preSwizzleBaseType |-> NoType, isRValue |-> c.isRValue]
  BY DEF Chain, ComponentIndexed
<1> QED BY <1>1 DEF Chain

(* The same without the vector the code remembers.                           *)
LEMMA IndexComponentIs ==
  ASSUME NEW c, Chain(c), c.component # NoComponent
  PROVE  LET e == IndexComponent(c) IN
         /\ e.indexChain = Append(c.indexChain, c.component) /\ Chain(e) /\ e.swizzle = c.swizzle
         /\ e.component = NoComponent /\ e.instr = c.instr /\ e.base = c.base
         /\ e.isRValue = c.isRValue
<1> SUFFICES ASSUME NEW e, e = IndexComponent(c)
             PROVE  /\ e.indexChain = Append(c.indexChain, c.component) /\ Chain(e)
                    /\ e.swizzle = c.swizzle
                    /\ e.component = NoComponent /\ e.instr = c.instr /\ e.base = c.base
                    /\ e.isRValue = c.isRValue
  OBVIOUS
<1>1. e = [base |-> c.base, indexChain |-> Append(c.indexChain, c.component), instr |-> c.instr,
           swizzle |-> c.swizzle, component |-> NoComponent,
           preSwizzleBaseType |-> c.preSwizzleBaseType, isRValue |-> c.isRValue]
  BY DEF Chain, IndexComponent
<1> QED BY <1>1 DEF Chain

\* A dynamic index that a component becomes is an entry of the address.
LEMMA Entries ==
  ASSUME NEW i \in Nat
  PROVE  /\ Constant(i) \in Entry /\ Constant(i).value = i
         /\ Dynamic(i) \in Entry /\ Dynamic(i).value = i
         /\ Dynamic(i) # NoComponent
BY DEF Constant, Dynamic, Entry, NoComponent

LEMMA Transferred ==
  ASSUME NEW T, Type(T), NEW S, NEW c, Denotes(c, T, S), NEW dynamic \in BOOLEAN,
         NEW d, d = TransferSwizzle(c, dynamic)
  PROVE  /\ Denotes(d, T, S) /\ ~ One(d, T, S)
         /\ dynamic => ~ Indexed(d, T, S)
         /\ d.base = c.base /\ d.isRValue = c.isRValue /\ d.instr = c.instr
<1>1. Leads(c, T) /\ Chain(c) /\ c.indexChain \in Seq(Entry)
  BY DEF Denotes, Leads
<1>2. Len(<<>>) = 0
  OBVIOUS
<1>3. CASE One(c, T, S)
  <2> DEFINE i == c.swizzle[1]
  <2>1. /\ Len(Left(c, T)) = 1 /\ Len(c.swizzle) = 1 /\ c.component = NoComponent
        /\ i \in Nat /\ i < Left(c, T)[1]
        /\ S = Under(Path(c.indexChain) \o <<i>>, <<>>)
    <3>1. /\ Len(Left(c, T)) = 1 /\ Len(c.swizzle) = 1 /\ c.component = NoComponent
          /\ c.swizzle \in Seq(Nat) /\ \A k \in 1 .. Len(c.swizzle) : c.swizzle[k] < Left(c, T)[1]
          /\ S = Under(Path(c.indexChain) \o <<i>>, <<>>)
      BY <1>3 DEF One, OnVector
    <3>2. 1 \in 1 .. Len(c.swizzle)
      BY <3>1
    <3> QED BY <3>1, <3>2, ElementOfSeq
  <2>2. d = AsIndex(c, Constant(i))
    BY <2>1 DEF TransferSwizzle, AsIndex
  <2> HIDE DEF i
  <2>3. /\ d.indexChain = Append(c.indexChain, Constant(i)) /\ Chain(d) /\ d.swizzle = <<>>
        /\ d.component = NoComponent /\ d.instr = c.instr /\ d.base = c.base
        /\ d.isRValue = c.isRValue
    BY <1>1, <2>1, <2>2, AsIndexIs
  <2>4. Leads(d, T) /\ Left(d, T) = <<>> /\ Path(d.indexChain) = Path(c.indexChain) \o <<i>>
    <3>1. Constant(i) \in Entry /\ Constant(i).value = i
      BY <2>1, Entries
    <3> QED BY <1>1, <2>1, <2>3, <3>1, LastIndex
  <2>5. Plain(d, T, S)
    BY <2>1, <2>3, <2>4 DEF Plain
  <2>6. ~ One(d, T, S)
    <3>1. Len(d.swizzle) = 0
      BY <1>2, <2>3
    <3> QED BY <3>1 DEF One
  <2>7. ~ Indexed(d, T, S)
    BY <2>3, Entries DEF Indexed
  <2> QED BY <2>3, <2>4, <2>5, <2>6, <2>7 DEF Denotes
<1>4. CASE Indexed(c, T, S) /\ dynamic
  <2>1. PICK i \in Nat : /\ i < Left(c, T)[1] /\ c.component = Dynamic(i)
                         /\ S = Under(Path(c.indexChain) \o <<i>>, <<>>)
    BY <1>4 DEF Indexed
  <2>2. Len(Left(c, T)) = 1 /\ c.swizzle = <<>>
    BY <1>4 DEF Indexed, OnVector
  <2>3. Dynamic(i) \in Entry /\ Dynamic(i).value = i /\ Dynamic(i) # NoComponent
    BY Entries
  <2>4. Len(c.swizzle) # 1
    <3>1. Len(c.swizzle) = 0
      BY <1>2, <2>2
    <3> QED BY <3>1
  <2>5. d = ComponentIndexed(c)
    BY <1>4, <2>1, <2>2, <2>3, <2>4 DEF TransferSwizzle, ComponentIndexed
  <2>6. /\ d.indexChain = Append(c.indexChain, Dynamic(i)) /\ Chain(d) /\ d.swizzle = <<>>
        /\ d.component = NoComponent /\ d.instr = c.instr /\ d.base = c.base
        /\ d.isRValue = c.isRValue
    BY <1>1, <2>1, <2>2, <2>5, ComponentIndexedIs
  <2>7. Leads(d, T) /\ Left(d, T) = <<>> /\ Path(d.indexChain) = Path(c.indexChain) \o <<i>>
    BY <1>1, <2>1, <2>2, <2>3, <2>6, LastIndex
  <2>8. Plain(d, T, S)
    BY <2>1, <2>6, <2>7 DEF Plain
  <2>9. ~ One(d, T, S)
    <3>1. Len(d.swizzle) = 0
      BY <1>2, <2>6
    <3> QED BY <3>1 DEF One
  <2>10. ~ Indexed(d, T, S)
    BY <2>6, Entries DEF Indexed
  <2> QED BY <2>6, <2>7, <2>8, <2>9, <2>10 DEF Denotes
<1>5. CASE ~ One(c, T, S) /\ ~ (Indexed(c, T, S) /\ dynamic)
  <2>1. Len(c.swizzle) # 1
    <3>1. Plain(c, T, S) \/ Many(c, T, S) \/ Indexed(c, T, S) \/ ManyIndexed(c, T, S)
      BY <1>5 DEF Denotes
    <3>2. c.swizzle = <<>> \/ (Len(c.swizzle) > 1 /\ c.swizzle \in Seq(Nat))
      BY <3>1 DEF Plain, Many, Indexed, ManyIndexed, OnVector
    <3>3. Len(c.swizzle) = 0 \/ (Len(c.swizzle) > 1 /\ Len(c.swizzle) \in Nat)
      BY <1>2, <3>2
    <3>4. CASE Len(c.swizzle) = 0
      BY <3>4
    <3>5. CASE Len(c.swizzle) > 1 /\ Len(c.swizzle) \in Nat
      BY <3>5, MoreThanOne
    <3> QED BY <3>3, <3>4, <3>5
  <2>2. ~ (c.swizzle = <<>> /\ dynamic /\ c.component # NoComponent)
    <3>1. ASSUME c.swizzle = <<>>, dynamic, c.component # NoComponent
          PROVE  FALSE
      <4>1. ~ Plain(c, T, S) /\ ~ Many(c, T, S)
        BY <3>1 DEF Plain, Many
      <4>2. ~ ManyIndexed(c, T, S)
        <5>1. Len(c.swizzle) = 0
          BY <1>2, <3>1
        <5> QED BY <5>1 DEF ManyIndexed
      <4> QED BY <1>5, <3>1, <4>1, <4>2 DEF Denotes
    <3> QED BY <3>1
  <2>3. d = c
    BY <2>1, <2>2 DEF TransferSwizzle
  <2> QED BY <1>5, <2>3
<1> QED BY <1>3, <1>4, <1>5


(* The instruction is emitted when nothing dynamic is pending.               *)
WithInstr(c) == [c EXCEPT !.instr = [i \in DOMAIN c.indexChain |-> c.indexChain[i].value]]
LEMMA WithInstrIs ==
  ASSUME NEW c, Chain(c)
  PROVE  LET e == WithInstr(c) IN
         /\ e.indexChain = c.indexChain /\ Chain(e) /\ e.swizzle = c.swizzle
         /\ e.component = c.component /\ e.instr = Path(c.indexChain) /\ e.base = c.base
         /\ e.isRValue = c.isRValue /\ e.preSwizzleBaseType = c.preSwizzleBaseType
<1> SUFFICES ASSUME NEW e, e = WithInstr(c)
             PROVE  /\ e.indexChain = c.indexChain /\ Chain(e) /\ e.swizzle = c.swizzle
                    /\ e.component = c.component /\ e.instr = Path(c.indexChain) /\ e.base = c.base
                    /\ e.isRValue = c.isRValue /\ e.preSwizzleBaseType = c.preSwizzleBaseType
  OBVIOUS
<1> DEFINE y == Path(c.indexChain)
<1>1. e = [c EXCEPT !.instr = y]
  BY DEF WithInstr, Path
<1> HIDE DEF y
<1>2. e = [base |-> c.base, indexChain |-> c.indexChain, instr |-> y,
           swizzle |-> c.swizzle, component |-> c.component,
           preSwizzleBaseType |-> c.preSwizzleBaseType, isRValue |-> c.isRValue]
  BY <1>1 DEF Chain
<1> QED BY <1>2 DEF Chain, y

LEMMA Emitted ==
  ASSUME NEW T, NEW S, NEW c, Leads(c, T), c.instr = NoInstr, Plain(c, T, S) \/ Many(c, T, S),
         NEW e, e = IF c.indexChain = <<>> THEN c ELSE WithInstr(c)
  PROVE  Resolved(e, T, S) /\ e.base = c.base /\ e.isRValue = c.isRValue
<1>1. Chain(c) /\ c.indexChain \in Seq(Entry)
  BY DEF Leads
<1>2. CASE c.indexChain = <<>>
  <2>1. Path(c.indexChain) = <<>>
    BY <1>1, <1>2, PathIs
  <2> QED BY <1>2, <2>1 DEF Resolved, NoInstr
<1>3. CASE c.indexChain # <<>>
  <2>1. e = WithInstr(c)
    BY <1>3
  <2>2. /\ e.indexChain = c.indexChain /\ Chain(e) /\ e.swizzle = c.swizzle
        /\ e.component = c.component /\ e.instr = Path(c.indexChain) /\ e.base = c.base
        /\ e.isRValue = c.isRValue
    BY <1>1, <2>1, WithInstrIs
  <2>3. Leads(e, T) /\ Left(e, T) = Left(c, T)
    BY <2>2 DEF Leads, Left
  <2>4. Plain(c, T, S) => Plain(e, T, S)
    BY <2>2, <2>3 DEF Plain
  <2>5. Many(c, T, S) => Many(e, T, S)
    BY <2>2, <2>3 DEF Many, OnVector
  <2> QED BY <2>2, <2>3, <2>4, <2>5 DEF Resolved
<1> QED BY <1>2, <1>3

LEMMA RemapIs ==
  ASSUME NEW c, Chain(c), c.component # NoComponent, Len(c.swizzle) > 1
  PROVE  LET e == RemapDynamicSwizzle(c) IN
         /\ e.indexChain = c.indexChain /\ Chain(e) /\ e.swizzle = <<>>
         /\ e.component = Dynamic(c.swizzle[c.component.value + 1]) /\ e.instr = c.instr
         /\ e.base = c.base /\ e.isRValue = c.isRValue
<1> SUFFICES ASSUME NEW e, e = RemapDynamicSwizzle(c)
             PROVE  /\ e.indexChain = c.indexChain /\ Chain(e) /\ e.swizzle = <<>>
                    /\ e.component = Dynamic(c.swizzle[c.component.value + 1]) /\ e.instr = c.instr
                    /\ e.base = c.base /\ e.isRValue = c.isRValue
  OBVIOUS
<1> DEFINE y == Dynamic(c.swizzle[c.component.value + 1])
<1>1. e = [c EXCEPT !.component = y, !.swizzle = <<>>]
  BY DEF RemapDynamicSwizzle
<1> HIDE DEF y
<1>2. e = [base |-> c.base, indexChain |-> c.indexChain, instr |-> c.instr,
           swizzle |-> <<>>, component |-> y,
           preSwizzleBaseType |-> c.preSwizzleBaseType, isRValue |-> c.isRValue]
  BY <1>1 DEF Chain
<1> QED BY <1>2 DEF Chain, y

LEMMA Collapsed ==
  ASSUME NEW T, Type(T), NEW S, NEW d, Denotes(d, T, S), ~ One(d, T, S), d.instr = NoInstr,
         NEW e, e = CollapseAccessChain(d)
  PROVE  Resolved(e, T, S) /\ e.base = d.base /\ e.isRValue = d.isRValue
<1> DEFINE f == IndexComponent(RemapDynamicSwizzle(d))
<1>1. Leads(d, T) /\ Chain(d) /\ d.indexChain \in Seq(Entry)
  BY DEF Denotes, Leads
<1>2. Len(<<>>) = 0
  OBVIOUS
<1>3. e = IF f.indexChain = <<>> THEN f ELSE WithInstr(f)
  BY DEF CollapseAccessChain, WithInstr
<1>4. /\ Leads(f, T) /\ f.instr = NoInstr /\ f.base = d.base /\ f.isRValue = d.isRValue
      /\ Plain(f, T, S) \/ Many(f, T, S)
  <2>1. CASE Plain(d, T, S) \/ Many(d, T, S)
    <3>1. d.component = NoComponent
      BY <2>1 DEF Plain, Many
    <3>2. f = d
      BY <3>1 DEF RemapDynamicSwizzle, IndexComponent
    <3> QED BY <1>1, <2>1, <3>2
  <2>2. CASE Indexed(d, T, S)
    <3>1. PICK i \in Nat : /\ i < Left(d, T)[1] /\ d.component = Dynamic(i)
                           /\ S = Under(Path(d.indexChain) \o <<i>>, <<>>)
      BY <2>2 DEF Indexed
    <3>2. Len(Left(d, T)) = 1 /\ d.swizzle = <<>>
      BY <2>2 DEF Indexed, OnVector
    <3>3. Dynamic(i) \in Entry /\ Dynamic(i).value = i /\ Dynamic(i) # NoComponent
      BY Entries
    <3>4. ~ (Len(d.swizzle) > 1)
      <4>1. Len(d.swizzle) = 0
        BY <1>2, <3>2
      <4> QED BY <4>1
    <3>5. f = IndexComponent(d)
      BY <3>4 DEF RemapDynamicSwizzle
    <3> HIDE DEF f
    <3>6. /\ f.indexChain = Append(d.indexChain, Dynamic(i)) /\ Chain(f) /\ f.swizzle = <<>>
          /\ f.component = NoComponent /\ f.instr = d.instr /\ f.base = d.base
          /\ f.isRValue = d.isRValue
      BY <1>1, <3>1, <3>2, <3>3, <3>5, IndexComponentIs
    <3>7. Leads(f, T) /\ Left(f, T) = <<>> /\ Path(f.indexChain) = Path(d.indexChain) \o <<i>>
      BY <1>1, <3>1, <3>2, <3>3, <3>6, LastIndex
    <3>8. Plain(f, T, S)
      BY <3>1, <3>6, <3>7 DEF Plain
    <3> QED BY <3>6, <3>7, <3>8
  <2>3. CASE ManyIndexed(d, T, S)
    <3>1. PICK i \in Nat : /\ i < Len(d.swizzle) /\ d.component = Dynamic(i)
                           /\ S = Under(Path(d.indexChain) \o <<d.swizzle[i + 1]>>, <<>>)
      BY <2>3 DEF ManyIndexed
    <3>2. /\ Len(Left(d, T)) = 1 /\ d.swizzle \in Seq(Nat) /\ Len(d.swizzle) > 1
          /\ \A k \in 1 .. Len(d.swizzle) : d.swizzle[k] < Left(d, T)[1]
      BY <2>3 DEF ManyIndexed, OnVector
    <3> DEFINE j == d.swizzle[i + 1]
               r == RemapDynamicSwizzle(d)
    <3>3. j \in Nat /\ j < Left(d, T)[1]
      <4>1. i + 1 \in 1 .. Len(d.swizzle)
        BY <3>1, <3>2
      <4> QED BY <3>2, <4>1, ElementOfSeq
    <3> HIDE DEF j
    <3>4. Dynamic(i) # NoComponent /\ Dynamic(i).value = i
      BY Entries
    <3>5. /\ r.indexChain = d.indexChain /\ Chain(r) /\ r.swizzle = <<>>
          /\ r.component = Dynamic(j) /\ r.instr = d.instr
          /\ r.base = d.base /\ r.isRValue = d.isRValue
      BY <1>1, <3>1, <3>2, <3>4, RemapIs DEF j
    <3>6. Dynamic(j) \in Entry /\ Dynamic(j).value = j /\ Dynamic(j) # NoComponent
      BY <3>3, Entries
    <3>7. f = IndexComponent(r)
      OBVIOUS
    <3> HIDE DEF f, r
    <3>8. /\ f.indexChain = Append(d.indexChain, Dynamic(j)) /\ Chain(f) /\ f.swizzle = <<>>
          /\ f.component = NoComponent /\ f.instr = d.instr /\ f.base = d.base
          /\ f.isRValue = d.isRValue
      BY <3>5, <3>6, <3>7, IndexComponentIs
    <3>9. Leads(f, T) /\ Left(f, T) = <<>> /\ Path(f.indexChain) = Path(d.indexChain) \o <<j>>
      BY <1>1, <3>2, <3>3, <3>6, <3>8, LastIndex
    <3>10. Plain(f, T, S)
      BY <3>1, <3>8, <3>9 DEF Plain, j
    <3> QED BY <3>8, <3>9, <3>10
  <2> QED BY <2>1, <2>2, <2>3 DEF Denotes
<1> HIDE DEF f
<1> QED BY <1>3, <1>4, Emitted

(* Nothing is left to do for it.                                             *)
LEMMA ResolvedStays ==
  ASSUME NEW T, NEW S, NEW c, Resolved(c, T, S)
  PROVE  /\ CollapseAccessChain(c) = c /\ TransferSwizzle(c, TRUE) = c
         /\ c.component = NoComponent /\ Len(c.swizzle) # 1
<1>1. Leads(c, T) /\ c.instr = Path(c.indexChain) /\ c.indexChain \in Seq(Entry)
      /\ (Plain(c, T, S) \/ Many(c, T, S))
  BY DEF Resolved, Leads
<1>2. /\ c.component = NoComponent
      /\ c.swizzle = <<>> \/ (Len(c.swizzle) > 1 /\ c.swizzle \in Seq(Nat))
  BY <1>1 DEF Plain, Many, OnVector
<1>3. Len(c.swizzle) # 1
  <2>1. CASE c.swizzle = <<>>
    <3>1. Len(<<>>) = 0
      OBVIOUS
    <3>2. Len(c.swizzle) = 0
      BY <2>1, <3>1
    <3> QED BY <3>2
  <2>2. CASE Len(c.swizzle) > 1 /\ c.swizzle \in Seq(Nat)
    <3>1. Len(c.swizzle) \in Nat
      BY <2>2
    <3> QED BY <2>2, <3>1, MoreThanOne
  <2> QED BY <1>2, <2>1, <2>2
<1>4. TransferSwizzle(c, TRUE) = c
  BY <1>2, <1>3 DEF TransferSwizzle
<1>5. CASE c.instr # NoInstr
  BY <1>2, <1>3, <1>4, <1>5 DEF CollapseAccessChain
<1>6. CASE c.instr = NoInstr
  <2>1. c.indexChain = <<>>
    <3>1. Len(Path(c.indexChain)) = Len(c.indexChain) /\ Path(c.indexChain) = <<>>
      <4>1. Path(c.indexChain) = <<>>
        BY <1>1, <1>6 DEF NoInstr
      <4>2. Len(Path(c.indexChain)) = Len(c.indexChain)
        BY <1>1, PathIs
      <4> QED BY <4>1, <4>2
    <3>2. Len(<<>>) = 0
      OBVIOUS
    <3>3. Len(c.indexChain) = 0
      BY <3>1, <3>2
    <3> QED BY <1>1, <3>3, EmptySeq
  <2>2. IndexComponent(RemapDynamicSwizzle(c)) = c
    BY <1>2 DEF RemapDynamicSwizzle, IndexComponent
  <2> QED BY <1>2, <1>3, <1>4, <2>1, <2>2 DEF CollapseAccessChain
<1> QED BY <1>5, <1>6


-----------------------------------------------------------------------------
(* A load.                                                                   *)

Single(x) == [p \in Places(<<>>) |-> x]

(* One component of a vector, or of what is shaped like one.                 *)
LEMMA ComponentOf ==
  ASSUME NEW m \in Nat, NEW F, DOMAIN F = Places(<<m>>), NEW i \in Nat, i < m
  PROVE  At(F, <<i>>) = Single(F[<<i>>])
<1> DEFINE y == <<i>>
           M == <<m>>
<1>1. M \in Seq(Nat) /\ Len(y) = 1 /\ Starts(y, M) /\ Rest(M, Len(y)) = <<>>
  <2>1. Rest(M, 1) = <<>>
    BY SubSeqEmpty DEF Rest
  <2>2. M \in Seq(Nat) /\ Len(M) = 1 /\ M[1] = m /\ y \in Seq(Nat) /\ Len(y) = 1 /\ y[1] = i
    OBVIOUS
  <2> QED BY <2>1, <2>2 DEF Starts
<1>2. y \in Seq(Nat)
  OBVIOUS
<1>3. DOMAIN F = Places(M)
  OBVIOUS
<1> HIDE DEF y, M
<1>4. At(F, y) = Below(F, y, <<>>)
  BY <1>1, <1>3, AtIs
<1>5. \A p \in Places(<<>>) : F[y \o p] = F[y]
  <2>1. y \o <<>> = y
    BY <1>2, ConcatEmptySeq
  <2> QED BY <2>1, PlacesOfScalar
<1>6. Below(F, y, <<>>) = [p \in Places(<<>>) |-> F[y]]
  BY <1>5 DEF Below
<1> QED BY <1>4, <1>6 DEF y, Single

LEMMA ChosenUnder ==
  ASSUME NEW v, NEW V, NEW src
  PROVE  Chosen(Under(v, V), src) = Below(src, v, V)
BY DEF Chosen, Under, Below

LEMMA ChosenScalar ==
  ASSUME NEW v \in Seq(Nat), NEW i \in Nat, NEW src
  PROVE  Chosen(Under(v \o <<i>>, <<>>), src) = Single(src[v \o <<i>>])
<1> DEFINE x == v \o <<i>>
<1>1. x \in Seq(Nat)
  BY Longer
<1> HIDE DEF x
<1>2. \A p \in Places(<<>>) : x \o p = x
  BY <1>1, ConcatEmptySeq, PlacesOfScalar
<1>3. Below(src, x, <<>>) = [p \in Places(<<>>) |-> src[x]]
  BY <1>2 DEF Below
<1> QED BY <1>3, ChosenUnder DEF x, Single

LEMMA ChosenOf ==
  ASSUME NEW v \in Seq(Nat), NEW n \in Nat, NEW w \in Seq(Nat), \A i \in 1 .. Len(w) : w[i] < n,
         Len(w) # 1, NEW src
  PROVE  /\ RvalueSwizzle(Below(src, v, <<n>>), w) = Chosen(ComponentsOf(v, w), src)
         /\ DOMAIN RvalueSwizzle(Below(src, v, <<n>>), w) = Places(<<Len(w)>>)
         /\ \A i \in Nat : i < Len(w) =>
              RvalueSwizzle(Below(src, v, <<n>>), w)[<<i>>] = src[v \o <<w[i + 1]>>]
<1> DEFINE F == [p \in Places(<<Len(w)>>) |-> Below(src, v, <<n>>)[<<w[p[1] + 1]>>]]
           G == [p \in Places(<<Len(w)>>) |-> src[v \o <<w[p[1] + 1]>>]]
<1>1. ASSUME NEW p \in Places(<<Len(w)>>)
      PROVE  Below(src, v, <<n>>)[<<w[p[1] + 1]>>] = src[v \o <<w[p[1] + 1]>>]
  <2>1. p[1] \in Nat /\ p[1] < Len(w) /\ Len(w) \in Nat
    <3>1. Len(w) \in Nat
      OBVIOUS
    <3> QED BY <3>1, PlacesOfVector
  <2>2. p[1] + 1 \in 1 .. Len(w)
    BY <2>1
  <2> DEFINE j == w[p[1] + 1]
  <2>3. j \in Nat /\ j < n
    BY <2>2, ElementOfSeq
  <2> HIDE DEF j
  <2>4. <<j>> \in Places(<<n>>)
    BY <2>3, PlacesOfVector
  <2> QED BY <2>4 DEF Below, j
<1>2. F = G
  BY <1>1
<1>3. RvalueSwizzle(Below(src, v, <<n>>), w) = G
  BY <1>2 DEF RvalueSwizzle
<1>4. Chosen(ComponentsOf(v, w), src) = G
  <2> DEFINE at == [p \in Places(<<Len(w)>>) |-> v \o <<w[p[1] + 1]>>]
  <2>1. ComponentsOf(v, w).at = at
    BY DEF ComponentsOf
  <2> QED BY <2>1 DEF Chosen
<1>5. ASSUME NEW i \in Nat, i < Len(w)
      PROVE  G[<<i>>] = src[v \o <<w[i + 1]>>]
  <2>1. <<i>> \in Places(<<Len(w)>>)
    <3>1. Len(w) \in Nat
      OBVIOUS
    <3> QED BY <1>5, <3>1, PlacesOfVector
  <2>2. <<i>>[1] = i
    OBVIOUS
  <2> QED BY <2>1, <2>2
<1> HIDE DEF F
<1>6. DOMAIN G = Places(<<Len(w)>>)
  OBVIOUS
<1> HIDE DEF G
<1> QED BY <1>3, <1>4, <1>5, <1>6

\* What is pending is taken from the vector, or whatever was found at the address.
Taken(c, whole) ==
  LET chosen == IF c.swizzle = <<>> THEN whole ELSE RvalueSwizzle(whole, c.swizzle)
  IN  IF c.component = NoComponent THEN chosen ELSE At(chosen, <<c.component.value>>)

LEMMA TakenIs ==
  ASSUME NEW T, Type(T), NEW S, NEW c, Denotes(c, T, S), ~ One(c, T, S), NEW src
  PROVE  Taken(c, Below(src, Path(c.indexChain), Left(c, T))) = Chosen(S, src)
<1> DEFINE v == Path(c.indexChain)
           V == Left(c, T)
           W == Below(src, v, V)
<1>1. Leads(c, T)
  BY DEF Denotes
<1>2. v \in Seq(Nat)
  BY <1>1, VectorLeft
<1>3. OnVector(c, T) => V = <<V[1]>> /\ V[1] \in Nat /\ V[1] > 1
  BY <1>1, VectorLeft DEF OnVector
<1>4. CASE Plain(c, T, S)
  BY <1>4, ChosenUnder DEF Plain, Taken
<1>5. ASSUME OnVector(c, T), Len(c.swizzle) > 1
      PROVE  /\ RvalueSwizzle(W, c.swizzle) = Chosen(ComponentsOf(v, c.swizzle), src)
             /\ DOMAIN RvalueSwizzle(W, c.swizzle) = Places(<<Len(c.swizzle)>>)
             /\ \A i \in Nat : i < Len(c.swizzle) =>
                  RvalueSwizzle(W, c.swizzle)[<<i>>] = src[v \o <<c.swizzle[i + 1]>>]
             /\ c.swizzle # <<>> /\ Len(c.swizzle) \in Nat
  <2> DEFINE w == c.swizzle
             n == V[1]
  <2>1. w \in Seq(Nat) /\ (\A i \in 1 .. Len(w) : w[i] < n)
    BY <1>5 DEF OnVector
  <2>2. Len(w) \in Nat /\ Len(w) # 1 /\ w # <<>>
    <3>1. Len(w) \in Nat
      BY <2>1
    <3>2. Len(<<>>) = 0
      OBVIOUS
    <3>3. Len(w) # 1 /\ Len(w) # 0
      BY <1>5, <3>1, MoreThanOne
    <3> QED BY <3>1, <3>2, <3>3
  <2>3. n \in Nat /\ W = Below(src, v, <<n>>)
    BY <1>3, <1>5
  <2> HIDE DEF w, n, W, v
  <2>4. /\ RvalueSwizzle(Below(src, v, <<n>>), w) = Chosen(ComponentsOf(v, w), src)
        /\ DOMAIN RvalueSwizzle(Below(src, v, <<n>>), w) = Places(<<Len(w)>>)
        /\ \A i \in Nat : i < Len(w) =>
             RvalueSwizzle(Below(src, v, <<n>>), w)[<<i>>] = src[v \o <<w[i + 1]>>]
    BY <1>2, <2>1, <2>2, <2>3, ChosenOf
  <2> QED BY <2>2, <2>3, <2>4 DEF w
<1>6. CASE Many(c, T, S)
  <2>1. OnVector(c, T) /\ Len(c.swizzle) > 1 /\ c.component = NoComponent
        /\ S = ComponentsOf(v, c.swizzle)
    BY <1>6 DEF Many
  <2> HIDE DEF W
  <2> QED BY <1>5, <2>1 DEF Taken, W
<1>7. CASE Indexed(c, T, S)
  <2>1. PICK i \in Nat : i < V[1] /\ c.component = Dynamic(i) /\ S = Under(v \o <<i>>, <<>>)
    BY <1>7 DEF Indexed
  <2>2. c.swizzle = <<>> /\ OnVector(c, T)
    BY <1>7 DEF Indexed
  <2>3. Dynamic(i).value = i /\ Dynamic(i) # NoComponent
    BY Entries
  <2>4. Taken(c, W) = At(W, <<i>>)
    BY <2>1, <2>2, <2>3 DEF Taken
  <2> DEFINE n == V[1]
  <2>5. n \in Nat /\ V = <<n>>
    BY <1>3, <2>2
  <2>6. DOMAIN W = Places(<<n>>)
    <3> HIDE DEF n, v, V
    <3> QED BY <2>5 DEF Below
  <2>7. <<i>> \in Places(<<n>>)
    <3> HIDE DEF n
    <3> QED BY <2>1, <2>5, PlacesOfVector DEF n
  <2>8. W[<<i>>] = src[v \o <<i>>]
    <3> HIDE DEF n, v, V
    <3> QED BY <2>5, <2>7 DEF Below
  <2> HIDE DEF W
  <2>9. At(W, <<i>>) = Single(W[<<i>>])
    <3>1. i < n
      BY <2>1
    <3> HIDE DEF n
    <3> QED BY <2>5, <2>6, <3>1, ComponentOf
  <2>10. Chosen(S, src) = Single(src[v \o <<i>>])
    BY <1>2, <2>1, ChosenScalar
  <2> QED BY <2>4, <2>8, <2>9, <2>10 DEF W
<1>8. CASE ManyIndexed(c, T, S)
  <2>1. PICK i \in Nat : /\ i < Len(c.swizzle) /\ c.component = Dynamic(i)
                         /\ S = Under(v \o <<c.swizzle[i + 1]>>, <<>>)
    BY <1>8 DEF ManyIndexed
  <2>2. OnVector(c, T) /\ Len(c.swizzle) > 1
    BY <1>8 DEF ManyIndexed
  <2> DEFINE F == RvalueSwizzle(W, c.swizzle)
             j == c.swizzle[i + 1]
  <2>3. /\ DOMAIN F = Places(<<Len(c.swizzle)>>)
        /\ F[<<i>>] = src[v \o <<j>>]
        /\ c.swizzle # <<>> /\ Len(c.swizzle) \in Nat
    <3> HIDE DEF W
    <3> QED BY <1>5, <2>1, <2>2
  <2>4. Dynamic(i).value = i /\ Dynamic(i) # NoComponent
    BY Entries
  <2>5. Taken(c, W) = At(F, <<i>>)
    <3> HIDE DEF W
    <3> QED BY <2>1, <2>3, <2>4 DEF Taken
  <2> HIDE DEF F
  <2>6. At(F, <<i>>) = Single(F[<<i>>])
    BY <2>1, <2>3, ComponentOf
  <2>7. j \in Nat
    <3>1. i + 1 \in 1 .. Len(c.swizzle)
      BY <2>1, <2>3
    <3> QED BY <2>2, <3>1, ElementOfSeq DEF OnVector
  <2>8. Chosen(S, src) = Single(src[v \o <<j>>])
    BY <1>2, <2>1, <2>7, ChosenScalar
  <2> QED BY <2>3, <2>5, <2>6, <2>8
<1> HIDE DEF v, V
<1> QED BY <1>4, <1>6, <1>7, <1>8 DEF Denotes, v, V


(* An address read gives what lies below it.                                 *)
LEMMA ReadAt ==
  ASSUME NEW T, Type(T), NEW c, Leads(c, T), NEW src, DOMAIN src = Places(T)
  PROVE  At(src, Path(c.indexChain)) = Below(src, Path(c.indexChain), Left(c, T))
<1> DEFINE v == Path(c.indexChain)
<1>1. T \in Seq(Nat) /\ Starts(v, T) /\ Left(c, T) = Rest(T, Len(v))
  BY VectorLeft DEF Leads, Left
<1> HIDE DEF v
<1>2. At(src, v) = Below(src, v, Rest(T, Len(v)))
  BY <1>1, AtIs
<1> QED BY <1>1, <1>2 DEF v

WithoutRValue(c) == [c EXCEPT !.isRValue = FALSE]
LEMMA WithoutRValueIs ==
  ASSUME NEW c, Chain(c)
  PROVE  LET e == WithoutRValue(c) IN
         /\ e.indexChain = c.indexChain /\ Chain(e) /\ e.swizzle = c.swizzle
         /\ e.component = c.component /\ e.instr = c.instr /\ e.base = c.base
         /\ e.isRValue = FALSE
<1> SUFFICES ASSUME NEW e, e = WithoutRValue(c)
             PROVE  /\ e.indexChain = c.indexChain /\ Chain(e) /\ e.swizzle = c.swizzle
                    /\ e.component = c.component /\ e.instr = c.instr /\ e.base = c.base
                    /\ e.isRValue = FALSE
  OBVIOUS
<1>1. e = [base |-> c.base, indexChain |-> c.indexChain, instr |-> c.instr,
           swizzle |-> c.swizzle, component |-> c.component,
           preSwizzleBaseType |-> c.preSwizzleBaseType, isRValue |-> FALSE]
  BY DEF Chain, WithoutRValue
<1> QED BY <1>1 DEF Chain

LEMMA WithoutRValueDenotes ==
  ASSUME NEW T, NEW S, NEW c, Denotes(c, T, S), ~ One(c, T, S)
  PROVE  /\ Denotes(WithoutRValue(c), T, S) /\ ~ One(WithoutRValue(c), T, S)
         /\ WithoutRValue(c).instr = c.instr /\ WithoutRValue(c).isRValue = FALSE
<1> DEFINE e == WithoutRValue(c)
<1> HIDE DEF e
<1>1. Leads(c, T) /\ Chain(c)
  BY DEF Denotes, Leads
<1>2. /\ e.indexChain = c.indexChain /\ Chain(e) /\ e.swizzle = c.swizzle
      /\ e.component = c.component /\ e.instr = c.instr /\ e.base = c.base
      /\ e.isRValue = FALSE
  BY <1>1, WithoutRValueIs DEF e
<1>3. Leads(e, T) /\ Left(e, T) = Left(c, T)
  BY <1>1, <1>2 DEF Leads, Left
<1>4. OnVector(e, T) <=> OnVector(c, T)
  BY <1>2, <1>3 DEF OnVector
<1>5. /\ Plain(e, T, S) <=> Plain(c, T, S)
      /\ One(e, T, S) <=> One(c, T, S)
      /\ Many(e, T, S) <=> Many(c, T, S)
  BY <1>2, <1>3, <1>4 DEF Plain, One, Many
<1>6. Indexed(e, T, S) <=> Indexed(c, T, S)
  BY <1>2, <1>3, <1>4 DEF Indexed
<1>7. ManyIndexed(e, T, S) <=> ManyIndexed(c, T, S)
  BY <1>2, <1>3, <1>4 DEF ManyIndexed
<1>8. Denotes(e, T, S) /\ ~ One(e, T, S)
  BY <1>2, <1>3, <1>5, <1>6, <1>7 DEF Denotes
<1> QED BY <1>2, <1>8 DEF e

(* A load gives what the chain selects, and leaves it resolved.              *)
LEMMA LoadIs ==
  ASSUME NEW T, Type(T), NEW S, NEW c, Denotes(c, T, S), c.instr = NoInstr, c.isRValue \in BOOLEAN,
         NEW from, NEW src, src = IF c.isRValue THEN c.base ELSE from, DOMAIN src = Places(T)
  PROVE  /\ AccessChainLoad(c, from).value = Chosen(S, src)
         /\ ~ c.isRValue => Resolved(AccessChainLoad(c, from).chain, T, S)
<1> DEFINE t == TransferSwizzle(c, ~ c.isRValue)
           inRegisters == c.isRValue /\ \A i \in DOMAIN t.indexChain : t.indexChain[i].constant
           d == IF inRegisters THEN t ELSE CollapseAccessChain([t EXCEPT !.isRValue = FALSE])
           whole == IF inRegisters
                    THEN At(c.base, [i \in DOMAIN t.indexChain |-> t.indexChain[i].value])
                    ELSE Loaded(d, src)
<1>1. Denotes(t, T, S) /\ ~ One(t, T, S) /\ t.instr = NoInstr
  <2> DEFINE y == ~ c.isRValue
  <2>1. y \in BOOLEAN /\ t = TransferSwizzle(c, y)
    OBVIOUS
  <2> HIDE DEF y, t
  <2> QED BY <2>1, Transferred
<1>2. AccessChainLoad(c, from).chain = d /\ AccessChainLoad(c, from).value = Taken(d, whole)
  BY DEF AccessChainLoad, Taken
<1> HIDE DEF t
<1>3. CASE inRegisters
  <2>1. d = t /\ src = c.base
    BY <1>3
  <2>2. whole = At(src, Path(t.indexChain))
    BY <1>3, <2>1 DEF Path
  <2>3. whole = Below(src, Path(d.indexChain), Left(d, T))
    BY <1>1, <2>1, <2>2, ReadAt DEF Denotes
  <2>4. Taken(d, whole) = Chosen(S, src)
    <3> HIDE DEF whole, d, inRegisters
    <3> QED BY <1>1, <2>1, <2>3, TakenIs
  <2> QED BY <1>2, <1>3, <2>4
<1>4. CASE ~ inRegisters
  <2> DEFINE e == WithoutRValue(t)
  <2>1. d = CollapseAccessChain(e)
    BY <1>4 DEF WithoutRValue
  <2>2. Denotes(e, T, S) /\ ~ One(e, T, S) /\ e.instr = NoInstr
    BY <1>1, WithoutRValueDenotes
  <2>3. whole = At(src, d.instr)
    BY <1>4 DEF Loaded
  <2> HIDE DEF e, d, whole, inRegisters
  <2>4. Resolved(d, T, S)
    BY <2>1, <2>2, Collapsed
  <2>5. Leads(d, T) /\ d.instr = Path(d.indexChain) /\ Denotes(d, T, S) /\ ~ One(d, T, S)
    <3>1. Leads(d, T) /\ d.instr = Path(d.indexChain) /\ (Plain(d, T, S) \/ Many(d, T, S))
      BY <2>4 DEF Resolved
    <3>2. Len(d.swizzle) # 1
      BY <2>4, ResolvedStays
    <3> QED BY <3>1, <3>2 DEF Denotes, One
  <2>6. whole = Below(src, Path(d.indexChain), Left(d, T))
    BY <2>3, <2>5, ReadAt
  <2>7. Taken(d, whole) = Chosen(S, src)
    BY <2>5, <2>6, TakenIs
  <2> QED BY <1>2, <2>4, <2>7
<1> QED BY <1>3, <1>4


-----------------------------------------------------------------------------
(* A store.                                                                  *)

(* What an assignment to a selection does to a place.                        *)
LEMMA AssignedAt ==
  ASSUME NEW S, NEW into, NEW value, NEW q \in DOMAIN into
  PROVE  /\ \A p \in DOMAIN S.at : LValue(S) /\ S.at[p] = q => Assigned(S, into, value)[q] = value[p]
         /\ (\A p \in DOMAIN S.at : S.at[p] # q) => Assigned(S, into, value)[q] = into[q]
<1>1. ASSUME NEW p \in DOMAIN S.at, LValue(S), S.at[p] = q
      PROVE  Assigned(S, into, value)[q] = value[p]
  <2> DEFINE r == CHOOSE r \in DOMAIN S.at : S.at[r] = q
  <2>1. r \in DOMAIN S.at /\ S.at[r] = q
    BY <1>1
  <2>2. r = p
    BY <1>1, <2>1 DEF LValue
  <2>3. Assigned(S, into, value)[q] = value[r]
    BY <1>1 DEF Assigned
  <2> HIDE DEF r
  <2> QED BY <2>2, <2>3
<1>2. ASSUME \A p \in DOMAIN S.at : S.at[p] # q
      PROVE  Assigned(S, into, value)[q] = into[q]
  BY <1>2 DEF Assigned
<1> QED BY <1>1, <1>2

LEMMA AssignedIs ==
  ASSUME NEW S, NEW into, NEW value, NEW F, LValue(S),
         \A q \in DOMAIN into :
           \/ \E p \in DOMAIN S.at : S.at[p] = q /\ F[q] = value[p]
           \/ (\A p \in DOMAIN S.at : S.at[p] # q) /\ F[q] = into[q],
         F = [q \in DOMAIN into |-> F[q]]
  PROVE  F = Assigned(S, into, value)
<1> DEFINE G == Assigned(S, into, value)
<1>1. \A q \in DOMAIN into : F[q] = G[q]
  <2> TAKE q \in DOMAIN into
  <2>1. CASE \E p \in DOMAIN S.at : S.at[p] = q /\ F[q] = value[p]
    BY <2>1, AssignedAt
  <2>2. CASE (\A p \in DOMAIN S.at : S.at[p] # q) /\ F[q] = into[q]
    BY <2>2, AssignedAt
  <2> QED BY <2>1, <2>2
<1>2. G = [q \in DOMAIN into |-> G[q]]
  BY DEF Assigned
<1> HIDE DEF G
<1>3. F = G
  BY <1>1, <1>2
<1> QED BY <1>3 DEF G

(* The places a selection is of.                                             *)
LEMMA SelectionPlaces ==
  ASSUME NEW v, NEW V, NEW w
  PROVE  /\ DOMAIN Under(v, V).at = Places(V)
         /\ \A p \in Places(V) : Under(v, V).at[p] = v \o p
         /\ DOMAIN ComponentsOf(v, w).at = Places(<<Len(w)>>)
         /\ \A p \in Places(<<Len(w)>>) : ComponentsOf(v, w).at[p] = v \o <<w[p[1] + 1]>>
BY DEF Under, ComponentsOf

LEMMA LastOf ==
  ASSUME NEW v \in Seq(Nat), NEW i \in Nat, NEW j \in Nat, v \o <<i>> = v \o <<j>>
  PROVE  i = j
BY Longer

(* A store through the address, of a value or of a vector built from one.    *)
LEMMA StoreResolved ==
  ASSUME NEW T, Type(T), NEW S, NEW e, Resolved(e, T, S), LValue(S),
         NEW into, DOMAIN into = Places(T), NEW value
  PROVE  Stored(e, into, IF e.swizzle = <<>> THEN value
                         ELSE LvalueSwizzle(Loaded(e, into), value, e.swizzle))
           = Assigned(S, into, value)
<1> DEFINE v == Path(e.indexChain)
           V == Left(e, T)
           new == IF e.swizzle = <<>> THEN value
                  ELSE LvalueSwizzle(Loaded(e, into), value, e.swizzle)
           F == Stored(e, into, new)
           below(q) == SubSeq(q, Len(v) + 1, Len(q))
<1>1. Leads(e, T) /\ e.instr = v /\ (Plain(e, T, S) \/ Many(e, T, S))
  BY DEF Resolved
<1>2. v \in Seq(Nat) /\ T \in Seq(Nat) /\ Starts(v, T) /\ V = Rest(T, Len(v)) /\ V \in Seq(Nat)
  BY <1>1, VectorLeft DEF Leads, Left
<1>3. /\ F = [q \in DOMAIN into |-> F[q]]
      /\ \A q \in DOMAIN into : F[q] = IF IsPrefix(v, q) THEN new[below(q)] ELSE into[q]
  <2> HIDE DEF new, v
  <2> QED BY <1>1 DEF Stored
<1>4. \A q \in Places(T) : IsPrefix(v, q) => below(q) \in Places(V) /\ v \o below(q) = q
  <2> HIDE DEF v, V
  <2> QED BY <1>2, Split
<1>5. \A p \in Places(V) : v \o p \in Places(T) /\ IsPrefix(v, v \o p)
  <2> HIDE DEF v, V
  <2> QED BY <1>2, Join
<1>6. CASE Plain(e, T, S)
  <2>1. new = value /\ S = Under(v, V)
    BY <1>6 DEF Plain
  <2>2. DOMAIN S.at = Places(V) /\ \A p \in Places(V) : S.at[p] = v \o p
    <3> HIDE DEF v, V
    <3> QED BY <2>1, SelectionPlaces
  <2> HIDE DEF new, F, v, V
  <2>3. \A q \in DOMAIN into :
           \/ \E p \in DOMAIN S.at : S.at[p] = q /\ F[q] = value[p]
           \/ (\A p \in DOMAIN S.at : S.at[p] # q) /\ F[q] = into[q]
    <3> TAKE q \in DOMAIN into
    <3>1. CASE IsPrefix(v, q)
      <4>1. below(q) \in DOMAIN S.at /\ S.at[below(q)] = q
        BY <1>4, <2>2, <3>1
      <4>2. F[q] = value[below(q)]
        BY <1>3, <2>1, <3>1
      <4> QED BY <4>1, <4>2
    <3>2. CASE ~ IsPrefix(v, q)
      <4>1. \A p \in DOMAIN S.at : S.at[p] # q
        BY <1>5, <2>2, <3>2
      <4> QED BY <1>3, <3>2, <4>1
    <3> QED BY <3>1, <3>2
  <2> QED BY <1>3, <2>3, AssignedIs DEF F, new
<1>7. CASE Many(e, T, S)
  <2> DEFINE w == e.swizzle
             n == V[1]
             W == Loaded(e, into)
  <2>1. /\ S = ComponentsOf(v, w) /\ Len(V) = 1 /\ w \in Seq(Nat) /\ Len(w) > 1
        /\ \A i \in 1 .. Len(w) : w[i] < n
    BY <1>7 DEF Many, OnVector
  <2>2. V = <<n>> /\ n \in Nat
    BY <1>1, <2>1, VectorLeft
  <2>3. w # <<>> /\ Len(w) \in Nat
    <3>1. Len(<<>>) = 0 /\ Len(w) \in Nat
      BY <2>1
    <3>2. Len(w) # 0
      <4> HIDE DEF w
      <4> QED BY <2>1, <3>1, MoreThanOne
    <3> QED BY <3>1, <3>2
  <2>4. new = LvalueSwizzle(W, value, w)
    BY <2>3
  <2>5. DOMAIN S.at = Places(<<Len(w)>>) /\ \A p \in Places(<<Len(w)>>) : S.at[p] = v \o <<w[p[1] + 1]>>
    <3> HIDE DEF v, w
    <3> QED BY <2>1, SelectionPlaces
  <2>6. W = Below(into, v, V)
    BY <1>1, ReadAt DEF Loaded
  <2>7. DOMAIN W = Places(<<n>>) /\ \A x \in Nat : x < n => <<x>> \in DOMAIN W /\ W[<<x>>] = into[v \o <<x>>]
    <3>1. DOMAIN W = Places(<<n>>)
      BY <2>2, <2>6 DEF Below
    <3>2. \A x \in Nat : x < n => <<x>> \in Places(<<n>>)
      <4> HIDE DEF n
      <4> QED BY <2>2, PlacesOfVector
    <3> HIDE DEF W, v, n, V
    <3> QED BY <2>2, <2>6, <3>1, <3>2 DEF Below
  <2>8. ASSUME NEW p \in Places(<<Len(w)>>)
        PROVE  /\ p[1] \in Nat /\ p[1] + 1 \in 1 .. Len(w) /\ w[p[1] + 1] \in Nat /\ w[p[1] + 1] < n
               /\ p = <<p[1]>>
    <3>1. p[1] \in Nat /\ p[1] < Len(w) /\ p = <<p[1]>>
      <4> HIDE DEF w
      <4> QED BY <2>3, PlacesOfVector
    <3>2. p[1] + 1 \in 1 .. Len(w)
      <4> HIDE DEF w
      <4> QED BY <2>3, <3>1
    <3> QED BY <2>1, <3>1, <3>2, ElementOfSeq
  <2> HIDE DEF new, F, v, V, w, n, W
  <2>9. ASSUME NEW q \in DOMAIN into
        PROVE  \/ \E p \in DOMAIN S.at : S.at[p] = q /\ F[q] = value[p]
               \/ (\A p \in DOMAIN S.at : S.at[p] # q) /\ F[q] = into[q]
    <3>1. CASE IsPrefix(v, q)
      <4>1. below(q) \in Places(<<n>>) /\ v \o below(q) = q
        BY <1>4, <2>2, <3>1
      <4> DEFINE x == below(q)[1]
      <4>2. x \in Nat /\ x < n /\ below(q) = <<x>>
        BY <2>2, <4>1, PlacesOfVector
      <4> HIDE DEF x
      <4>3. F[q] = new[<<x>>] /\ q = v \o <<x>>
        BY <1>3, <3>1, <4>1, <4>2
      <4>4. new[<<x>>] = IF \E i \in DOMAIN w : w[i] = <<x>>[1]
                         THEN value[<<(CHOOSE i \in DOMAIN w : w[i] = <<x>>[1]) - 1>>]
                         ELSE W[<<x>>]
        BY <2>4, <2>7, <4>2 DEF LvalueSwizzle
      <4>5. <<x>>[1] = x /\ DOMAIN w = 1 .. Len(w)
        BY <2>1
      <4>6. CASE \E i \in DOMAIN w : w[i] = x
        <5> DEFINE i == CHOOSE i \in DOMAIN w : w[i] = x
        <5>1. i \in 1 .. Len(w) /\ w[i] = x
          BY <4>5, <4>6
        <5>2. new[<<x>>] = value[<<i - 1>>]
          BY <4>4, <4>5, <4>6
        <5> HIDE DEF i
        <5>3. i - 1 \in Nat /\ i - 1 < Len(w) /\ (i - 1) + 1 = i
          BY <2>3, <5>1
        <5>4. <<i - 1>> \in Places(<<Len(w)>>) /\ <<i - 1>>[1] = i - 1
          BY <2>3, <5>3, PlacesOfVector
        <5>5. S.at[<<i - 1>>] = q
          BY <2>5, <4>3, <5>1, <5>3, <5>4
        <5> QED BY <2>5, <4>3, <5>2, <5>4, <5>5
      <4>7. CASE ~ \E i \in DOMAIN w : w[i] = x
        <5>1. F[q] = into[q]
          BY <2>7, <4>2, <4>3, <4>4, <4>5, <4>7
        <5>2. ASSUME NEW p \in DOMAIN S.at, S.at[p] = q
              PROVE  FALSE
          <6>1. v \o <<w[p[1] + 1]>> = v \o <<x>> /\ p \in Places(<<Len(w)>>)
            BY <2>5, <4>3, <5>2
          <6>2. w[p[1] + 1] = x
            BY <1>2, <2>8, <4>2, <6>1, LastOf
          <6> QED BY <2>8, <4>5, <4>7, <6>1, <6>2
        <5> QED BY <5>1, <5>2
      <4> QED BY <4>6, <4>7
    <3>2. CASE ~ IsPrefix(v, q)
      <4>1. ASSUME NEW p \in DOMAIN S.at, S.at[p] = q
            PROVE  FALSE
        <5>1. p \in Places(<<Len(w)>>) /\ q = v \o <<w[p[1] + 1]>>
          BY <2>5, <4>1
        <5>2. <<w[p[1] + 1]>> \in Places(V)
          BY <2>2, <2>8, <5>1, PlacesOfVector
        <5> QED BY <1>5, <3>2, <5>1, <5>2
      <4> QED BY <1>3, <3>2, <4>1
    <3> QED BY <3>1, <3>2
  <2> QED BY <1>3, <2>9, AssignedIs DEF F, new
<1> QED BY <1>1, <1>6, <1>7


(* The store of one component: the chain is extended, and goes back.         *)
Extended(c, x) == [Reset(c) EXCEPT !.indexChain = Append(@, x)]
LEMMA ExtendedIs ==
  ASSUME NEW c, Chain(c), NEW x
  PROVE  LET e == Extended(c, x) IN
         /\ e.indexChain = Append(c.indexChain, x) /\ Chain(e) /\ e.swizzle = c.swizzle
         /\ e.component = c.component /\ e.instr = NoInstr /\ e.base = c.base
         /\ e.isRValue = c.isRValue /\ e.preSwizzleBaseType = c.preSwizzleBaseType
<1> SUFFICES ASSUME NEW e, e = Extended(c, x)
             PROVE  /\ e.indexChain = Append(c.indexChain, x) /\ Chain(e) /\ e.swizzle = c.swizzle
                    /\ e.component = c.component /\ e.instr = NoInstr /\ e.base = c.base
                    /\ e.isRValue = c.isRValue /\ e.preSwizzleBaseType = c.preSwizzleBaseType
  OBVIOUS
<1>1. e = [base |-> c.base, indexChain |-> Append(c.indexChain, x), instr |-> NoInstr,
           swizzle |-> c.swizzle, component |-> c.component,
           preSwizzleBaseType |-> c.preSwizzleBaseType, isRValue |-> c.isRValue]
  BY DEF Chain, Extended, Reset
<1> QED BY <1>1 DEF Chain

Shortened(c) == [Reset(c) EXCEPT !.indexChain = Front(@)]
LEMMA ShortenedIs ==
  ASSUME NEW c, Chain(c), NEW o, Chain(o), Front(c.indexChain) = o.indexChain,
         c.swizzle = o.swizzle, c.component = o.component, c.base = o.base,
         c.isRValue = o.isRValue, c.preSwizzleBaseType = o.preSwizzleBaseType
  PROVE  Shortened(c) = Reset(o)
<1>1. Shortened(c) = [base |-> c.base, indexChain |-> Front(c.indexChain), instr |-> NoInstr,
                      swizzle |-> c.swizzle, component |-> c.component,
                      preSwizzleBaseType |-> c.preSwizzleBaseType, isRValue |-> c.isRValue]
  <2> SUFFICES ASSUME NEW e, e = Shortened(c), NEW f, f = Reset(c)
               PROVE  e = [base |-> c.base, indexChain |-> Front(c.indexChain), instr |-> NoInstr,
                           swizzle |-> c.swizzle, component |-> c.component,
                           preSwizzleBaseType |-> c.preSwizzleBaseType, isRValue |-> c.isRValue]
    OBVIOUS
  <2>1. f = [base |-> c.base, indexChain |-> c.indexChain, instr |-> NoInstr,
             swizzle |-> c.swizzle, component |-> c.component,
             preSwizzleBaseType |-> c.preSwizzleBaseType, isRValue |-> c.isRValue]
    BY DEF Chain, Reset
  <2>2. e = [f EXCEPT !.indexChain = Front(@)]
    BY DEF Shortened
  <2> QED BY <2>1, <2>2
<1>2. Reset(o) = [base |-> o.base, indexChain |-> o.indexChain, instr |-> NoInstr,
                  swizzle |-> o.swizzle, component |-> o.component,
                  preSwizzleBaseType |-> o.preSwizzleBaseType, isRValue |-> o.isRValue]
  BY DEF Chain, Reset
<1> QED BY <1>1, <1>2

LEMMA ResetIs ==
  ASSUME NEW c, Chain(c)
  PROVE  /\ Reset(c).indexChain = c.indexChain /\ Chain(Reset(c)) /\ Reset(c).swizzle = c.swizzle
         /\ Reset(c).component = c.component /\ Reset(c).instr = NoInstr /\ Reset(c).base = c.base
         /\ Reset(c).isRValue = c.isRValue /\ Reset(c).preSwizzleBaseType = c.preSwizzleBaseType
         /\ Reset(Reset(c)) = Reset(c)
<1> DEFINE e == Reset(c)
<1>1. e = [base |-> c.base, indexChain |-> c.indexChain, instr |-> NoInstr,
           swizzle |-> c.swizzle, component |-> c.component,
           preSwizzleBaseType |-> c.preSwizzleBaseType, isRValue |-> c.isRValue]
  BY DEF Chain, Reset
<1> HIDE DEF e
<1>2. Chain(e) /\ e.instr = NoInstr
  BY <1>1 DEF Chain
<1>3. Reset(e) = e
  BY <1>1 DEF Reset
<1> QED BY <1>1, <1>2, <1>3 DEF e

(* A store to a place changes that place.                                    *)
Put(o, T, u, y) == [q \in Places(T) |-> IF q = u THEN y ELSE o[q]]
LEMMA PlaceStored ==
  ASSUME NEW T \in Seq(Nat), NEW u \in Places(T), NEW c, c.instr = u,
         NEW into, DOMAIN into = Places(T), NEW y
  PROVE  Stored(c, into, Single(y)) = Put(into, T, u, y)
<1> DEFINE below(q) == SubSeq(q, Len(u) + 1, Len(q))
<1>1. u \in Seq(Nat) /\ Len(u) = Len(T) /\ Starts(u, T) /\ Len(T) \in Nat
  <2>1. u \in Seq(Nat) /\ Len(u) = Len(T) /\ \A k \in 1 .. Len(T) : u[k] < T[k]
    BY PlaceIs
  <2> QED BY <2>1 DEF Starts
<1>2. Rest(T, Len(u)) = <<>>
  <2>1. Len(T) < Len(u) + 1
    BY <1>1
  <2> QED BY <1>1, <2>1, SubSeqEmpty DEF Rest
<1>3. ASSUME NEW q \in Places(T), IsPrefix(u, q)
      PROVE  q = u /\ below(q) = <<>>
  <2>1. below(q) \in Places(<<>>) /\ u \o below(q) = q
    BY <1>1, <1>2, <1>3, Split
  <2>2. below(q) = <<>>
    BY <2>1, PlacesOfScalar
  <2>3. u \o <<>> = u
    BY <1>1, ConcatEmptySeq
  <2> QED BY <2>1, <2>2, <2>3
<1>4. IsPrefix(u, u)
  BY <1>1 DEF IsPrefix
<1>5. \A q \in Places(T) : IsPrefix(u, q) <=> q = u
  BY <1>3, <1>4
<1>6. Single(y)[<<>>] = y
  BY PlacesOfScalar DEF Single
<1>7. ASSUME NEW q \in Places(T)
      PROVE  (IF IsPrefix(u, q) THEN Single(y)[below(q)] ELSE into[q]) = IF q = u THEN y ELSE into[q]
  <2>1. CASE q = u
    <3>1. IsPrefix(u, q) /\ below(q) = <<>>
      BY <1>3, <1>4, <2>1
    <3> HIDE DEF below
    <3> QED BY <1>6, <2>1, <3>1
  <2>2. CASE q # u
    BY <1>5, <2>2
  <2> QED BY <2>1, <2>2
<1>8. Stored(c, into, Single(y)) = [q \in Places(T) |-> IF IsPrefix(u, q) THEN Single(y)[below(q)] ELSE into[q]]
  BY DEF Stored
<1> HIDE DEF below
<1> QED BY <1>7, <1>8 DEF Put

(* The chain as it is or as one store left it, and what one more does.       *)
LEMMA OneStored ==
  ASSUME NEW T, Type(T), NEW S, NEW d, Leads(d, T), Many(d, T, S),
         NEW s, s.chain = d \/ s.chain = Reset(d), DOMAIN s.object = Places(T),
         NEW value, DOMAIN value = Places(<<Len(d.swizzle)>>), NEW i \in 1 .. Len(d.swizzle)
  PROVE  LET u == Path(d.indexChain) \o <<d.swizzle[i]>> IN
         /\ u \in Places(T)
         /\ ComponentStore(i, value, s)
              = [object |-> Put(s.object, T, u, value[<<i - 1>>]), chain |-> Reset(d)]
<1> DEFINE x == Constant(d.swizzle[i])
           v == Path(d.indexChain)
           u == v \o <<d.swizzle[i]>>
           b == Extended(s.chain, x)
           c == CollapseAccessChain(b)
<1>1. Chain(d) /\ d.indexChain \in Seq(Entry) /\ T \in Seq(Nat)
  BY VectorLeft DEF Leads
<1>2. /\ Len(Left(d, T)) = 1 /\ d.swizzle \in Seq(Nat) /\ Len(d.swizzle) > 1
      /\ \A k \in 1 .. Len(d.swizzle) : d.swizzle[k] < Left(d, T)[1]
      /\ d.component = NoComponent
  BY DEF Many, OnVector
<1>3. d.swizzle[i] \in Nat /\ d.swizzle[i] < Left(d, T)[1]
  BY <1>2, ElementOfSeq
<1>4. x \in Entry /\ x.value = d.swizzle[i]
  BY <1>3, Entries
<1>5. /\ Chain(s.chain) /\ s.chain.indexChain = d.indexChain /\ s.chain.swizzle = d.swizzle
      /\ s.chain.component = d.component /\ s.chain.base = d.base
      /\ s.chain.isRValue = d.isRValue /\ s.chain.preSwizzleBaseType = d.preSwizzleBaseType
  BY <1>1, ResetIs
<1> HIDE DEF x
<1>6. /\ b.indexChain = Append(d.indexChain, x) /\ Chain(b) /\ b.swizzle = d.swizzle
      /\ b.component = NoComponent /\ b.instr = NoInstr /\ b.base = d.base
      /\ b.isRValue = d.isRValue /\ b.preSwizzleBaseType = d.preSwizzleBaseType
  BY <1>2, <1>5, ExtendedIs
<1> HIDE DEF b
<1>7. Leads(b, T) /\ Left(b, T) = <<>> /\ Path(b.indexChain) = u
  BY <1>2, <1>3, <1>4, <1>6, LastIndex
<1>8. b.indexChain # <<>>
  <2>1. Len(Append(d.indexChain, x)) = Len(d.indexChain) + 1 /\ Len(d.indexChain) \in Nat /\ Len(<<>>) = 0
    BY <1>1, <1>4, PathPushed
  <2> DEFINE k == Len(d.indexChain)
  <2>2. k + 1 # 0
    <3>1. k \in Nat
      BY <2>1
    <3> HIDE DEF k
    <3> QED BY <3>1
  <2> QED BY <1>6, <2>1, <2>2
<1>9. c = WithInstr(b)
  <2>1. IndexComponent(RemapDynamicSwizzle(b)) = b
    BY <1>6 DEF RemapDynamicSwizzle, IndexComponent
  <2> QED BY <1>6, <1>8, <2>1 DEF CollapseAccessChain, WithInstr
<1> HIDE DEF c
<1>10. /\ c.indexChain = b.indexChain /\ Chain(c) /\ c.swizzle = b.swizzle
       /\ c.component = b.component /\ c.instr = u /\ c.base = b.base
       /\ c.isRValue = b.isRValue /\ c.preSwizzleBaseType = b.preSwizzleBaseType
  BY <1>6, <1>7, <1>9, WithInstrIs
<1>11. u \in Places(T)
  <2>1. Starts(u, T)
    BY <1>7 DEF Leads
  <2>2. Len(u) = Len(T)
    <3>1. /\ Len(Left(b, T)) = Len(T) - Len(b.indexChain) /\ Len(u) = Len(b.indexChain)
          /\ Len(b.indexChain) \in Nat /\ Len(T) \in Nat
      BY <1>1, <1>7, VectorLeft
    <3>2. Len(Left(b, T)) = 0
      <4>1. Len(<<>>) = 0
        OBVIOUS
      <4> QED BY <1>7, <4>1
    <3> QED BY <3>1, <3>2
  <2> HIDE DEF u
  <2> QED BY <1>1, <2>1, <2>2, PlaceIs DEF Starts
<1>12. At(value, <<i - 1>>) = Single(value[<<i - 1>>])
  <2>1. i - 1 \in Nat /\ i - 1 < Len(d.swizzle) /\ Len(d.swizzle) \in Nat
    BY <1>2
  <2> DEFINE j == i - 1
             m == Len(d.swizzle)
  <2>2. j \in Nat /\ j < m /\ m \in Nat /\ DOMAIN value = Places(<<m>>)
    BY <2>1
  <2> HIDE DEF j, m
  <2>3. At(value, <<j>>) = Single(value[<<j>>])
    BY <2>2, ComponentOf
  <2> QED BY <2>3 DEF j
<1>13. Stored(c, s.object, At(value, <<i - 1>>)) = Put(s.object, T, u, value[<<i - 1>>])
  <2> DEFINE y == value[<<i - 1>>]
  <2> HIDE DEF u, y
  <2>1. Stored(c, s.object, Single(y)) = Put(s.object, T, u, y)
    BY <1>1, <1>10, <1>11, PlaceStored
  <2> QED BY <1>12, <2>1 DEF y
<1>14. Shortened(c) = Reset(d)
  <2>1. Front(c.indexChain) = d.indexChain
    BY <1>1, <1>4, <1>6, <1>10, PathPushed
  <2>2. c.component = d.component
    BY <1>2, <1>6, <1>10
  <2> QED BY <1>1, <1>6, <1>10, <2>1, <2>2, ShortenedIs
<1>15. ComponentStore(i, value, s) = [object |-> Stored(c, s.object, At(value, <<i - 1>>)), chain |-> Shortened(c)]
  <2>1. s.chain.swizzle[i] = d.swizzle[i]
    BY <1>5
  <2>2. b = [Reset(s.chain) EXCEPT !.indexChain = Append(@, Constant(s.chain.swizzle[i]))]
    BY <2>1 DEF b, x, Extended
  <2> QED BY <2>2 DEF ComponentStore, c, Shortened
<1> QED BY <1>11, <1>13, <1>14, <1>15


(* The loop of stores, one component after another.                          *)
Stores(f, m, b, value) ==
  f = [n \in 0 .. m |-> IF n = 0 THEN b ELSE ComponentStore(n, value, f[n - 1])]
LEMMA SameStores ==
  ASSUME NEW m \in Nat, NEW b, NEW value, NEW f, NEW g, Stores(f, m, b, value), Stores(g, m, b, value)
  PROVE  f[m] = g[m]
<1> DEFINE B == {n \in 0 .. m : f[n] # g[n]}
           R == OpToRel(<, Nat)
<1>1. ASSUME B # {}
      PROVE  FALSE
  <2>1. IsWellFoundedOn(R, Nat)
    BY NatLessThanWellFounded DEF R
  <2>2. B \subseteq Nat
    OBVIOUS
  <2>3. PICK x \in B : \A y \in B : ~ (<<y, x>> \in R)
    <3> HIDE DEF B, R
    <3> QED BY <1>1, <2>1, <2>2, WFMin
  <2>4. x \in 0 .. m /\ f[x] # g[x]
    OBVIOUS
  <2>5. x # 0
    <3>1. 0 \in 0 .. m
      OBVIOUS
    <3>2. f[0] = b /\ g[0] = b
      BY <3>1 DEF Stores
    <3> QED BY <2>4, <3>2
  <2>6. x - 1 \in 0 .. m /\ x - 1 \in Nat /\ x \in Nat /\ x - 1 < x
    BY <2>4, <2>5
  <2>7. f[x - 1] = g[x - 1]
    <3>1. <<x - 1, x>> \in R
      BY <2>6 DEF R, OpToRel
    <3>2. x - 1 \notin B
      BY <2>3, <3>1
    <3> QED BY <2>6, <3>2
  <2>8. f[x] = ComponentStore(x, value, f[x - 1]) /\ g[x] = ComponentStore(x, value, g[x - 1])
    BY <2>4, <2>5 DEF Stores
  <2> QED BY <2>4, <2>7, <2>8
<1>2. m \in 0 .. m
  OBVIOUS
<1> QED BY <1>1, <1>2

LEMMA ComponentsStored ==
  ASSUME NEW T, Type(T), NEW S, NEW d, Leads(d, T), Many(d, T, S), LValue(S),
         NEW into, DOMAIN into = Places(T),
         NEW value, DOMAIN value = Places(<<Len(d.swizzle)>>)
  PROVE  ComponentStores(d, into, value) = Assigned(S, into, value)
<1> DEFINE w == d.swizzle
           m == Len(d.swizzle)
           v == Path(d.indexChain)
           u(j) == v \o <<w[j]>>
           after(n, q) == IF \E j \in 1 .. n : q = u(j)
                          THEN value[<<(CHOOSE j \in 1 .. m : q = u(j)) - 1>>] ELSE into[q]
           G(n) == [q \in Places(T) |-> after(n, q)]
           b == [object |-> into, chain |-> d]
           g == [n \in 0 .. m |-> IF n = 0 THEN b ELSE [object |-> G(n), chain |-> Reset(d)]]
           f == CHOOSE f : f = [n \in 0 .. m |-> IF n = 0 THEN b ELSE ComponentStore(n, value, f[n - 1])]
<1>1. m \in Nat /\ m > 1 /\ w \in Seq(Nat) /\ S = ComponentsOf(v, w) /\ DOMAIN w = 1 .. m
  BY DEF Many, OnVector
<1>2. DOMAIN S.at = Places(<<m>>) /\ \A p \in Places(<<m>>) : S.at[p] = v \o <<w[p[1] + 1]>>
  <2>1. m = Len(w)
    OBVIOUS
  <2> HIDE DEF v, w, m
  <2> QED BY <1>1, <2>1 DEF ComponentsOf
\* Each component is another place.
<1>3. ASSUME NEW j \in 1 .. m
      PROVE  j - 1 \in Nat /\ <<j - 1>> \in DOMAIN S.at /\ S.at[<<j - 1>>] = u(j)
  <2> DEFINE i == j - 1
  <2>1. i \in Nat /\ i < m /\ i + 1 = j
    BY <1>1
  <2> HIDE DEF i, m
  <2>2. <<i>> \in Places(<<m>>) /\ <<i>>[1] = i
    BY <1>1, <2>1, PlacesOfVector
  <2> HIDE DEF v, w
  <2> QED BY <1>2, <2>1, <2>2 DEF i
<1>4. \A j, k \in 1 .. m : u(j) = u(k) => j = k
  <2> TAKE j, k \in 1 .. m
  <2> HAVE u(j) = u(k)
  <2> DEFINE x == j - 1
             y == k - 1
  <2>1. x \in Nat /\ y \in Nat /\ <<x>> \in DOMAIN S.at /\ <<y>> \in DOMAIN S.at
        /\ S.at[<<x>>] = S.at[<<y>>]
    BY <1>3
  <2> HIDE DEF x, y
  <2>2. <<x>> = <<y>>
    BY <2>1 DEF LValue
  <2>3. x = y
    BY <2>2
  <2> QED BY <1>1, <2>3 DEF x, y
<1>5. ASSUME NEW j \in 1 .. m
      PROVE  (CHOOSE k \in 1 .. m : u(j) = u(k)) = j
  <2> DEFINE k == CHOOSE k \in 1 .. m : u(j) = u(k)
  <2>1. k \in 1 .. m /\ u(j) = u(k)
    OBVIOUS
  <2> HIDE DEF k
  <2>2. k = j
    BY <1>4, <2>1
  <2> QED BY <2>2 DEF k
<1>6. ASSUME NEW n \in Nat, NEW q
      PROVE  /\ \A j \in 1 .. n : n <= m /\ q = u(j) => after(n, q) = value[<<j - 1>>]
             /\ (\A j \in 1 .. n : q # u(j)) => after(n, q) = into[q]
  <2>1. ASSUME NEW j \in 1 .. n, n <= m, q = u(j)
        PROVE  after(n, q) = value[<<j - 1>>]
    <3>1. j \in 1 .. m
      BY <1>1, <2>1
    <3>2. (CHOOSE k \in 1 .. m : q = u(k)) = j
      BY <1>5, <2>1, <3>1
    <3> HIDE DEF u, m
    <3> QED BY <2>1, <3>2
  <2> HIDE DEF u, m
  <2> QED BY <2>1
<1> HIDE DEF after, u
<1>7. ASSUME NEW n \in 1 .. m
      PROVE  ComponentStore(n, value, g[n - 1]) = g[n]
  <2> DEFINE s == g[n - 1]
  <2>1. n - 1 \in 0 .. m /\ n \in 0 .. m /\ n # 0
    BY <1>1
  <2>2. /\ s.chain = d \/ s.chain = Reset(d)
        /\ DOMAIN s.object = Places(T)
        /\ \A q \in Places(T) : s.object[q] = after(n - 1, q)
    <3>1. CASE n - 1 = 0
      <4>1. s = b
        BY <2>1, <3>1
      <4>2. \A q : after(n - 1, q) = into[q]
        <5>1. \A j : j \notin 1 .. n - 1
          BY <3>1
        <5>2. n - 1 \in Nat
          BY <3>1
        <5> QED BY <1>6, <5>1, <5>2
      <4> QED BY <4>1, <4>2
    <3>2. CASE n - 1 # 0
      <4> DEFINE k == n - 1
      <4>1. k \in 0 .. m /\ k # 0
        BY <2>1, <3>2
      <4> HIDE DEF k, m
      <4>2. g[k] = [object |-> G(k), chain |-> Reset(d)]
        BY <4>1
      <4> HIDE DEF g
      <4> QED BY <4>2 DEF k
    <3> QED BY <3>1, <3>2
  <2> HIDE DEF s
  <2>3. /\ u(n) \in Places(T)
        /\ ComponentStore(n, value, s)
             = [object |-> Put(s.object, T, u(n), value[<<n - 1>>]), chain |-> Reset(d)]
    <3> DEFINE z == Path(d.indexChain) \o <<d.swizzle[n]>>
    <3>1. z \in Places(T)
          /\ ComponentStore(n, value, s) = [object |-> Put(s.object, T, z, value[<<n - 1>>]), chain |-> Reset(d)]
      BY <2>2, OneStored
    <3>2. z = u(n)
      BY DEF u
    <3> HIDE DEF z
    <3> QED BY <3>1, <3>2
  <2>4. ASSUME NEW q \in Places(T)
        PROVE  (IF q = u(n) THEN value[<<n - 1>>] ELSE s.object[q]) = after(n, q)
    <3>0. n \in Nat /\ n - 1 \in Nat /\ n <= m /\ n - 1 <= m /\ n \in 1 .. n
      BY <1>1
    <3>1. CASE q = u(n)
      BY <1>6, <3>0, <3>1
    <3>2. CASE q # u(n) /\ \E j \in 1 .. n - 1 : q = u(j)
      <4>1. PICK j \in 1 .. n - 1 : q = u(j)
        BY <3>2
      <4>2. j \in 1 .. n
        BY <3>0
      <4>3. after(n, q) = value[<<j - 1>>] /\ after(n - 1, q) = value[<<j - 1>>]
        BY <1>6, <3>0, <4>1, <4>2
      <4> QED BY <2>2, <3>2, <4>3
    <3>3. CASE q # u(n) /\ ~ \E j \in 1 .. n - 1 : q = u(j)
      <4>1. \A j \in 1 .. n : j \in 1 .. n - 1 \/ j = n
        BY <3>0
      <4>2. after(n, q) = into[q] /\ after(n - 1, q) = into[q]
        BY <1>6, <3>0, <3>3, <4>1
      <4> QED BY <2>2, <3>3, <4>2
    <3> QED BY <3>1, <3>2, <3>3
  <2>5. Put(s.object, T, u(n), value[<<n - 1>>]) = G(n)
    BY <2>4 DEF Put
  <2>6. g[n] = [object |-> G(n), chain |-> Reset(d)]
    BY <2>1
  <2> HIDE DEF g, G
  <2> QED BY <2>3, <2>5, <2>6 DEF s
<1>8. Stores(g, m, b, value)
  <2>1. ASSUME NEW n \in 0 .. m
        PROVE  g[n] = IF n = 0 THEN b ELSE ComponentStore(n, value, g[n - 1])
    <3>1. CASE n = 0
      BY <3>1
    <3>2. CASE n # 0
      <4>1. n \in 1 .. m
        BY <3>2
      <4> HIDE DEF g
      <4> QED BY <1>7, <3>2, <4>1
    <3> QED BY <3>1, <3>2
  <2>2. g = [n \in 0 .. m |-> g[n]]
    OBVIOUS
  <2> HIDE DEF g, b, m
  <2> QED BY <2>1, <2>2 DEF Stores
<1>9. ComponentStores(d, into, value) = f[m].object
  BY DEF ComponentStores
<1>10. Stores(f, m, b, value)
  <2>1. \E h : h = [n \in 0 .. m |-> IF n = 0 THEN b ELSE ComponentStore(n, value, h[n - 1])]
    <3> HIDE DEF g, b, m
    <3> QED BY <1>8 DEF Stores
  <2> HIDE DEF b, m
  <2> QED BY <2>1 DEF Stores
<1> HIDE DEF f
<1>11. f[m] = g[m]
  <2> HIDE DEF g, b, m
  <2> QED BY <1>1, <1>8, <1>10, SameStores
<1>12. g[m] = [object |-> G(m), chain |-> Reset(d)]
  <2>1. m \in 0 .. m /\ m # 0
    <3> HIDE DEF m
    <3> QED BY <1>1
  <2> QED BY <2>1
<1>13. G(m) = Assigned(S, into, value)
  <2> DEFINE F == G(m)
  <2>1. F = [q \in DOMAIN into |-> F[q]] /\ \A q \in DOMAIN into : F[q] = after(m, q)
    OBVIOUS
  <2>2. ASSUME NEW q \in DOMAIN into
        PROVE  \/ \E p \in DOMAIN S.at : S.at[p] = q /\ F[q] = value[p]
               \/ (\A p \in DOMAIN S.at : S.at[p] # q) /\ F[q] = into[q]
    <3> HIDE DEF F, G
    <3>1. CASE \E j \in 1 .. m : q = u(j)
      <4>1. PICK j \in 1 .. m : q = u(j)
        BY <3>1
      <4>2. F[q] = value[<<j - 1>>]
        <5>1. m <= m /\ m \in Nat
          <6> HIDE DEF m
          <6> QED BY <1>1
        <5> HIDE DEF m
        <5> QED BY <1>6, <2>1, <4>1, <5>1
      <4> QED BY <1>3, <4>1, <4>2
    <3>2. CASE ~ \E j \in 1 .. m : q = u(j)
      <4>1. F[q] = into[q]
        <5> HIDE DEF m
        <5> QED BY <1>1, <1>6, <2>1, <3>2
      <4>2. ASSUME NEW p \in DOMAIN S.at, S.at[p] = q
            PROVE  FALSE
        <5>1. p[1] \in Nat /\ p[1] < m /\ p \in Places(<<m>>)
          <6> HIDE DEF m
          <6> QED BY <1>1, <1>2, PlacesOfVector
        <5>2. p[1] + 1 \in 1 .. m
          <6> HIDE DEF m
          <6> QED BY <1>1, <5>1
        <5>3. q = u(p[1] + 1)
          BY <1>2, <4>2, <5>1 DEF u
        <5> QED BY <3>2, <5>2, <5>3
      <4> QED BY <4>1, <4>2
    <3> QED BY <3>1, <3>2
  <2> HIDE DEF F
  <2>3. F = Assigned(S, into, value)
    BY <2>1, <2>2, AssignedIs
  <2> QED BY <2>3 DEF F
<1> HIDE DEF g, G
<1> QED BY <1>9, <1>11, <1>12, <1>13


(* A store changes the places selected, to the components of the value.      *)
LEMMA StoreIs ==
  ASSUME NEW T, Type(T), NEW S, NEW c, (Denotes(c, T, S) /\ c.instr = NoInstr) \/ Resolved(c, T, S),
         LValue(S), NEW into, DOMAIN into = Places(T), NEW value, DOMAIN value = Places(S.type)
  PROVE  AccessChainStore(c, T, into, value) = Assigned(S, into, value)
<1> DEFINE d == TransferSwizzle(c, TRUE)
           vector == SubSeq(T, Len(d.indexChain) + 1, Len(T))
           e == CollapseAccessChain(d)
           broken == d.swizzle # <<>> /\ NumComponents(vector) # Len(d.swizzle) /\ d.component = NoComponent
<1>1. Leads(d, T) /\ Resolved(e, T, S) /\ (broken => Many(d, T, S))
  <2>1. CASE Denotes(c, T, S) /\ c.instr = NoInstr
    <3> DEFINE y == TRUE
    <3>1. y \in BOOLEAN /\ d = TransferSwizzle(c, y)
      OBVIOUS
    <3> HIDE DEF y
    <3>2. Denotes(d, T, S) /\ ~ One(d, T, S) /\ d.instr = NoInstr
      <4> HIDE DEF d
      <4> QED BY <2>1, <3>1, Transferred
    <3> HIDE DEF d
    <3>3. Resolved(e, T, S)
      BY <3>2, Collapsed
    <3>4. ASSUME d.swizzle # <<>>, d.component = NoComponent
          PROVE  Many(d, T, S)
      <4>1. \A i \in Nat : Dynamic(i) # NoComponent
        BY Entries
      <4> QED BY <3>2, <3>4, <4>1 DEF Denotes, Plain, Indexed, ManyIndexed
    <3> QED BY <3>2, <3>3, <3>4 DEF Denotes
  <2>2. CASE Resolved(c, T, S)
    <3>1. d = c /\ e = c
      BY <2>2, ResolvedStays
    <3>2. d.swizzle # <<>> => Many(d, T, S)
      BY <2>2, <3>1 DEF Resolved, Plain
    <3> HIDE DEF d, e
    <3> QED BY <2>2, <3>1, <3>2 DEF Resolved
  <2> QED BY <2>1, <2>2
<1>2. AccessChainStore(c, T, into, value)
        = IF broken THEN ComponentStores(d, into, value)
          ELSE Stored(e, into, IF e.swizzle = <<>> THEN value
                               ELSE LvalueSwizzle(Loaded(e, into), value, e.swizzle))
  BY DEF AccessChainStore
<1>3. ASSUME broken
      PROVE  ComponentStores(d, into, value) = Assigned(S, into, value)
  <2>1. Leads(d, T) /\ Many(d, T, S)
    BY <1>1, <1>3
  <2> HIDE DEF d
  <2>2. S.type = <<Len(d.swizzle)>>
    BY <2>1 DEF Many, ComponentsOf
  <2>3. DOMAIN value = Places(<<Len(d.swizzle)>>)
    BY <2>2
  <2> QED BY <2>1, <2>3, ComponentsStored
<1> HIDE DEF e
<1>4. Stored(e, into, IF e.swizzle = <<>> THEN value
                      ELSE LvalueSwizzle(Loaded(e, into), value, e.swizzle))
        = Assigned(S, into, value)
  BY <1>1, StoreResolved
<1> HIDE DEF broken
<1> QED BY <1>2, <1>3, <1>4


-----------------------------------------------------------------------------
(* What holds between the steps.                                             *)

(* What is left of a type is one, and a selection is a value of its type.    *)
LEMMA TypeLeft ==
  ASSUME NEW T, Type(T), NEW n \in 0 .. Len(T)
  PROVE  Type(Rest(T, n))
<1> DEFINE R == Rest(T, n)
<1>1. T \in Seq(Nat) /\ Len(T) \in Nat /\ \A k \in 1 .. Len(T) : T[k] \in Nat \ {0}
  <2>1. T \in Seq(Nat \ {0})
    BY DEF Type
  <2>2. \A k \in 1 .. Len(T) : T[k] \in Nat \ {0}
    BY <2>1, ElementOfSeq
  <2> QED BY <2>1, <2>2
<1>2. R \in Seq(Nat) /\ Len(R) = Len(T) - n /\ \A k \in 1 .. Len(T) - n : R[k] = T[n + k]
  BY <1>1, RestIs
<1>3. R \in Seq(Nat \ {0})
  <2>1. Len(R) \in Nat /\ \A k \in 1 .. Len(R) : R[k] \in Nat \ {0}
    BY <1>1, <1>2
  <2>2. R = [k \in 1 .. Len(R) |-> R[k]]
    BY <1>2
  <2> HIDE DEF R
  <2> QED BY <2>1, <2>2
<1>4. ASSUME R # <<>>
      PROVE  R[Len(R)] > 1
  <2>1. Len(R) # 0 /\ Len(R) \in Nat
    BY <1>2, <1>4, EmptySeq
  <2>2. R[Len(R)] = T[Len(T)] /\ Len(T) # 0
    <3> DEFINE m == Len(R)
    <3>1. m \in 1 .. Len(T) - n /\ n + m = Len(T) /\ Len(T) # 0
      BY <1>1, <1>2, <2>1
    <3> HIDE DEF m, R
    <3> QED BY <1>2, <3>1 DEF m
  <2>3. T # <<>>
    <3>1. Len(<<>>) = 0
      OBVIOUS
    <3> QED BY <2>2, <3>1
  <2> QED BY <2>2, <2>3 DEF Type
<1> HIDE DEF R
<1> QED BY <1>3, <1>4 DEF Type, R

LEMMA SelectionIs ==
  ASSUME NEW T, Type(T), NEW S, NEW c, Denotes(c, T, S)
  PROVE  Type(S.type) /\ DOMAIN S.at = Places(S.type)
<1>1. Leads(c, T)
  BY DEF Denotes
<1>2. Len(c.indexChain) \in 0 .. Len(T)
  <2>1. T \in Seq(Nat) /\ Len(c.indexChain) \in Nat /\ Len(c.indexChain) <= Len(T)
    BY <1>1, VectorLeft
  <2> QED BY <2>1
<1>3. Type(Left(c, T))
  BY <1>2, TypeLeft DEF Left
<1>4. Type(<<>>)
  BY DEF Type
<1>5. ASSUME NEW n \in Nat, n > 1
      PROVE  Type(<<n>>)
  BY <1>5 DEF Type
<1>6. Type(S.type)
  <2>1. CASE S.type = <<>>
    BY <1>4, <2>1
  <2>2. CASE S.type = Left(c, T)
    BY <1>3, <2>2
  <2>3. CASE Many(c, T, S) /\ S.type = <<Len(c.swizzle)>>
    <3> DEFINE n == Len(c.swizzle)
    <3>1. n \in Nat /\ n > 1
      BY <2>3 DEF Many, OnVector
    <3> HIDE DEF n
    <3>2. Type(<<n>>)
      BY <1>5, <3>1
    <3> QED BY <2>3, <3>2 DEF n
  <2> QED BY <2>1, <2>2, <2>3, KindOfSelection
<1>7. \A v, V : DOMAIN Under(v, V).at = Places(Under(v, V).type)
  BY DEF Under
<1>8. \A v, w : DOMAIN ComponentsOf(v, w).at = Places(ComponentsOf(v, w).type)
  BY DEF ComponentsOf
<1>9. (\E v, V : S = Under(v, V)) \/ (\E v, w : S = ComponentsOf(v, w))
  BY DEF Denotes, Plain, One, Many, Indexed, ManyIndexed
<1> QED BY <1>6, <1>7, <1>8, <1>9

(* A chain denotes places of the object, or of the value it was begun with.  *)
Selects(c, S, T) ==
  /\ c.isRValue \in BOOLEAN
  /\ \E R : /\ Type(R) /\ (IF c.isRValue THEN DOMAIN c.base = Places(R) ELSE R = T)
            /\ Denotes(c, R, S) /\ Fresh(c, R)
From(c, o) == IF c.isRValue THEN c.base ELSE o

(* A new chain denotes all of what it begins with.                           *)
LEMMA BegunSelects ==
  ASSUME NEW T, Type(T), NEW R, Type(R), NEW base,
         NEW y \in BOOLEAN, IF y THEN DOMAIN base = Places(R) ELSE R = T
  PROVE  Selects(Cleared(y, base), All(R), T)
         /\ Cleared(y, base).isRValue = y /\ Cleared(y, base).base = base
<1> DEFINE c == Cleared(y, base)
<1>1. /\ c.indexChain = <<>> /\ Chain(c) /\ c.swizzle = <<>> /\ c.instr = NoInstr
      /\ c.component = NoComponent /\ c.base = base /\ c.isRValue = y /\ c.preSwizzleBaseType = NoType
  BY DEF Cleared, Chain
<1> HIDE DEF c
<1>2. R \in Seq(Nat) /\ Len(R) \in Nat
  BY DEF Type
<1>3. <<>> \in Seq(Entry) /\ Path(<<>>) = <<>> /\ Len(<<>>) = 0
  BY DEF Path
<1>4. Starts(<<>>, R)
  BY <1>2, <1>3 DEF Starts
<1>5. Left(c, R) = R
  <2>1. Left(c, R) = Rest(R, 0)
    BY <1>1, <1>3 DEF Left
  <2>2. SubSeq(R, 1, Len(R)) = R
    BY <1>2
  <2> QED BY <2>1, <2>2 DEF Rest
<1>6. Under(<<>>, R) = All(R)
  <2>1. \A p \in Places(R) : <<>> \o p = p
    <3> TAKE p \in Places(R)
    <3>1. p \in Seq(Nat)
      BY <1>2, PlaceIs
    <3> QED BY <3>1, ConcatEmptySeq
  <2> QED BY <2>1 DEF Under, All
<1>7. Denotes(c, R, All(R)) /\ Fresh(c, R)
  BY <1>1, <1>3, <1>4, <1>5, <1>6 DEF Denotes, Leads, Plain, Fresh
<1> QED BY <1>1, <1>7 DEF Selects, c

(* A load gives what the chain selects.                                      *)
LEMMA ReadIs ==
  ASSUME NEW T, Type(T), NEW S, NEW c, Selects(c, S, T), NEW o, DOMAIN o = Places(T)
  PROVE  /\ AccessChainLoad(c, o).value = Chosen(S, From(c, o))
         /\ ~ c.isRValue => Resolved(AccessChainLoad(c, o).chain, T, S)
         /\ Type(S.type) /\ DOMAIN Chosen(S, From(c, o)) = Places(S.type)
<1>1. PICK R : /\ Type(R) /\ (IF c.isRValue THEN DOMAIN c.base = Places(R) ELSE R = T)
               /\ Denotes(c, R, S) /\ Fresh(c, R)
  BY DEF Selects
<1> DEFINE src == From(c, o)
<1>2. src = (IF c.isRValue THEN c.base ELSE o) /\ DOMAIN src = Places(R)
  BY <1>1 DEF From
<1>3. c.instr = NoInstr /\ c.isRValue \in BOOLEAN
  BY <1>1 DEF Fresh, Selects
<1> HIDE DEF src
<1>4. /\ AccessChainLoad(c, o).value = Chosen(S, src)
      /\ ~ c.isRValue => Resolved(AccessChainLoad(c, o).chain, R, S)
  BY <1>1, <1>2, <1>3, LoadIs
<1>5. Type(S.type) /\ DOMAIN S.at = Places(S.type)
  BY <1>1, SelectionIs
<1>6. DOMAIN Chosen(S, src) = DOMAIN S.at
  BY DEF Chosen
<1> QED BY <1>1, <1>4, <1>5, <1>6 DEF src

(* A store changes what the chain selects.                                   *)
LEMMA WriteIs ==
  ASSUME NEW T, Type(T), NEW S, NEW c, Selects(c, S, T), ~ c.isRValue, LValue(S),
         NEW into, DOMAIN into = Places(T), NEW value, DOMAIN value = Places(S.type)
  PROVE  AccessChainStore(c, T, into, value) = Assigned(S, into, value)
<1>1. Denotes(c, T, S) /\ c.instr = NoInstr
  BY DEF Selects, Fresh
<1> QED BY <1>1, StoreIs

(* The three ways to go on from a selection.                                 *)
LEMMA IndexSelects ==
  ASSUME NEW T, Type(T), NEW S, NEW c, Selects(c, S, T), Len(S.type) > 1,
         NEW x \in Entry, x.value < S.type[1],
         NEW d, d = [c EXCEPT !.indexChain = Append(@, x)]
  PROVE  Selects(d, SelectIndex(S, x.value), T) /\ d.base = c.base /\ d.isRValue = c.isRValue
<1>1. PICK R : /\ Type(R) /\ (IF c.isRValue THEN DOMAIN c.base = Places(R) ELSE R = T)
               /\ Denotes(c, R, S) /\ Fresh(c, R)
  BY DEF Selects
<1>2. /\ Denotes(d, R, SelectIndex(S, x.value)) /\ Fresh(d, R)
      /\ d.base = c.base /\ d.isRValue = c.isRValue
  BY <1>1, IndexPushed
<1> QED BY <1>1, <1>2 DEF Selects

LEMMA SwizzleSelects ==
  ASSUME NEW T, Type(T), NEW S, NEW c, Selects(c, S, T), Len(S.type) = 1,
         NEW s \in Seq(Nat), s # <<>>, \A i \in 1 .. Len(s) : s[i] < S.type[1],
         NEW d, d = PushSwizzle(c, s, S.type)
  PROVE  /\ Selects(d, IF Len(s) = 1 THEN SelectIndex(S, s[1]) ELSE SelectComponents(S, s), T)
         /\ d.base = c.base /\ d.isRValue = c.isRValue
<1>1. PICK R : /\ Type(R) /\ (IF c.isRValue THEN DOMAIN c.base = Places(R) ELSE R = T)
               /\ Denotes(c, R, S) /\ Fresh(c, R)
  BY DEF Selects
<1> DEFINE U == IF Len(s) = 1 THEN SelectIndex(S, s[1]) ELSE SelectComponents(S, s)
<1>2. Denotes(d, R, U) /\ Fresh(d, R) /\ d.base = c.base /\ d.isRValue = c.isRValue
  BY <1>1, SwizzlePushed
<1> HIDE DEF U
<1>3. Selects(d, U, T)
  BY <1>1, <1>2 DEF Selects
<1> QED BY <1>2, <1>3 DEF U

LEMMA ComponentSelects ==
  ASSUME NEW T, Type(T), NEW S, NEW c, Selects(c, S, T), Len(S.type) = 1,
         NEW i \in Nat, i < S.type[1], NEW d, d = PushComponent(c, i, S.type)
  PROVE  Selects(d, SelectIndex(S, i), T) /\ d.base = c.base /\ d.isRValue = c.isRValue
<1>1. PICK R : /\ Type(R) /\ (IF c.isRValue THEN DOMAIN c.base = Places(R) ELSE R = T)
               /\ Denotes(c, R, S) /\ Fresh(c, R)
  BY DEF Selects
<1>2. Denotes(d, R, SelectIndex(S, i)) /\ Fresh(d, R) /\ d.base = c.base /\ d.isRValue = c.isRValue
  BY <1>1, ComponentPushed
<1> QED BY <1>1, <1>2 DEF Selects


(* Lists of whatever it is.                                                  *)
List(s) == \E A : s \in Seq(A)
LEMMA Appended ==
  ASSUME NEW s, List(s), NEW x
  PROVE  /\ List(Append(s, x)) /\ Len(Append(s, x)) = Len(s) + 1 /\ Len(s) \in Nat
         /\ Append(s, x)[Len(s) + 1] = x
         /\ \A i \in 1 .. Len(s) : Append(s, x)[i] = s[i]
<1>1. PICK A : s \in Seq(A)
  BY DEF List
<1> DEFINE B == A \cup {x}
<1>2. s \in Seq(B) /\ x \in B
  <2>1. Len(s) \in Nat /\ s = [i \in 1 .. Len(s) |-> s[i]] /\ \A i \in 1 .. Len(s) : s[i] \in A
    BY <1>1
  <2> QED BY <2>1
<1> HIDE DEF B
<1>3. /\ Append(s, x) \in Seq(B) /\ Len(Append(s, x)) = Len(s) + 1 /\ Len(s) \in Nat
      /\ Append(s, x)[Len(s) + 1] = x
      /\ \A i \in 1 .. Len(s) : Append(s, x)[i] = s[i]
  BY <1>2, AppendProperties
<1> QED BY <1>3 DEF List

(* How many of the first arguments may be written.                           *)
Writables(qs, a) == Cardinality({b \in 1 .. a : WritableParam(qs[b])})
LEMMA WritablesAre ==
  ASSUME NEW qs
  PROVE  LET n(b) == IF WritableParam(qs[b]) THEN 1 ELSE 0 IN
         /\ Writables(qs, 0) = 0 /\ Writables(qs, 1) = n(1) /\ Writables(qs, 2) = n(1) + n(2)
<1> DEFINE W(a) == {b \in 1 .. a : WritableParam(qs[b])}
           n(b) == IF WritableParam(qs[b]) THEN 1 ELSE 0
<1>1. W(0) = {} /\ Cardinality(W(0)) = 0
  <2>1. W(0) = {}
    OBVIOUS
  <2> QED BY <2>1, FS_EmptySet
<1>2. Cardinality(W(1)) = n(1) /\ W(1) \subseteq {1}
  <2>1. CASE WritableParam(qs[1])
    <3>1. W(1) = {1}
      BY <2>1
    <3> QED BY <2>1, <3>1, FS_Singleton
  <2>2. CASE ~ WritableParam(qs[1])
    <3>1. W(1) = {}
      BY <2>2
    <3> QED BY <2>2, <3>1, FS_EmptySet
  <2> QED BY <2>1, <2>2
<1>3. Cardinality(W(2)) = n(1) + n(2)
  <2>1. CASE WritableParam(qs[2])
    <3>1. W(2) = W(1) \cup {2} /\ 2 \notin W(1)
      BY <2>1
    <3>2. IsFiniteSet(W(1))
      <4>1. IsFiniteSet({1})
        BY FS_Singleton
      <4> HIDE DEF W
      <4> QED BY <1>2, <4>1, FS_Subset
    <3> DEFINE V == W(1)
    <3> HIDE DEF W
    <3>3. Cardinality(V \cup {2}) = Cardinality(V) + 1
      BY <3>1, <3>2, FS_AddElement
    <3> QED BY <1>2, <2>1, <3>1, <3>3
  <2>2. CASE ~ WritableParam(qs[2])
    <3>1. W(2) = W(1)
      BY <2>2
    <3> HIDE DEF W
    <3> QED BY <1>2, <2>2, <3>1
  <2> QED BY <2>1, <2>2
<1> QED BY <1>1, <1>2, <1>3 DEF Writables

(* One more argument leaves the counts of those before it.                   *)
LEMMA WritablesStay ==
  ASSUME NEW qs, List(qs), Len(qs) < 2, NEW q
  PROVE  /\ \A a \in 0 .. Len(qs) : Writables(Append(qs, q), a) = Writables(qs, a)
         /\ Writables(Append(qs, q), Len(qs) + 1)
              = Writables(qs, Len(qs)) + IF WritableParam(q) THEN 1 ELSE 0
<1> DEFINE r == Append(qs, q)
<1>1. Len(qs) \in Nat /\ r[Len(qs) + 1] = q /\ \A i \in 1 .. Len(qs) : r[i] = qs[i]
  BY Appended
<1> HIDE DEF r
<1>2. Len(qs) = 0 \/ Len(qs) = 1
  <2> DEFINE n == Len(qs)
  <2>1. n \in Nat /\ n < 2
    BY <1>1
  <2> HIDE DEF n
  <2>2. n = 0 \/ n = 1
    BY <2>1
  <2> QED BY <2>2 DEF n
<1>3. CASE Len(qs) = 0
  BY <1>1, <1>3, WritablesAre DEF r
<1>4. CASE Len(qs) = 1
  <2>1. r[1] = qs[1] /\ r[2] = q
    BY <1>1, <1>4
  <2>2. \A a \in 0 .. 1 : a = 0 \/ a = 1
    OBVIOUS
  <2>3. /\ Writables(r, 0) = Writables(qs, 0) /\ Writables(r, 1) = Writables(qs, 1)
        /\ Writables(r, 1 + 1) = Writables(qs, 1) + IF WritableParam(q) THEN 1 ELSE 0
    BY <2>1, WritablesAre
  <2> QED BY <1>4, <2>2, <2>3 DEF r
<1> QED BY <1>2, <1>3, <1>4

(* An argument that was evaluated: the chain of one that may be written, or  *)
(* the value of another.                                                     *)
Argued(q, x, lvalue, rvalue, o, T) ==
  /\ q \in Qualifiers
  /\ IF WritableParam(q)
     THEN /\ Selects(lvalue, x.selected, T)
          /\ CopiedIn(q) => x.value = Chosen(x.selected, From(lvalue, o))
          /\ CopiedOut(q) => ~ lvalue.isRValue /\ LValue(x.selected)
     ELSE rvalue = x.value

History ==
  /\ meaning = [selected |-> meaning.selected, base |-> meaning.base, object |-> meaning.object,
                result |-> meaning.result, arguments |-> meaning.arguments, late |-> meaning.late]
  /\ meaning.late \in BOOLEAN
AsMeant == object = meaning.object /\ result = meaning.result
ChainReady ==
  /\ type \in ObjectTypes /\ DOMAIN object = Places(type)
  /\ Selects(accessChain, meaning.selected, type)
  /\ accessChain.isRValue => meaning.base = accessChain.base
Counted ==
  /\ List(lValues) /\ List(rValues) /\ List(qualifiers) /\ List(meaning.arguments)
  /\ Len(qualifiers) <= 2 /\ Len(meaning.arguments) = Len(qualifiers)
  /\ Len(lValues) = Writables(qualifiers, Len(qualifiers))
  /\ Len(rValues) = Len(qualifiers) - Writables(qualifiers, Len(qualifiers))
ArgumentIs(a) ==
  Argued(qualifiers[a], meaning.arguments[a], lValues[Writables(qualifiers, a)],
         rValues[a - Writables(qualifiers, a)], object, type)

\* While the statement goes on, the chain and those saved denote what GLSL
\* selects, and nothing read so far was late.
ChainInv ==
  /\ History
  /\ ~ meaning.late =>
       /\ AsMeant
       /\ doing = "dereference" =>
            ChainReady /\ Counted /\ \A a \in 1 .. Len(qualifiers) : ArgumentIs(a)

(* The object's types are types.                                             *)
LEMMA ObjectType == \A t \in ObjectTypes : Type(t)
BY TypesAssumption DEF Type

LEMMA ChainStarts ==
  ASSUME ChainInit
  PROVE  ChainInv
<1>1. /\ type \in ObjectTypes /\ Type(type) /\ object = Whole("object", type)
      /\ lValues = <<>> /\ rValues = <<>> /\ qualifiers = <<>> /\ result = NoValue
  BY ObjectType DEF ChainInit
<1>2. meaning = [selected |-> All(type), base |-> object, object |-> object,
                 result |-> NoValue, arguments |-> <<>>, late |-> FALSE]
  BY DEF ChainInit
<1>3. History /\ meaning.selected = All(type) /\ meaning.base = object
      /\ meaning.object = object /\ meaning.result = NoValue /\ meaning.arguments = <<>>
  BY <1>2 DEF History
<1>4. DOMAIN object = Places(type)
  BY <1>1 DEF Whole
<1>5. ChainReady
  <2>1. CASE accessChain = Cleared(FALSE, NoValue)
    <3> DEFINE y == FALSE
    <3>1. y \in BOOLEAN /\ ~ y /\ accessChain = Cleared(y, NoValue)
      BY <2>1
    <3> HIDE DEF y
    <3>2. Selects(accessChain, All(type), type) /\ accessChain.isRValue = y
      BY <1>1, <3>1, BegunSelects
    <3> QED BY <1>1, <1>3, <1>4, <3>1, <3>2 DEF ChainReady
  <2>2. CASE accessChain = Cleared(TRUE, object)
    <3> DEFINE y == TRUE
    <3>1. y \in BOOLEAN /\ y /\ accessChain = Cleared(y, object)
      BY <2>2
    <3> HIDE DEF y
    <3>2. Selects(accessChain, All(type), type) /\ accessChain.base = object
      BY <1>1, <1>4, <3>1, BegunSelects
    <3> QED BY <1>1, <1>3, <1>4, <3>1, <3>2 DEF ChainReady
  <2> QED BY <2>1, <2>2 DEF ChainInit
<1>6. List(<<>>) /\ Len(<<>>) = 0
  <2>1. <<>> \in Seq({}) /\ Len(<<>>) = 0
    OBVIOUS
  <2> QED BY <2>1 DEF List
<1>7. Counted
  BY <1>1, <1>3, <1>6, WritablesAre DEF Counted
<1>8. \A a \in 1 .. Len(qualifiers) : ArgumentIs(a)
  <2>1. \A a : a \notin 1 .. 0
    OBVIOUS
  <2> QED BY <1>1, <1>6, <2>1
<1> QED BY <1>1, <1>3, <1>5, <1>7, <1>8 DEF ChainInv, AsMeant


-----------------------------------------------------------------------------
(* The steps.                                                                *)

LEMMA Dereferenced ==
  ASSUME ChainInv, NEW chain, NEW selected, Dereference(chain, selected),
         ~ meaning.late => /\ Selects(chain, selected, type)
                           /\ chain.base = accessChain.base /\ chain.isRValue = accessChain.isRValue
  PROVE  ChainInv'
<1>1. /\ accessChain' = chain /\ meaning' = [meaning EXCEPT !.selected = selected]
      /\ UNCHANGED <<type, object, lValues, rValues, qualifiers, result, doing>>
      /\ doing = "dereference"
  BY DEF Dereference, Evaluating
<1>2. /\ History' /\ meaning'.selected = selected /\ meaning'.base = meaning.base
      /\ meaning'.object = meaning.object /\ meaning'.result = meaning.result
      /\ meaning'.arguments = meaning.arguments /\ meaning'.late = meaning.late
  BY <1>1 DEF ChainInv, History
<1>3. ASSUME ~ meaning.late
      PROVE  AsMeant' /\ ChainReady' /\ Counted' /\ \A a \in 1 .. Len(qualifiers) : ArgumentIs(a)'
  <2>1. AsMeant /\ ChainReady /\ Counted /\ \A a \in 1 .. Len(qualifiers) : ArgumentIs(a)
    BY <1>1, <1>3 DEF ChainInv
  <2>2. AsMeant'
    BY <1>1, <1>2, <2>1 DEF AsMeant
  <2>3. ChainReady'
    BY <1>1, <1>2, <1>3, <2>1 DEF ChainReady
  <2>4. Counted'
    BY <1>1, <1>2, <2>1 DEF Counted
  <2>5. \A a \in 1 .. Len(qualifiers) : ArgumentIs(a)'
    BY <1>1, <1>2, <2>1 DEF ArgumentIs
  <2> QED BY <2>2, <2>3, <2>4, <2>5
<1> QED BY <1>1, <1>2, <1>3 DEF ChainInv

(* What a statement still going on knows of the selection.                   *)
LEMMA Ongoing ==
  ASSUME ChainInv, ~ meaning.late, doing = "dereference"
  PROVE  /\ Type(type) /\ DOMAIN object = Places(type) /\ object = meaning.object
         /\ Selects(accessChain, meaning.selected, type)
         /\ Type(meaning.selected.type) /\ DOMAIN meaning.selected.at = Places(meaning.selected.type)
         /\ AccessChainLoad(accessChain, object).value = Meant
         /\ DOMAIN Meant = Places(meaning.selected.type)
         /\ Meant = Chosen(meaning.selected, From(accessChain, object))
         /\ ~ accessChain.isRValue =>
              Resolved(AccessChainLoad(accessChain, object).chain, type, meaning.selected)
<1> DEFINE S == meaning.selected
<1>1. AsMeant /\ ChainReady
  BY DEF ChainInv
<1>2. Type(type) /\ DOMAIN object = Places(type) /\ object = meaning.object /\ Selects(accessChain, S, type)
  BY <1>1, ObjectType DEF ChainReady, AsMeant
<1>3. Meant = Chosen(S, From(accessChain, object))
  BY <1>1, <1>2 DEF Meant, From, ChainReady
<1>4. /\ AccessChainLoad(accessChain, object).value = Chosen(S, From(accessChain, object))
      /\ ~ accessChain.isRValue => Resolved(AccessChainLoad(accessChain, object).chain, type, S)
      /\ Type(S.type) /\ DOMAIN Chosen(S, From(accessChain, object)) = Places(S.type)
  <2> HIDE DEF S
  <2> QED BY <1>2, ReadIs
<1>5. DOMAIN S.at = Places(S.type)
  BY <1>2, SelectionIs DEF Selects
<1> QED BY <1>2, <1>3, <1>4, <1>5

(* An index, a constant one or another.                                      *)
LEMMA Indexes ==
  ASSUME ChainInv, NEW i \in Nat, Index(i) \/ IndexIndirect(i)
  PROVE  ChainInv'
<1> DEFINE S == meaning.selected
           t == S.type
           c == accessChain
<1>1. Constant(i) \in Entry /\ Constant(i).value = i /\ Dynamic(i) \in Entry /\ Dynamic(i).value = i
  BY DEF Constant, Dynamic, Entry
<1>2. t # <<>> /\ i < t[1] /\ doing = "dereference"
  BY DEF Index, IndexIndirect, Dereference, Evaluating
<1>3. ASSUME ~ meaning.late
      PROVE  Selects(c, S, type) /\ Type(type) /\ (Len(t) = 1 \/ Len(t) > 1)
  <2>1. Selects(c, S, type) /\ Type(type) /\ Type(t)
    BY <1>2, <1>3, Ongoing
  <2>2. Len(t) \in Nat /\ Len(t) # 0
    BY <1>2, <2>1, EmptySeq DEF Type
  <2> DEFINE n == Len(t)
  <2>3. n = 1 \/ n > 1
    <3>1. n \in Nat /\ n # 0
      BY <2>2
    <3> HIDE DEF n
    <3> QED BY <3>1
  <2> QED BY <2>1, <2>3
<1>4. CASE Index(i)
  <2> DEFINE d == IF Len(t) = 1 THEN PushSwizzle(c, <<i>>, t)
                  ELSE [c EXCEPT !.indexChain = Append(@, Constant(i))]
  <2>1. Dereference(d, SelectIndex(S, i))
    BY <1>4 DEF Index
  <2>2. ASSUME ~ meaning.late
        PROVE  Selects(d, SelectIndex(S, i), type) /\ d.base = c.base /\ d.isRValue = c.isRValue
    <3>1. CASE Len(t) = 1
      <4> DEFINE s == <<i>>
      <4>1. s \in Seq(Nat) /\ s # <<>> /\ Len(s) = 1 /\ s[1] = i /\ \A k \in 1 .. Len(s) : s[k] < t[1]
        BY <1>2
      <4>2. d = PushSwizzle(c, s, t)
        BY <3>1
      <4> HIDE DEF s, d, c
      <4>3. /\ Selects(d, IF Len(s) = 1 THEN SelectIndex(S, s[1]) ELSE SelectComponents(S, s), type)
            /\ d.base = c.base /\ d.isRValue = c.isRValue
        BY <1>3, <2>2, <3>1, <4>1, <4>2, SwizzleSelects
      <4> QED BY <4>1, <4>3
    <3>2. CASE Len(t) # 1
      <4> DEFINE x == Constant(i)
      <4>1. d = [c EXCEPT !.indexChain = Append(@, x)] /\ x \in Entry /\ x.value = i
        BY <1>1, <3>2
      <4> HIDE DEF x, d, c
      <4> QED BY <1>2, <1>3, <2>2, <3>2, <4>1, IndexSelects
    <3> QED BY <3>1, <3>2
  <2> HIDE DEF d
  <2> QED BY <2>1, <2>2, Dereferenced
<1>5. CASE IndexIndirect(i)
  <2> DEFINE d == IF Len(t) = 1 THEN PushComponent(c, i, t)
                  ELSE [c EXCEPT !.indexChain = Append(@, Dynamic(i))]
  <2>1. Dereference(d, SelectIndex(S, i))
    BY <1>5 DEF IndexIndirect
  <2>2. ASSUME ~ meaning.late
        PROVE  Selects(d, SelectIndex(S, i), type) /\ d.base = c.base /\ d.isRValue = c.isRValue
    <3>1. CASE Len(t) = 1
      <4>1. d = PushComponent(c, i, t)
        BY <3>1
      <4> HIDE DEF d, c
      <4> QED BY <1>2, <1>3, <2>2, <3>1, <4>1, ComponentSelects
    <3>2. CASE Len(t) # 1
      <4> DEFINE x == Dynamic(i)
      <4>1. d = [c EXCEPT !.indexChain = Append(@, x)] /\ x \in Entry /\ x.value = i
        BY <1>1, <3>2
      <4> HIDE DEF x, d, c
      <4> QED BY <1>2, <1>3, <2>2, <3>2, <4>1, IndexSelects
    <3> QED BY <3>1, <3>2
  <2> HIDE DEF d
  <2> QED BY <2>1, <2>2, Dereferenced
<1> QED BY <1>4, <1>5

LEMMA Swizzled ==
  ASSUME ChainInv, NEW s \in Swizzles, VectorSwizzle(s)
  PROVE  ChainInv'
<1> DEFINE S == meaning.selected
           t == S.type
           c == accessChain
           d == PushSwizzle(c, s, t)
<1>1. /\ Len(t) = 1 /\ Len(s) > 1 /\ (\A i \in DOMAIN s : s[i] < t[1])
      /\ Dereference(d, SelectComponents(S, s)) /\ doing = "dereference"
  BY DEF VectorSwizzle, Dereference, Evaluating
<1>2. s \in Seq(Nat) /\ s # <<>> /\ Len(s) # 1 /\ \A i \in 1 .. Len(s) : s[i] < t[1]
  <2>1. s \in Seq(Nat)
    BY SwizzlesAssumption
  <2>2. Len(s) # 1 /\ Len(s) # 0
    BY <1>1, <2>1, MoreThanOne
  <2>3. Len(<<>>) = 0
    OBVIOUS
  <2> QED BY <1>1, <2>1, <2>2, <2>3
<1>3. ASSUME ~ meaning.late
      PROVE  Selects(d, SelectComponents(S, s), type) /\ d.base = c.base /\ d.isRValue = c.isRValue
  <2>1. Selects(c, S, type) /\ Type(type)
    BY <1>1, <1>3, Ongoing
  <2>2. /\ Selects(d, IF Len(s) = 1 THEN SelectIndex(S, s[1]) ELSE SelectComponents(S, s), type)
        /\ d.base = c.base /\ d.isRValue = c.isRValue
    BY <1>1, <1>2, <2>1, SwizzleSelects
  <2> QED BY <1>2, <2>2
<1> HIDE DEF d
<1> QED BY <1>1, <1>3, Dereferenced

(* The end of an assignment: its value is what is dereferenced next.         *)
LEMMA Finished ==
  ASSUME ChainInv, Evaluating, NEW stored, NEW value, NEW meant, NEW meantValue, NEW late \in BOOLEAN,
         Finish(stored, value, meant, meantValue, late), meaning.late => late,
         ~ late => /\ stored = meant /\ value = meantValue /\ DOMAIN stored = Places(type)
                   /\ DOMAIN value = Places(meaning.selected.type)
  PROVE  ChainInv'
<1> DEFINE lost == late \/ (qualifiers # <<>> /\ CopiedIn(qualifiers[1]))
<1>1. /\ object' = stored /\ result' = value /\ accessChain' = Cleared(TRUE, value)
      /\ meaning' = [meaning EXCEPT !.object = meant, !.result = meantValue, !.base = meantValue,
                                    !.selected = All(meaning.selected.type), !.late = lost]
      /\ UNCHANGED <<type, lValues, rValues, qualifiers, pushes, doing>>
      /\ doing = "dereference" /\ Len(qualifiers) < 2
  BY DEF Finish, Evaluating
<1>2. /\ History' /\ meaning'.selected = All(meaning.selected.type) /\ meaning'.base = meantValue
      /\ meaning'.object = meant /\ meaning'.result = meantValue
      /\ meaning'.arguments = meaning.arguments /\ meaning'.late = lost
  <2>1. lost \in BOOLEAN
    OBVIOUS
  <2> HIDE DEF lost
  <2> QED BY <1>1, <2>1 DEF ChainInv, History
<1>3. ASSUME ~ lost
      PROVE  AsMeant' /\ ChainReady' /\ Counted' /\ \A a \in 1 .. Len(qualifiers) : ArgumentIs(a)'
  <2>1. ~ meaning.late /\ stored = meant /\ value = meantValue /\ DOMAIN stored = Places(type)
        /\ DOMAIN value = Places(meaning.selected.type)
    BY <1>3
  <2>2. AsMeant /\ ChainReady /\ Counted /\ \A a \in 1 .. Len(qualifiers) : ArgumentIs(a)
    BY <1>1, <2>1 DEF ChainInv
  <2>3. AsMeant'
    BY <1>1, <1>2, <2>1 DEF AsMeant
  <2>4. ChainReady'
    <3> DEFINE R == meaning.selected.type
               y == TRUE
    <3>1. Type(R) /\ Type(type)
      BY <1>1, <2>1, Ongoing
    <3>2. y \in BOOLEAN /\ y /\ accessChain' = Cleared(y, value) /\ DOMAIN value = Places(R)
      BY <1>1, <2>1
    <3> HIDE DEF y, R
    <3>3. Selects(accessChain', All(R), type) /\ accessChain'.base = value
      BY <3>1, <3>2, BegunSelects
    <3> QED BY <1>1, <1>2, <2>1, <2>2, <3>3 DEF ChainReady, R
  <2>5. Counted'
    BY <1>1, <1>2, <2>2 DEF Counted
  <2>6. ASSUME NEW a \in 1 .. Len(qualifiers)
        PROVE  ArgumentIs(a)'
    <3>1. a = 1
      <4>1. Len(qualifiers) \in Nat
        BY <2>2, Appended DEF Counted
      <4> DEFINE n == Len(qualifiers)
      <4>2. n \in Nat /\ n < 2 /\ a \in 1 .. n
        BY <1>1, <4>1
      <4> HIDE DEF n
      <4> QED BY <4>2
    <3>2. ~ CopiedIn(qualifiers[a])
      <4>1. qualifiers # <<>>
        <5>1. Len(<<>>) = 0
          OBVIOUS
        <5> QED BY <5>1
      <4> QED BY <1>3, <3>1, <4>1
    <3>3. ArgumentIs(a)
      BY <2>2
    <3> QED BY <1>1, <1>2, <3>2, <3>3 DEF ArgumentIs, Argued
  <2> QED BY <2>3, <2>4, <2>5, <2>6
<1> HIDE DEF lost
<1> QED BY <1>1, <1>2, <1>3 DEF ChainInv


(* Values that fill a type.                                                  *)
LEMMA Filled ==
  ASSUME NEW name, NEW t, NEW a, NEW b, NEW S, NEW o, NEW y
  PROVE  /\ DOMAIN Whole(name, t) = Places(t) /\ DOMAIN Sum(a, b) = DOMAIN a
         /\ DOMAIN Assigned(S, o, y) = DOMAIN o
BY DEF Whole, Sum, Assigned

LEMMA RightEvaluated ==
  ASSUME DOMAIN object = Places(type), NEW changes
  PROVE  DOMAIN AfterRight(changes) = Places(type) /\ (~ changes => AfterRight(changes) = object)
BY Filled DEF AfterRight

LEMMA Assigns ==
  ASSUME ChainInv, NEW changes \in BOOLEAN, Assign(changes)
  PROVE  ChainInv'
<1> DEFINE S == meaning.selected
           right == Whole("right", S.type)
           o == AfterRight(changes)
           late == meaning.late
<1>1. /\ Writable /\ Evaluating /\ doing = "dereference" /\ ~ accessChain.isRValue /\ LValue(S)
      /\ Finish(AccessChainStore(accessChain, type, o, right), right, Assigned(S, o, right), right, late)
  BY DEF Assign, Writable, Evaluating
<1>2. late \in BOOLEAN
  BY DEF ChainInv, History
<1>3. ASSUME ~ late
      PROVE  /\ AccessChainStore(accessChain, type, o, right) = Assigned(S, o, right)
             /\ DOMAIN Assigned(S, o, right) = Places(type)
             /\ DOMAIN right = Places(S.type)
  <2>1. /\ Type(type) /\ Selects(accessChain, S, type) /\ DOMAIN object = Places(type)
    BY <1>1, <1>3, Ongoing
  <2>2. DOMAIN o = Places(type) /\ DOMAIN right = Places(S.type)
    BY <2>1, RightEvaluated, Filled
  <2> HIDE DEF o, right, S
  <2> QED BY <1>1, <2>1, <2>2, WriteIs, Filled
<1> HIDE DEF o, right, S
<1> QED BY <1>1, <1>2, <1>3, Finished DEF S

LEMMA OpAssigns ==
  ASSUME ChainInv, NEW changes \in BOOLEAN, OpAssign(changes)
  PROVE  ChainInv'
<1> DEFINE S == meaning.selected
           right == Whole("right", S.type)
           o == AfterRight(changes)
           late == changes \/ meaning.late
           sum == Sum(AccessChainLoad(accessChain, o).value, right)
           meant == Sum(Meant, right)
<1>1. /\ Writable /\ Evaluating /\ doing = "dereference" /\ ~ accessChain.isRValue /\ LValue(S)
      /\ Finish(AccessChainStore(accessChain, type, o, sum), sum, Assigned(S, o, meant), meant, late)
  BY DEF OpAssign, Writable, Evaluating
<1>2. late \in BOOLEAN
  BY DEF ChainInv, History
<1>3. ASSUME ~ late
      PROVE  /\ AccessChainStore(accessChain, type, o, sum) = Assigned(S, o, meant) /\ sum = meant
             /\ DOMAIN Assigned(S, o, meant) = Places(type)
             /\ DOMAIN meant = Places(S.type)
  <2>1. /\ Type(type) /\ Selects(accessChain, S, type) /\ DOMAIN object = Places(type)
        /\ AccessChainLoad(accessChain, object).value = Meant /\ DOMAIN Meant = Places(S.type)
    BY <1>1, <1>3, Ongoing
  <2>2. o = object
    BY <1>3, <2>1, RightEvaluated
  <2>3. sum = meant /\ DOMAIN meant = Places(S.type)
    <3> HIDE DEF o, right, S
    <3> QED BY <2>1, <2>2, Filled
  <2> HIDE DEF o, right, S, sum, meant
  <2> QED BY <1>1, <2>1, <2>2, <2>3, WriteIs, Filled
<1> HIDE DEF o, right, S, sum, meant
<1>4. meaning.late => late
  OBVIOUS
<1> HIDE DEF late
<1> QED BY <1>1, <1>2, <1>3, <1>4, Finished DEF S

LEMMA Increments ==
  ASSUME ChainInv, NEW prefix \in BOOLEAN, Increment(prefix)
  PROVE  ChainInv'
<1> DEFINE S == meaning.selected
           one == Whole("one", S.type)
           operand == AccessChainLoad(accessChain, object)
           sum == Sum(operand.value, one)
           stored == AccessChainStore(operand.chain, type, object, sum)
           meant == Sum(Meant, one)
           gives == IF prefix THEN sum ELSE operand.value
           means == IF prefix THEN meant ELSE Meant
           late == meaning.late
<1>1. /\ Writable /\ Evaluating /\ doing = "dereference" /\ ~ accessChain.isRValue /\ LValue(S)
      /\ Finish(stored, gives, Assigned(S, object, meant), means, late)
  BY DEF Increment, Writable, Evaluating
<1>2. late \in BOOLEAN
  BY DEF ChainInv, History
<1>3. ASSUME ~ late
      PROVE  /\ stored = Assigned(S, object, meant) /\ gives = means
             /\ DOMAIN stored = Places(type)
             /\ DOMAIN gives = Places(S.type)
  <2>1. /\ Type(type) /\ DOMAIN object = Places(type)
        /\ operand.value = Meant /\ DOMAIN Meant = Places(S.type)
        /\ Resolved(operand.chain, type, S)
    BY <1>1, <1>3, Ongoing
  <2> HIDE DEF operand, S, one
  <2>2. sum = meant /\ DOMAIN sum = Places(S.type)
    BY <2>1, Filled
  <2> HIDE DEF sum, meant
  <2>3. stored = Assigned(S, object, meant)
    BY <1>1, <2>1, <2>2, StoreIs
  <2>4. DOMAIN stored = Places(type)
    BY <2>1, <2>3, Filled
  <2> HIDE DEF stored
  <2> QED BY <2>1, <2>2, <2>3, <2>4
<1> HIDE DEF stored, gives, meant, means, S, late
<1> QED BY <1>1, <1>2, <1>3, Finished DEF S, late

LEMMA ReadsValue ==
  ASSUME ChainInv, ReadValue
  PROVE  ChainInv'
<1>1. /\ result' = AccessChainLoad(accessChain, object).value
      /\ meaning' = [meaning EXCEPT !.result = Meant] /\ doing = "dereference" /\ doing' = "done"
      /\ UNCHANGED object
  BY DEF ReadValue
<1> DEFINE m == Meant
<1>2. /\ History' /\ meaning'.object = meaning.object /\ meaning'.result = m
      /\ meaning'.late = meaning.late
  <2> HIDE DEF m
  <2>1. meaning' = [meaning EXCEPT !.result = m]
    BY <1>1 DEF m
  <2> QED BY <2>1 DEF ChainInv, History
<1>3. ASSUME ~ meaning.late
      PROVE  AsMeant'
  BY <1>1, <1>2, <1>3, Ongoing DEF AsMeant
<1> HIDE DEF m
<1> QED BY <1>1, <1>2, <1>3 DEF ChainInv


(* One more argument is evaluated, and the chain is clear for the next.      *)
LEMMA Argues ==
  ASSUME ChainInv, NEW q \in Qualifiers, Argument(q)
  PROVE  ChainInv'
<1> DEFINE S == meaning.selected
           x == [selected |-> S, value |-> Meant]
           y == AccessChainLoad(accessChain, object).value
           n == Len(qualifiers)
<1>1. /\ doing = "dereference" /\ n < 2 /\ (CopiedOut(q) => ~ accessChain.isRValue /\ LValue(S))
      /\ qualifiers' = Append(qualifiers, q)
      /\ WritableParam(q) => lValues' = Append(lValues, accessChain) /\ rValues' = rValues
      /\ ~ WritableParam(q) => rValues' = Append(rValues, y) /\ lValues' = lValues
      /\ accessChain' = Cleared(FALSE, NoValue)
      /\ meaning' = [meaning EXCEPT !.selected = All(type), !.arguments = Append(@, x)]
      /\ UNCHANGED <<type, object, result, pushes, doing>>
  BY DEF Argument, Writable, Evaluating
<1> HIDE DEF x, y
<1>2. /\ History' /\ meaning'.selected = All(type) /\ meaning'.base = meaning.base
      /\ meaning'.object = meaning.object /\ meaning'.result = meaning.result
      /\ meaning'.arguments = Append(meaning.arguments, x) /\ meaning'.late = meaning.late
  BY <1>1 DEF ChainInv, History
<1>3. ASSUME ~ meaning.late
      PROVE  AsMeant' /\ ChainReady' /\ Counted' /\ \A a \in 1 .. Len(qualifiers') : ArgumentIs(a)'
  <2>1. AsMeant /\ ChainReady /\ Counted /\ \A a \in 1 .. n : ArgumentIs(a)
    BY <1>1, <1>3 DEF ChainInv
  <2>2. AsMeant'
    BY <1>1, <1>2, <2>1 DEF AsMeant
  <2>3. ChainReady'
    <3> DEFINE z == FALSE
    <3>1. z \in BOOLEAN /\ ~ z /\ accessChain' = Cleared(z, NoValue) /\ Type(type)
      BY <1>1, <1>3, Ongoing
    <3> HIDE DEF z
    <3>2. Selects(accessChain', All(type), type) /\ accessChain'.isRValue = z
      BY <3>1, BegunSelects
    <3> QED BY <1>1, <1>2, <2>1, <3>1, <3>2 DEF ChainReady
  <2>4. n \in Nat /\ (n = 0 \/ n = 1)
    <3>1. n \in Nat
      BY <2>1, Appended DEF Counted
    <3> DEFINE m == n
    <3> HIDE DEF m
    <3>2. m \in Nat /\ m < 2
      BY <1>1, <3>1 DEF m
    <3>3. m = 0 \/ m = 1
      BY <3>2
    <3> QED BY <3>1, <3>3 DEF m
  <2>5. /\ \A a \in 0 .. n : Writables(qualifiers', a) = Writables(qualifiers, a)
        /\ Writables(qualifiers', n + 1)
             = Writables(qualifiers, n) + IF WritableParam(q) THEN 1 ELSE 0
    BY <1>1, <2>1, WritablesStay DEF Counted
  <2>6. Writables(qualifiers, n) \in 0 .. n
    <3>1. CASE n = 0
      BY <3>1, WritablesAre
    <3>2. CASE n = 1
      BY <3>2, WritablesAre
    <3> QED BY <2>4, <3>1, <3>2
  <2> DEFINE w == Writables(qualifiers, n)
  <2>7. /\ List(qualifiers') /\ Len(qualifiers') = n + 1 /\ qualifiers'[n + 1] = q
        /\ \A a \in 1 .. n : qualifiers'[a] = qualifiers[a]
        /\ List(meaning'.arguments) /\ Len(meaning'.arguments) = n + 1
        /\ meaning'.arguments[n + 1] = x
        /\ \A a \in 1 .. n : meaning'.arguments[a] = meaning.arguments[a]
    BY <1>1, <1>2, <2>1, Appended DEF Counted
  <2>8. /\ List(lValues') /\ Len(lValues') = w + (IF WritableParam(q) THEN 1 ELSE 0)
        /\ \A a \in 1 .. w : lValues'[a] = lValues[a]
        /\ WritableParam(q) => lValues'[w + 1] = accessChain
    <3>1. List(lValues) /\ Len(lValues) = w
      BY <2>1 DEF Counted
    <3> HIDE DEF w
    <3>2. CASE WritableParam(q)
      <4>1. lValues' = Append(lValues, accessChain)
        BY <1>1, <3>2
      <4>2. /\ List(Append(lValues, accessChain)) /\ Len(Append(lValues, accessChain)) = w + 1
            /\ Append(lValues, accessChain)[w + 1] = accessChain
            /\ \A i \in 1 .. w : Append(lValues, accessChain)[i] = lValues[i]
        BY <3>1, Appended
      <4> QED BY <3>2, <4>1, <4>2
    <3>3. CASE ~ WritableParam(q)
      <4>1. w + 0 = w
        BY <2>6 DEF w
      <4> QED BY <1>1, <3>1, <3>3, <4>1
    <3> QED BY <3>2, <3>3
  <2>9. /\ List(rValues') /\ Len(rValues') = (n - w) + (IF WritableParam(q) THEN 0 ELSE 1)
        /\ \A a \in 1 .. n - w : rValues'[a] = rValues[a]
        /\ ~ WritableParam(q) => rValues'[(n - w) + 1] = y
    <3> DEFINE k == n - w
    <3>0. k \in Nat
      BY <2>4, <2>6
    <3>1. List(rValues) /\ Len(rValues) = k
      BY <2>1 DEF Counted
    <3> HIDE DEF k
    <3>2. CASE ~ WritableParam(q)
      <4>1. rValues' = Append(rValues, y)
        BY <1>1, <3>2
      <4>2. /\ List(Append(rValues, y)) /\ Len(Append(rValues, y)) = k + 1
            /\ Append(rValues, y)[k + 1] = y
            /\ \A i \in 1 .. k : Append(rValues, y)[i] = rValues[i]
        BY <3>1, Appended
      <4> QED BY <3>2, <4>1, <4>2 DEF k
    <3>3. CASE WritableParam(q)
      <4>1. k + 0 = k
        BY <3>0
      <4> QED BY <1>1, <3>1, <3>3, <4>1 DEF k
    <3> QED BY <3>2, <3>3
  <2>10. Counted'
    <3>1. w \in Nat /\ n \in Nat /\ n < 2
      BY <1>1, <2>4, <2>6
    <3> HIDE DEF w, n
    <3>2. n + 1 <= 2
      BY <3>1
    <3>3. /\ Len(lValues') = Writables(qualifiers', n + 1)
          /\ Len(rValues') = (n + 1) - Writables(qualifiers', n + 1)
      <4>1. CASE WritableParam(q)
        <5>1. Writables(qualifiers', n + 1) = w + 1
          BY <2>5, <4>1 DEF w
        <5> QED BY <2>8, <2>9, <3>1, <4>1, <5>1
      <4>2. CASE ~ WritableParam(q)
        <5>1. Writables(qualifiers', n + 1) = w
          <6>1. w + 0 = w
            BY <3>1
          <6> QED BY <2>5, <4>2, <6>1 DEF w
        <5> QED BY <2>8, <2>9, <3>1, <4>2, <5>1
      <4> QED BY <4>1, <4>2
    <3> QED BY <2>7, <2>8, <2>9, <3>2, <3>3 DEF Counted
  <2>11. ASSUME NEW a \in 1 .. n
         PROVE  ArgumentIs(a)'
    <3>1. a = 1 /\ n = 1
      <4> DEFINE m == n
      <4>1. a \in 1 .. m /\ (m = 0 \/ m = 1)
        BY <2>4
      <4> HIDE DEF m
      <4>2. a = 1 /\ m = 1
        BY <4>1
      <4> QED BY <4>2 DEF m
    <3>2. Writables(qualifiers', a) = Writables(qualifiers, a)
      BY <2>4, <2>5
    <3>3. ArgumentIs(a)
      BY <2>1
    <3>4. qualifiers'[a] = qualifiers[a] /\ meaning'.arguments[a] = meaning.arguments[a]
      BY <2>7
    <3>5. w = Writables(qualifiers, a) /\ w = IF WritableParam(qualifiers[a]) THEN 1 ELSE 0
      BY <3>1, WritablesAre
    <3>6. CASE WritableParam(qualifiers[a])
      <4>1. lValues'[Writables(qualifiers, a)] = lValues[Writables(qualifiers, a)]
        <5>1. Writables(qualifiers, a) = 1 /\ w = 1
          BY <3>5, <3>6
        <5> HIDE DEF w
        <5> QED BY <2>8, <5>1
      <4> QED BY <1>1, <3>2, <3>3, <3>4, <3>6, <4>1 DEF ArgumentIs, Argued
    <3>7. CASE ~ WritableParam(qualifiers[a])
      <4>1. rValues'[a - Writables(qualifiers, a)] = rValues[a - Writables(qualifiers, a)]
        <5>1. Writables(qualifiers, a) = 0 /\ w = 0
          BY <3>5, <3>7
        <5> HIDE DEF w
        <5> QED BY <2>9, <3>1, <5>1
      <4> QED BY <1>1, <3>2, <3>3, <3>4, <3>7, <4>1 DEF ArgumentIs, Argued
    <3> QED BY <3>6, <3>7
  <2>12. ASSUME NEW a, a = n + 1
         PROVE  ArgumentIs(a)'
    <3>1. /\ Selects(accessChain, S, type) /\ y = Meant
          /\ Meant = Chosen(S, From(accessChain, object))
      BY <1>1, <1>3, Ongoing DEF y
    <3>2. x.selected = S /\ x.value = Meant
      BY DEF x
    <3>3. CASE WritableParam(q)
      <4>1. lValues'[Writables(qualifiers', n + 1)] = accessChain
        BY <2>5, <2>8, <3>3
      <4>2. Argued(q, x, accessChain, rValues'[(n + 1) - Writables(qualifiers', n + 1)], object, type)
        BY <1>1, <3>1, <3>2, <3>3 DEF Argued
      <4> QED BY <1>1, <2>7, <2>12, <4>1, <4>2 DEF ArgumentIs
    <3>4. CASE ~ WritableParam(q)
      <4>1. rValues'[(n + 1) - Writables(qualifiers', n + 1)] = y
        <5>1. w \in Nat /\ n \in Nat
          BY <2>4, <2>6
        <5> HIDE DEF w, n
        <5>2. Writables(qualifiers', n + 1) = w /\ (n + 1) - w = (n - w) + 1
          <6>1. w + 0 = w
            BY <5>1
          <6> QED BY <2>5, <3>4, <5>1, <6>1 DEF w
        <5> QED BY <2>9, <3>4, <5>2
      <4>2. Argued(q, x, lValues'[Writables(qualifiers', n + 1)], y, object, type)
        BY <1>1, <3>1, <3>2, <3>4 DEF Argued
      <4> QED BY <1>1, <2>7, <2>12, <4>1, <4>2 DEF ArgumentIs
    <3> QED BY <3>3, <3>4
  <2>13. \A a \in 1 .. n + 1 : a \in 1 .. n \/ a = n + 1
    BY <2>4
  <2> HIDE DEF w
  <2>14. \A a \in 1 .. Len(qualifiers') : ArgumentIs(a)'
    <3> DEFINE k == n + 1
    <3>1. Len(qualifiers') = k /\ \A a \in 1 .. k : a \in 1 .. n \/ a = k
      BY <2>7, <2>13
    <3>2. \A a : a = k => ArgumentIs(a)'
      BY <2>12
    <3> HIDE DEF k
    <3> QED BY <2>11, <3>1, <3>2
  <2> QED BY <2>2, <2>3, <2>10, <2>14
<1> QED BY <1>1, <1>2, <1>3 DEF ChainInv

(* What a callee sees, and what is copied back.                              *)
LEMMA ArgumentPassed ==
  ASSUME ChainInv, ~ meaning.late, doing = "dereference", NEW a \in 1 .. 2, Len(qualifiers) = 2
  PROVE  /\ SeenByCallee(a) = IF qualifiers[a] = "out" THEN NoValue ELSE meaning.arguments[a].value
         /\ \A into : DOMAIN into = Places(type) =>
              CopiedBack(into, a) = MeantBack(into, a) /\ DOMAIN MeantBack(into, a) = Places(type)
<1> DEFINE q == qualifiers[a]
           x == meaning.arguments[a]
           c == lValues[LValueCount(a)]
           r == rValues[RValueCount(a)]
           S == x.selected
           seen == SeenByCallee(a) = IF qualifiers[a] = "out" THEN NoValue ELSE meaning.arguments[a].value
<1>1. Type(type) /\ DOMAIN object = Places(type)
  BY Ongoing
<1>2. Argued(q, x, c, r, object, type)
  BY DEF ChainInv, ArgumentIs, Writables, LValueCount, RValueCount
<1> HIDE DEF q, x, c, r
<1>3. q \in Qualifiers
  BY <1>2 DEF Argued
<1>4. SeenByCallee(a) = IF CopiedIn(q) THEN AccessChainLoad(c, object).value
                ELSE IF CopiedOut(q) THEN NoValue ELSE r
  BY DEF SeenByCallee, q, c, r
<1>5. ASSUME CopiedIn(q)
      PROVE  seen
  <2>1. Selects(c, S, type) /\ x.value = Chosen(S, From(c, object)) /\ q # "out"
    BY <1>2, <1>5 DEF Argued, CopiedIn, WritableParam
  <2>2. AccessChainLoad(c, object).value = x.value
    <3> HIDE DEF S
    <3> QED BY <1>1, <2>1, ReadIs
  <2> QED BY <1>4, <1>5, <2>1, <2>2 DEF q, x
<1>6. ASSUME q = "out"
      PROVE  seen
  BY <1>4, <1>6 DEF q, CopiedIn, CopiedOut
<1>7. ASSUME q = "const"
      PROVE  seen
  BY <1>2, <1>4, <1>7 DEF Argued, WritableParam, CopiedIn, CopiedOut, q, x
<1>8. seen
  BY <1>3, <1>5, <1>6, <1>7 DEF Qualifiers, CopiedIn
<1>9. ASSUME NEW into, DOMAIN into = Places(type)
      PROVE  CopiedBack(into, a) = MeantBack(into, a) /\ DOMAIN MeantBack(into, a) = Places(type)
  <2> DEFINE value == Returned(a, S.type)
  <2>1. /\ CopiedBack(into, a) = IF CopiedOut(q) THEN AccessChainStore(c, type, into, value) ELSE into
        /\ MeantBack(into, a) = IF CopiedOut(q) THEN Assigned(S, into, value) ELSE into
    BY DEF CopiedBack, MeantBack, q, x, c
  <2>2. DOMAIN value = Places(S.type)
    BY Filled DEF Returned
  <2> HIDE DEF value, S
  <2>3. CASE CopiedOut(q)
    <3>1. Selects(c, S, type) /\ ~ c.isRValue /\ LValue(S)
      BY <1>2, <2>3 DEF Argued, CopiedOut, WritableParam, S
    <3>2. AccessChainStore(c, type, into, value) = Assigned(S, into, value)
      BY <1>1, <1>9, <2>2, <3>1, WriteIs
    <3> QED BY <1>9, <2>1, <2>3, <3>2, Filled
  <2>4. CASE ~ CopiedOut(q)
    BY <1>9, <2>1, <2>4
  <2> QED BY <2>3, <2>4
<1> QED BY <1>8, <1>9

LEMMA Calls ==
  ASSUME ChainInv, NEW changes \in BOOLEAN, UserFunctionCall(changes)
  PROVE  ChainInv'
<1> DEFINE o == AfterRight(changes)
           o1 == MeantBack(o, 1)
           o2 == MeantBack(o1, 2)
           arguments == [a \in 1 .. 2 |-> IF qualifiers[a] = "out" THEN NoValue ELSE meaning.arguments[a].value]
<1>1. /\ doing = "dereference" /\ Len(qualifiers) = 2
      /\ result' = [a \in 1 .. 2 |-> SeenByCallee(a)]
      /\ object' = CopiedBack(CopiedBack(o, 1), 2)
      /\ meaning' = [meaning EXCEPT !.object = o2, !.result = arguments]
      /\ doing' = "done"
  BY DEF UserFunctionCall
<1>2. /\ History' /\ meaning'.object = o2 /\ meaning'.result = arguments
      /\ meaning'.late = meaning.late
  <2> HIDE DEF o2, arguments
  <2> QED BY <1>1 DEF ChainInv, History
<1>3. ASSUME ~ meaning.late
      PROVE  AsMeant'
  <2>1. \A a \in 1 .. 2 :
          /\ SeenByCallee(a) = IF qualifiers[a] = "out" THEN NoValue ELSE meaning.arguments[a].value
          /\ \A into : DOMAIN into = Places(type) =>
               CopiedBack(into, a) = MeantBack(into, a) /\ DOMAIN MeantBack(into, a) = Places(type)
    BY <1>1, <1>3, ArgumentPassed
  <2>2. result' = arguments
    BY <1>1, <2>1
  <2>3. DOMAIN o = Places(type)
    BY <1>1, <1>3, Ongoing, RightEvaluated
  <2>4. 1 \in 1 .. 2 /\ 2 \in 1 .. 2
    OBVIOUS
  <2> HIDE DEF o
  <2>5. CopiedBack(o, 1) = o1 /\ DOMAIN o1 = Places(type)
    BY <2>1, <2>3, <2>4
  <2> HIDE DEF o1
  <2>6. CopiedBack(o1, 2) = o2
    BY <2>1, <2>4, <2>5
  <2> HIDE DEF o2, arguments
  <2> QED BY <1>1, <1>2, <2>2, <2>5, <2>6 DEF AsMeant
<1> HIDE DEF o2, arguments
<1> QED BY <1>1, <1>2, <1>3 DEF ChainInv

-----------------------------------------------------------------------------
(* The statement.                                                            *)

LEMMA ChainSteps ==
  ASSUME ChainInv, [ChainNext]_chainVars
  PROVE  ChainInv'
<1>1. ASSUME NEW i \in 0 .. NumComponents(meaning.selected.type) - 1, Index(i) \/ IndexIndirect(i)
      PROVE  ChainInv'
  <2>1. i \in Nat
    OBVIOUS
  <2> QED BY <1>1, <2>1, Indexes
<1>2. ASSUME UNCHANGED chainVars
      PROVE  ChainInv'
  BY <1>2 DEF chainVars, ChainInv, History, AsMeant, ChainReady, Counted, ArgumentIs
<1> QED BY <1>1, <1>2, Swizzled, Assigns, OpAssigns, Increments, Calls, ReadsValue, Argues DEF ChainNext

\* The chain in use, and each that was saved for an assignment or an argument,
\* denotes exactly the places GLSL selects, in the object or in the value it
\* was begun with, however indices, swizzles and dynamic components were stacked.
THEOREM ChainInvariance == ChainSpec => []ChainInv
<1>1. ChainInit => ChainInv
  BY ChainStarts
<1>2. ChainInv /\ [ChainNext]_chainVars => ChainInv'
  BY ChainSteps
<1> QED BY <1>1, <1>2, PTL DEF ChainSpec

\* For all types, selectors and sequences of dereferences, loads give and stores
\* change exactly what GLSL selects, unless something was read late.
THEOREM AccessesAreMeant == ChainSpec => []AccessesMeant
<1>1. ChainInv => AccessesMeant
  BY DEF ChainInv, AsMeant, AccessesMeant
<1> QED BY <1>1, ChainInvariance, PTL
===============================================================================
