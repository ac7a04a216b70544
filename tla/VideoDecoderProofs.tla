------------------------- MODULE VideoDecoderProofs -------------------------
(***************************************************************************)
(* Proof that the colour cache of the iLO video decoder is the list that   *)
(* the encoder keeps (VideoDecoder, ColorCache, MoveToFront), and that the *)
(* decoder always reads a place in it with the right width.                *)
(***************************************************************************)
EXTENDS VideoDecoder, Sequences, FiniteSetTheorems, TLAPS

\* An element that ages, and one that has to be used again.
LEMMA Elements ==
    \A r \in Element :
      /\ [r EXCEPT !.usage = @ + 1] \in Element
      /\ [r EXCEPT !.usage = @ + 1].usage = r.usage + 1
      /\ [r EXCEPT !.usage = @ + 1].counter = r.counter
      /\ r.counter # 0 =>
           /\ [r EXCEPT !.counter = @ - 1] \in Element
           /\ [r EXCEPT !.counter = @ - 1].usage = r.usage
           /\ [r EXCEPT !.counter = @ - 1].counter = 0
  BY DEF Element

\* The loop lru and find share, element by element.
LEMMA Touched ==
    ASSUME NEW m, IsCache(m), NEW color \in Colors, NEW old \in Nat
    PROVE  /\ IsCache(Touch(m, color, old))
           /\ DOMAIN Touch(m, color, old) = DOMAIN m \cup {color}
           /\ Touch(m, color, old)[color] = [usage |-> 0, counter |-> 1]
           /\ \A c \in DOMAIN m \ {color} :
                /\ Touch(m, color, old)[c].usage =
                     IF m[c].usage < old THEN m[c].usage + 1 ELSE m[c].usage
                /\ Touch(m, color, old)[c].counter = m[c].counter
  <1> DEFINE t == Touch(m, color, old)
  <1>1. DOMAIN t = DOMAIN m \cup {color}
    BY DEF Touch
  <1>2. t[color] = [usage |-> 0, counter |-> 1]
    BY DEF Touch
  <1>3. \A c \in DOMAIN m : m[c] \in Element /\ m[c].usage \in Nat
    BY DEF IsCache, Element
  <1>4. ASSUME NEW c \in DOMAIN m \ {color}
        PROVE  /\ t[c] \in Element /\ t[c].counter = m[c].counter
               /\ t[c].usage = IF m[c].usage < old THEN m[c].usage + 1 ELSE m[c].usage
    <2>1. t[c] = IF m[c].usage < old THEN [m[c] EXCEPT !.usage = @ + 1] ELSE m[c]
      BY DEF Touch
    <2> QED
      BY <1>3, <2>1, Elements
  <1>5. IsCache(t)
    <2>1. t \in [DOMAIN t -> Element]
      <3>1. \A c \in DOMAIN t : t[c] \in Element
        BY <1>1, <1>2, <1>4 DEF Element
      <3>2. t = [c \in DOMAIN t |-> t[c]]
        BY <1>1 DEF Touch
      <3> QED
        BY <3>1, <3>2
    <2> QED
      BY <1>1, <2>1 DEF IsCache
  <1> QED
    BY <1>1, <1>2, <1>4, <1>5

\* What there is to know of an ordered cache.
LEMMA OrderedIs ==
    ASSUME NEW m, IsCache(m), Ordered(m)
    PROVE  /\ IsFiniteSet(DOMAIN m) /\ Active(m) \in Nat
           /\ IsFiniteSet(Counted(m)) /\ Cardinality(Counted(m)) \in Nat
           /\ Cardinality(Counted(m)) <= Active(m)
           /\ \A c \in DOMAIN m : m[c].usage \in 0..(Active(m) - 1) /\ m[c].counter \in 0..1
           /\ \A u \in 0..(Active(m) - 1) : \E c \in DOMAIN m : m[c].usage = u
  <1>1. Counted(m) \in SUBSET DOMAIN m
    BY DEF Counted
  <1>2. /\ IsFiniteSet(DOMAIN m) /\ Active(m) \in Nat
        /\ IsFiniteSet(Counted(m)) /\ Cardinality(Counted(m)) <= Active(m)
    BY <1>1, FS_CardinalityType, FS_Subset DEF Ordered, Active
  <1>3. Cardinality(Counted(m)) \in Nat
    BY <1>2, FS_CardinalityType
  <1> QED
    BY <1>2, <1>3 DEF Ordered, IsCache, Element

\* find, and lru for a colour the cache has: nothing but the order changes.
LEMMA TouchKept ==
    ASSUME NEW m, IsCache(m), Ordered(m), NEW color \in DOMAIN m
    PROVE  LET t == Touch(m, color, m[color].usage)
               f == Cardinality(Counted(m))
           IN  /\ IsCache(t) /\ Ordered(t) /\ DOMAIN t = DOMAIN m
               /\ Cardinality(Counted(t)) = IF m[color].usage < f THEN f ELSE f + 1
               /\ t[color].usage = 0
               /\ \A c \in DOMAIN m \ {color} :
                    t[c].usage = IF m[c].usage < m[color].usage THEN m[c].usage + 1 ELSE m[c].usage
  <1> DEFINE old == m[color].usage
             t == Touch(m, color, old)
             f == Cardinality(Counted(m))
             n == Active(m)
  <1> SUFFICES /\ IsCache(t) /\ Ordered(t) /\ DOMAIN t = DOMAIN m
               /\ Cardinality(Counted(t)) = IF old < f THEN f ELSE f + 1
               /\ t[color].usage = 0
               /\ \A c \in DOMAIN m \ {color} :
                    t[c].usage = IF m[c].usage < old THEN m[c].usage + 1 ELSE m[c].usage
    OBVIOUS
  <1>1. /\ n \in Nat /\ f \in Nat /\ f <= n /\ color \in Colors /\ old \in Nat /\ old < n
        /\ \A c \in DOMAIN m : m[c].usage \in 0..(n - 1) /\ m[c].counter \in 0..1
        /\ \A u \in 0..(n - 1) : \E c \in DOMAIN m : m[c].usage = u
        /\ \A c, d \in DOMAIN m : m[c].usage = m[d].usage => c = d
        /\ \A c \in DOMAIN m : m[c].counter # 0 <=> m[c].usage < f
    BY OrderedIs DEF IsCache, Ordered
  <1>2. /\ IsCache(t) /\ DOMAIN t = DOMAIN m
        /\ t[color].usage = 0 /\ t[color].counter = 1
        /\ \A c \in DOMAIN m \ {color} :
             /\ t[c].usage = IF m[c].usage < old THEN m[c].usage + 1 ELSE m[c].usage
             /\ t[c].counter = m[c].counter
    <2>1. DOMAIN m \cup {color} = DOMAIN m
      OBVIOUS
    <2>2. [usage |-> 0, counter |-> 1].usage = 0 /\ [usage |-> 0, counter |-> 1].counter = 1
      OBVIOUS
    <2>3. m[color].usage \in Nat /\ color \in Colors
      BY <1>1
    <2> HIDE DEF old
    <2>4. old \in Nat
      BY <2>3 DEF old
    <2>5. /\ IsCache(Touch(m, color, old)) /\ DOMAIN Touch(m, color, old) = DOMAIN m \cup {color}
          /\ Touch(m, color, old)[color] = [usage |-> 0, counter |-> 1]
          /\ \A c \in DOMAIN m \ {color} :
               /\ Touch(m, color, old)[c].usage = IF m[c].usage < old THEN m[c].usage + 1 ELSE m[c].usage
               /\ Touch(m, color, old)[c].counter = m[c].counter
      BY <2>3, <2>4, Touched
    <2> QED
      BY <2>1, <2>2, <2>5
  <1> HIDE DEF old, t, f, n
  <1>3. Active(t) = n
    BY <1>2 DEF Active, n
  <1>4. \A u \in 0..(n - 1) : \E c \in DOMAIN t : t[c].usage = u
    <2> TAKE u \in 0..(n - 1)
    <2>1. CASE u = 0
      BY <2>1, <1>2
    <2>2. CASE u # 0 /\ u <= old
      <3>1. PICK c \in DOMAIN m : m[c].usage = u - 1
        BY <2>2, <1>1
      <3> QED
        BY <3>1, <2>2, <1>1, <1>2 DEF old
    <2>3. CASE u > old
      <3>1. PICK c \in DOMAIN m : m[c].usage = u
        BY <1>1
      <3> QED
        BY <3>1, <2>3, <1>1, <1>2 DEF old
    <2> QED
      BY <2>1, <2>2, <2>3, <1>1
  <1>5. \A c \in DOMAIN t : t[c].usage \in 0..(n - 1)
    BY <1>1, <1>2
  <1>6. \A c, d \in DOMAIN t : t[c].usage = t[d].usage => c = d
    BY <1>1, <1>2 DEF old
  <1>7. /\ Counted(t) = Counted(m) \cup {color}
        /\ Cardinality(Counted(t)) = IF old < f THEN f ELSE f + 1
    <2>1. Counted(t) = Counted(m) \cup {color}
      BY <1>1, <1>2 DEF Counted
    <2>2. color \in Counted(m) <=> old < f
      BY <1>1 DEF Counted, old
    <2> QED
      BY <2>1, <2>2, FS_AddElement, OrderedIs DEF f
  <1>8. \A c \in DOMAIN t : t[c].counter # 0 <=> t[c].usage < Cardinality(Counted(t))
    BY <1>1, <1>2, <1>7 DEF old
  <1>9. Ordered(t)
    <2>1. {t[c].usage : c \in DOMAIN t} = 0..(n - 1)
      BY <1>4, <1>5
    <2> QED
      BY <2>1, <1>2, <1>3, <1>6, <1>8, OrderedIs DEF Ordered
  <1> QED
    BY <1>2, <1>7, <1>9

\* lru for a colour the cache does not have, and room for it: it comes first.
LEMMA TouchNew ==
    ASSUME NEW m, IsCache(m), Ordered(m), NEW color \in Colors, color \notin DOMAIN m
    PROVE  LET t == Touch(m, color, Active(m))
           IN  /\ IsCache(t) /\ Ordered(t) /\ DOMAIN t = DOMAIN m \cup {color}
               /\ Active(t) = Active(m) + 1
               /\ Cardinality(Counted(t)) = Cardinality(Counted(m)) + 1
               /\ t[color].usage = 0
               /\ \A c \in DOMAIN m : t[c].usage = m[c].usage + 1
  <1> DEFINE t == Touch(m, color, Active(m))
             f == Cardinality(Counted(m))
             n == Active(m)
  <1> SUFFICES /\ IsCache(t) /\ Ordered(t) /\ DOMAIN t = DOMAIN m \cup {color}
               /\ Active(t) = n + 1
               /\ Cardinality(Counted(t)) = f + 1
               /\ t[color].usage = 0
               /\ \A c \in DOMAIN m : t[c].usage = m[c].usage + 1
    OBVIOUS
  <1>1. /\ n \in Nat /\ f \in Nat /\ f <= n
        /\ \A c \in DOMAIN m : m[c].usage \in 0..(n - 1) /\ m[c].counter \in 0..1
        /\ \A u \in 0..(n - 1) : \E c \in DOMAIN m : m[c].usage = u
        /\ \A c, d \in DOMAIN m : m[c].usage = m[d].usage => c = d
        /\ \A c \in DOMAIN m : m[c].counter # 0 <=> m[c].usage < f
    BY OrderedIs DEF Ordered
  <1>2. /\ IsCache(t) /\ DOMAIN t = DOMAIN m \cup {color}
        /\ t[color].usage = 0 /\ t[color].counter = 1
        /\ \A c \in DOMAIN m : t[c].usage = m[c].usage + 1 /\ t[c].counter = m[c].counter
    <2>1. [usage |-> 0, counter |-> 1].usage = 0 /\ [usage |-> 0, counter |-> 1].counter = 1
      OBVIOUS
    <2>2. DOMAIN m \ {color} = DOMAIN m
      OBVIOUS
    <2>3. Active(m) \in Nat
      BY <1>1
    <2>4. /\ IsCache(t) /\ DOMAIN t = DOMAIN m \cup {color}
          /\ t[color] = [usage |-> 0, counter |-> 1]
          /\ \A c \in DOMAIN m \ {color} :
               /\ t[c].usage = IF m[c].usage < Active(m) THEN m[c].usage + 1 ELSE m[c].usage
               /\ t[c].counter = m[c].counter
      BY <2>3, Touched
    <2> QED
      BY <1>1, <2>1, <2>2, <2>4
  <1> HIDE DEF t, f, n
  <1>3. Active(t) = n + 1
    <2>1. IsFiniteSet(DOMAIN m) /\ n = Cardinality(DOMAIN m)
      BY OrderedIs DEF Active, n
    <2> QED
      BY <1>2, <2>1, FS_AddElement DEF Active
  <1>4. \A u \in 0..n : \E c \in DOMAIN t : t[c].usage = u
    <2> TAKE u \in 0..n
    <2>1. CASE u = 0
      BY <2>1, <1>2
    <2>2. CASE u # 0
      <3>1. PICK c \in DOMAIN m : m[c].usage = u - 1
        BY <2>2, <1>1
      <3> QED
        BY <3>1, <1>2
    <2> QED
      BY <2>1, <2>2
  <1>5. \A c \in DOMAIN t : t[c].usage \in 0..n
    BY <1>1, <1>2
  <1>6. \A c, d \in DOMAIN t : t[c].usage = t[d].usage => c = d
    BY <1>1, <1>2
  <1>7. Cardinality(Counted(t)) = f + 1
    <2>1. Counted(t) = Counted(m) \cup {color}
      BY <1>1, <1>2 DEF Counted
    <2>2. color \notin Counted(m)
      BY DEF Counted
    <2> QED
      BY <2>1, <2>2, FS_AddElement, OrderedIs DEF f
  <1>8. \A c \in DOMAIN t : t[c].counter # 0 <=> t[c].usage < Cardinality(Counted(t))
    BY <1>1, <1>2, <1>7
  <1>9. Ordered(t)
    <2>1. {t[c].usage : c \in DOMAIN t} = 0..n
      BY <1>4, <1>5
    <2>2. IsFiniteSet(DOMAIN t)
      BY <1>2, FS_AddElement, OrderedIs
    <2>3. (n + 1) - 1 = n
      BY <1>1
    <2> QED
      BY <2>1, <2>2, <2>3, <1>3, <1>6, <1>8 DEF Ordered
  <1> QED
    BY <1>2, <1>3, <1>7, <1>9

\* A full cache gives up the element of the highest usage.
LEMMA WithoutOldest ==
    ASSUME NEW m, IsCache(m), Ordered(m), NEW oldest \in Named(m, Active(m) - 1)
    PROVE  LET w == Without(m, oldest)
           IN  /\ IsCache(w) /\ Ordered(w)
               /\ DOMAIN w = DOMAIN m \ {oldest} /\ \A c \in DOMAIN w : w[c] = m[c]
               /\ Active(w) = Active(m) - 1
               /\ Cardinality(Counted(w)) =
                    IF Cardinality(Counted(m)) = Active(m) THEN Active(m) - 1
                    ELSE Cardinality(Counted(m))
  <1> DEFINE w == Without(m, oldest)
             f == Cardinality(Counted(m))
             n == Active(m)
  <1> SUFFICES /\ IsCache(w) /\ Ordered(w)
               /\ DOMAIN w = DOMAIN m \ {oldest} /\ \A c \in DOMAIN w : w[c] = m[c]
               /\ Active(w) = n - 1
               /\ Cardinality(Counted(w)) = IF f = n THEN n - 1 ELSE f
    OBVIOUS
  <1>1. /\ n \in Nat /\ f \in Nat /\ f <= n
        /\ oldest \in DOMAIN m /\ m[oldest].usage = n - 1
        /\ \A c \in DOMAIN m : m[c].usage \in 0..(n - 1) /\ m[c].counter \in 0..1
        /\ \A u \in 0..(n - 1) : \E c \in DOMAIN m : m[c].usage = u
        /\ \A c, d \in DOMAIN m : m[c].usage = m[d].usage => c = d
        /\ \A c \in DOMAIN m : m[c].counter # 0 <=> m[c].usage < f
    BY OrderedIs DEF Ordered, Named
  <1>2. DOMAIN w = DOMAIN m \ {oldest} /\ \A c \in DOMAIN w : w[c] = m[c]
    BY DEF Without
  <1>3. IsCache(w)
    BY DEF Without, IsCache
  <1> HIDE DEF w, f, n
  <1>4. Active(w) = n - 1 /\ IsFiniteSet(DOMAIN w)
    BY <1>1, <1>2, FS_RemoveElement, OrderedIs DEF Active, n
  <1>5. \A c \in DOMAIN w : w[c].usage \in 0..(n - 2)
    <2> TAKE c \in DOMAIN w
    <2>1. c \in DOMAIN m /\ c # oldest /\ w[c] = m[c]
      BY <1>2
    <2>2. m[c].usage # n - 1
      BY <2>1, <1>1
    <2> QED
      BY <2>1, <2>2, <1>1
  <1>6. \A u \in 0..(n - 2) : \E c \in DOMAIN w : w[c].usage = u
    <2> TAKE u \in 0..(n - 2)
    <2>1. PICK c \in DOMAIN m : m[c].usage = u
      BY <1>1
    <2> QED
      BY <2>1, <1>1, <1>2
  <1>7. Cardinality(Counted(w)) = IF f = n THEN n - 1 ELSE f
    <2>1. Counted(w) = Counted(m) \ {oldest}
      BY <1>2 DEF Counted
    <2>2. oldest \in Counted(m) <=> f = n
      BY <1>1 DEF Counted
    <2> QED
      BY <2>1, <2>2, FS_RemoveElement, OrderedIs DEF f
  <1>8. \A c \in DOMAIN w : w[c].counter # 0 <=> w[c].usage < Cardinality(Counted(w))
    BY <1>1, <1>2, <1>5, <1>7
  <1>9. Ordered(w)
    <2>1. {w[c].usage : c \in DOMAIN w} = 0..(n - 2)
      BY <1>5, <1>6
    <2>2. \A c, d \in DOMAIN w : w[c].usage = w[d].usage => c = d
      BY <1>1, <1>2
    <2>3. (n - 1) - 1 = n - 2
      BY <1>1
    <2> QED
      BY <2>1, <2>2, <2>3, <1>4, <1>8 DEF Ordered
  <1> QED
    BY <1>2, <1>3, <1>4, <1>7, <1>9

\* prune: the colours the block used stay, in their order, and none is counted.
LEMMA Pruned ==
    ASSUME NEW m, IsCache(m), Ordered(m)
    PROVE  /\ IsCache(Prune(m)) /\ Ordered(Prune(m))
           /\ DOMAIN Prune(m) = Counted(m)
           /\ \A c \in DOMAIN Prune(m) : Prune(m)[c].usage = m[c].usage
           /\ Active(Prune(m)) = Cardinality(Counted(m))
           /\ Cardinality(Counted(Prune(m))) = 0
  <1> DEFINE p == Prune(m)
             f == Cardinality(Counted(m))
  <1>1. /\ f \in Nat /\ f <= Active(m) /\ Active(m) \in Nat
        /\ \A c \in DOMAIN m : m[c].usage \in 0..(Active(m) - 1) /\ m[c] \in Element
        /\ \A u \in 0..(Active(m) - 1) : \E c \in DOMAIN m : m[c].usage = u
        /\ \A c, d \in DOMAIN m : m[c].usage = m[d].usage => c = d
        /\ \A c \in DOMAIN m : m[c].counter # 0 <=> m[c].usage < f
    BY OrderedIs DEF Ordered, IsCache
  <1>2. /\ DOMAIN p = Counted(m) /\ Counted(m) \subseteq DOMAIN m
        /\ \A c \in DOMAIN p : p[c] = [m[c] EXCEPT !.counter = @ - 1]
    BY DEF Prune, Counted
  <1>3. \A c \in DOMAIN p : p[c] \in Element /\ p[c].usage = m[c].usage /\ p[c].counter = 0
    BY <1>1, <1>2, Elements DEF Counted
  <1>4. IsCache(p)
    <2>1. p = [c \in DOMAIN p |-> p[c]]
      BY DEF Prune
    <2> QED
      BY <2>1, <1>2, <1>3 DEF IsCache
  <1> HIDE DEF p, f
  <1>5. Active(p) = f /\ IsFiniteSet(DOMAIN p)
    BY <1>2, OrderedIs DEF Active, f
  <1>6. Counted(p) = {} /\ Cardinality(Counted(p)) = 0
    BY <1>3, FS_EmptySet DEF Counted
  <1>7. \A c \in DOMAIN p : p[c].usage \in 0..(f - 1)
    BY <1>1, <1>2, <1>3 DEF Counted
  <1>8. \A u \in 0..(f - 1) : \E c \in DOMAIN p : p[c].usage = u
    <2> TAKE u \in 0..(f - 1)
    <2>1. PICK c \in DOMAIN m : m[c].usage = u
      BY <1>1
    <2> QED
      BY <2>1, <1>1, <1>2, <1>3 DEF Counted
  <1>9. Ordered(p)
    <2>1. {p[c].usage : c \in DOMAIN p} = 0..(f - 1)
      BY <1>7, <1>8
    <2>2. \A c, d \in DOMAIN p : p[c].usage = p[d].usage => c = d
      BY <1>1, <1>2, <1>3
    <2>3. \A c \in DOMAIN p : p[c].counter # 0 <=> p[c].usage < Cardinality(Counted(p))
      BY <1>1, <1>3, <1>6, <1>7
    <2> QED
      BY <2>1, <2>2, <2>3, <1>5 DEF Ordered
  <1> QED
    BY <1>2, <1>3, <1>4, <1>5, <1>6, <1>9 DEF p, f

\* The list of an ordered cache: the colour of a usage, and the place of a colour.
LEMMA ListedIs ==
    ASSUME NEW m, IsCache(m), Ordered(m)
    PROVE  /\ Listed(m) \in Seq(DOMAIN m) /\ Len(Listed(m)) = Active(m)
           /\ Listed(m) = [i \in 1..Active(m) |-> Listed(m)[i]]
           /\ \A i \in 1..Active(m) :
                Listed(m)[i] \in DOMAIN m /\ m[Listed(m)[i]].usage = i - 1
           /\ \A c \in DOMAIN m :
                m[c].usage + 1 \in 1..Active(m) /\ Listed(m)[m[c].usage + 1] = c
  <1>1. /\ Active(m) \in Nat
        /\ \A c \in DOMAIN m : m[c].usage \in 0..(Active(m) - 1)
        /\ \A u \in 0..(Active(m) - 1) : \E c \in DOMAIN m : m[c].usage = u
        /\ \A c, d \in DOMAIN m : m[c].usage = m[d].usage => c = d
    BY OrderedIs DEF Ordered
  <1>2. ASSUME NEW i \in 1..Active(m)
        PROVE  Listed(m)[i] \in DOMAIN m /\ m[Listed(m)[i]].usage = i - 1
    <2>1. \E c \in DOMAIN m : m[c].usage = i - 1
      BY <1>1
    <2>2. Listed(m)[i] = CHOOSE c \in DOMAIN m : m[c].usage = i - 1
      BY DEF Listed
    <2> QED
      BY <2>1, <2>2
  <1>3. Listed(m) = [i \in 1..Active(m) |-> Listed(m)[i]]
    BY DEF Listed
  <1>4. Listed(m) \in Seq(DOMAIN m) /\ Len(Listed(m)) = Active(m)
    BY <1>1, <1>2, <1>3
  <1>5. ASSUME NEW c \in DOMAIN m
        PROVE  m[c].usage + 1 \in 1..Active(m) /\ Listed(m)[m[c].usage + 1] = c
    <2>1. m[c].usage + 1 \in 1..Active(m) /\ (m[c].usage + 1) - 1 = m[c].usage
      BY <1>1
    <2>2. /\ Listed(m)[m[c].usage + 1] \in DOMAIN m
          /\ m[Listed(m)[m[c].usage + 1]].usage = m[c].usage
      BY <2>1, <1>2
    <2> QED
      BY <2>1, <2>2, <1>1
  <1> QED
    BY <1>2, <1>3, <1>4, <1>5

\* Only one list has the colours in the order of their usage.
LEMMA ListedBy ==
    ASSUME NEW m, IsCache(m), Ordered(m),
           NEW s \in Seq(DOMAIN m), Len(s) = Active(m),
           \A i \in 1..Len(s) : m[s[i]].usage = i - 1
    PROVE  Listed(m) = s
  <1> DEFINE r == Listed(m)
  <1>1. r \in Seq(DOMAIN m) /\ Len(r) = Len(s) /\ \A i \in 1..Len(s) : m[r[i]].usage = i - 1
    BY ListedIs
  <1> HIDE DEF r
  <1>2. \A i \in 1..Len(s) : r[i] = s[i]
    <2>1. \A c, d \in DOMAIN m : m[c].usage = m[d].usage => c = d
      BY DEF Ordered
    <2>2. \A i \in 1..Len(s) : r[i] \in DOMAIN m /\ s[i] \in DOMAIN m
      BY <1>1
    <2> QED
      BY <2>1, <2>2, <1>1
  <1>3. r = s
    BY <1>1, <1>2
  <1> QED
    BY <1>3 DEF r

\* A colour that is used moves to the front.
LEMMA ListedKept ==
    ASSUME NEW m, IsCache(m), Ordered(m), NEW color \in DOMAIN m
    PROVE  Listed(Touch(m, color, m[color].usage)) = List!Front(Listed(m), m[color].usage + 1)
  <1> DEFINE old == m[color].usage
             t == Touch(m, color, old)
             s == Listed(m)
             r == List!Front(s, old + 1)
             n == Active(m)
  <1>1. /\ color \in Colors /\ old \in Nat /\ n \in Nat /\ old < n
        /\ \A c \in DOMAIN m : m[c].usage \in 0..(n - 1)
    BY OrderedIs DEF IsCache
  <1>2. IsCache(t) /\ Ordered(t) /\ DOMAIN t = DOMAIN m /\ Active(t) = n
    BY TouchKept DEF Active
  <1>3. /\ t[color].usage = 0
        /\ \A c \in DOMAIN m \ {color} :
             t[c].usage = IF m[c].usage < old THEN m[c].usage + 1 ELSE m[c].usage
    BY TouchKept
  <1>4. /\ Len(s) = n /\ s[old + 1] = color
        /\ \A i \in 1..n : s[i] \in DOMAIN m /\ m[s[i]].usage = i - 1
    BY ListedIs
  <1>5. r = [k \in 1..n |-> IF k = 1 THEN s[old + 1] ELSE IF k <= old + 1 THEN s[k - 1] ELSE s[k]]
    BY <1>4 DEF List!Front
  <1> HIDE DEF old, t, s, r, n
  <1>6. ASSUME NEW k \in 1..n
        PROVE  r[k] \in DOMAIN t /\ t[r[k]].usage = k - 1
    <2>1. CASE k = 1
      BY <2>1, <1>2, <1>3, <1>4, <1>5
    <2>2. CASE k # 1 /\ k <= old + 1
      <3>1. r[k] = s[k - 1] /\ k - 1 \in 1..n
        BY <2>2, <1>1, <1>5
      <3>2. s[k - 1] \in DOMAIN m /\ m[s[k - 1]].usage = (k - 1) - 1
        BY <3>1, <1>4
      <3>3. s[k - 1] # color
        BY <3>2, <2>2, <1>1 DEF old
      <3> QED
        BY <3>1, <3>2, <3>3, <2>2, <1>1, <1>2, <1>3
    <2>3. CASE k > old + 1
      <3>1. r[k] = s[k]
        BY <2>3, <1>1, <1>5
      <3>2. s[k] \in DOMAIN m /\ m[s[k]].usage = k - 1
        BY <1>4
      <3>3. s[k] # color
        BY <3>2, <2>3, <1>1 DEF old
      <3> QED
        BY <3>1, <3>2, <3>3, <2>3, <1>1, <1>2, <1>3
    <2> QED
      BY <2>1, <2>2, <2>3, <1>1
  <1>7. r = [k \in 1..n |-> r[k]]
    BY <1>5
  <1>8. Listed(t) = r
    <2>1. r \in Seq(DOMAIN t) /\ Len(r) = n
      BY <1>1, <1>6, <1>7
    <2> QED
      BY <2>1, <1>2, <1>6, ListedBy
  <1> QED
    BY <1>8 DEF t, r, s, old

\* A colour the cache did not have comes first.
LEMMA ListedNew ==
    ASSUME NEW m, IsCache(m), Ordered(m), NEW color \in Colors, color \notin DOMAIN m
    PROVE  Listed(Touch(m, color, Active(m))) = <<color>> \o Listed(m)
  <1> DEFINE n == Active(m)
             t == Touch(m, color, n)
             s == Listed(m)
             r == <<color>> \o s
  <1>1. n \in Nat /\ \A c \in DOMAIN m : m[c].usage \in 0..(n - 1)
    BY OrderedIs
  <1>2. IsCache(t) /\ Ordered(t) /\ DOMAIN t = DOMAIN m \cup {color} /\ Active(t) = n + 1
    BY TouchNew
  <1>3. t[color].usage = 0 /\ \A c \in DOMAIN m : t[c].usage = m[c].usage + 1
    BY TouchNew
  <1>4. /\ s \in Seq(DOMAIN m) /\ Len(s) = n
        /\ \A i \in 1..n : s[i] \in DOMAIN m /\ m[s[i]].usage = i - 1
    BY ListedIs
  <1> HIDE DEF n, t, s
  <1>5. /\ r = [k \in 1..(n + 1) |-> r[k]]
        /\ \A k \in 1..(n + 1) : r[k] = IF k = 1 THEN color ELSE s[k - 1]
    BY <1>1, <1>4
  <1> HIDE DEF r
  <1>6. ASSUME NEW k \in 1..(n + 1)
        PROVE  r[k] \in DOMAIN t /\ t[r[k]].usage = k - 1
    <2>1. CASE k = 1
      BY <2>1, <1>2, <1>3, <1>5
    <2>2. CASE k # 1
      <3>1. r[k] = s[k - 1] /\ k - 1 \in 1..n
        BY <2>2, <1>1, <1>5
      <3>2. s[k - 1] \in DOMAIN m \ {color} /\ m[s[k - 1]].usage = (k - 1) - 1
        BY <3>1, <1>4
      <3> QED
        BY <3>1, <3>2, <1>1, <1>2, <1>3
    <2> QED
      BY <2>1, <2>2
  <1>7. Listed(t) = r
    <2>1. n + 1 \in Nat /\ \A k \in 1..(n + 1) : r[k] \in DOMAIN t
      BY <1>1, <1>6
    <2>2. r \in Seq(DOMAIN t) /\ Len(r) = n + 1
      BY <2>1, <1>5
    <2> QED
      BY <2>2, <1>2, <1>6, ListedBy
  <1> QED
    BY <1>7 DEF t, r, s, n

\* The colour a full cache gives up is the last one.
LEMMA ListedWithout ==
    ASSUME NEW m, IsCache(m), Ordered(m), NEW oldest \in Named(m, Active(m) - 1)
    PROVE  Listed(Without(m, oldest)) = SubSeq(Listed(m), 1, Active(m) - 1)
  <1> DEFINE w == Without(m, oldest)
             s == Listed(m)
             n == Active(m)
             r == SubSeq(s, 1, n - 1)
  <1>1. n \in Nat /\ n # 0 /\ m[oldest].usage = n - 1
    BY OrderedIs DEF Named
  <1>2. /\ IsCache(w) /\ Ordered(w) /\ Active(w) = n - 1
        /\ DOMAIN w = DOMAIN m \ {oldest} /\ \A c \in DOMAIN w : w[c] = m[c]
    BY WithoutOldest
  <1>3. /\ s \in Seq(DOMAIN m) /\ Len(s) = n
        /\ \A i \in 1..n : s[i] \in DOMAIN m /\ m[s[i]].usage = i - 1
    BY ListedIs
  <1> HIDE DEF n, w, s
  <1>4. r = [k \in 1..(n - 1) |-> s[k]]
    BY <1>1, <1>3
  <1> HIDE DEF r
  <1>5. ASSUME NEW k \in 1..(n - 1)
        PROVE  r[k] \in DOMAIN w /\ w[r[k]].usage = k - 1
    <2>1. r[k] = s[k] /\ k \in 1..n
      BY <1>1, <1>4
    <2>2. s[k] \in DOMAIN m /\ m[s[k]].usage = k - 1
      BY <2>1, <1>3
    <2>3. s[k] # oldest
      BY <2>2, <1>1
    <2> QED
      BY <2>1, <2>2, <2>3, <1>2
  <1>6. r = [k \in 1..(n - 1) |-> r[k]]
    BY <1>4
  <1>7. Listed(w) = r
    <2>1. r \in Seq(DOMAIN w) /\ Len(r) = n - 1
      BY <1>1, <1>5, <1>6
    <2> QED
      BY <2>1, <1>2, <1>5, ListedBy
  <1> QED
    BY <1>7 DEF w, r, s, n

\* The colours that a block's end leaves are the first ones.
LEMMA ListedPruned ==
    ASSUME NEW m, IsCache(m), Ordered(m)
    PROVE  Listed(Prune(m)) = SubSeq(Listed(m), 1, Cardinality(Counted(m)))
  <1> DEFINE p == Prune(m)
             s == Listed(m)
             n == Active(m)
             f == Cardinality(Counted(m))
             r == SubSeq(s, 1, f)
  <1>1. /\ n \in Nat /\ f \in Nat /\ f <= n
        /\ \A c \in DOMAIN m : m[c].counter # 0 <=> m[c].usage < f
    BY OrderedIs DEF Ordered
  <1>2. /\ IsCache(p) /\ Ordered(p) /\ Active(p) = f
        /\ DOMAIN p = Counted(m) /\ \A c \in DOMAIN p : p[c].usage = m[c].usage
    BY Pruned
  <1>3. /\ s \in Seq(DOMAIN m) /\ Len(s) = n
        /\ \A i \in 1..n : s[i] \in DOMAIN m /\ m[s[i]].usage = i - 1
    BY ListedIs
  <1> HIDE DEF n, f, p, s
  <1>4. r = [k \in 1..f |-> s[k]]
    BY <1>1, <1>3
  <1> HIDE DEF r
  <1>5. ASSUME NEW k \in 1..f
        PROVE  r[k] \in DOMAIN p /\ p[r[k]].usage = k - 1
    <2>1. r[k] = s[k] /\ k \in 1..n
      BY <1>1, <1>4
    <2>2. s[k] \in DOMAIN m /\ m[s[k]].usage = k - 1
      BY <2>1, <1>3
    <2>3. s[k] \in Counted(m)
      BY <2>2, <1>1 DEF Counted
    <2> QED
      BY <2>1, <2>2, <2>3, <1>2
  <1>6. r = [k \in 1..f |-> r[k]]
    BY <1>4
  <1>7. Listed(p) = r
    <2>1. r \in Seq(DOMAIN p) /\ Len(r) = f
      BY <1>1, <1>5, <1>6
    <2> QED
      BY <2>1, <1>2, <1>5, ListedBy
  <1> QED
    BY <1>7 DEF p, r, s, f

----------------------------------------------------------------------------
\* A cache that is emptied.
LEMMA EmptyIs ==
    /\ IsCache(Empty) /\ Ordered(Empty) /\ DOMAIN Empty = {}
    /\ Active(Empty) = 0 /\ Cardinality(Counted(Empty)) = 0
  <1>1. DOMAIN Empty = {}
    BY DEF Empty
  <1>2. Counted(Empty) = {}
    BY <1>1 DEF Counted
  <1>3. Active(Empty) = 0 /\ Cardinality(Counted(Empty)) = 0 /\ IsFiniteSet(DOMAIN Empty)
    BY <1>1, <1>2, FS_EmptySet DEF Active
  <1>4. IsCache(Empty)
    BY DEF IsCache, Empty
  <1>5. {Empty[c].usage : c \in DOMAIN Empty} = 0..(Active(Empty) - 1)
    BY <1>1, <1>3
  <1>6. Ordered(Empty)
    BY <1>1, <1>3, <1>5 DEF Ordered
  <1> QED
    BY <1>1, <1>3, <1>4, <1>6

\* lru keeps the cache ordered and within its slots.
LEMMA LruKeeps ==
    ASSUME NEW m, IsCache(m), Ordered(m), Active(m) <= Slots,
           NEW color \in Colors, NEW t \in Lru(m, color)
    PROVE  IsCache(t) /\ Ordered(t) /\ Active(t) <= Slots
  <1>1. Active(m) \in Nat /\ Slots \in Nat \ {0}
    BY OrderedIs, SlotsAssumption
  <1>2. CASE color \in DOMAIN m
    <2>1. t = Touch(m, color, m[color].usage)
      BY <1>2 DEF Lru
    <2> QED
      BY <1>2, <2>1, TouchKept DEF Active
  <1>3. CASE color \notin DOMAIN m /\ Active(m) < Slots
    <2>1. t = Touch(m, color, Active(m))
      BY <1>3 DEF Lru
    <2>2. IsCache(t) /\ Ordered(t) /\ Active(t) = Active(m) + 1
      BY <1>3, <2>1, TouchNew
    <2> QED
      BY <1>1, <1>3, <2>2
  <1>4. CASE color \notin DOMAIN m /\ ~(Active(m) < Slots)
    <2>1. PICK oldest \in Named(m, Active(m) - 1) :
            t = Touch(Without(m, oldest), color, m[oldest].usage)
      BY <1>4 DEF Lru
    <2> DEFINE w == Without(m, oldest)
    <2>2. /\ IsCache(w) /\ Ordered(w) /\ DOMAIN w = DOMAIN m \ {oldest}
          /\ Active(w) = Active(m) - 1
      BY WithoutOldest
    <2>3. m[oldest].usage = Active(w)
      BY <2>2 DEF Named
    <2>4. t = Touch(w, color, Active(w))
      BY <2>1, <2>3
    <2>5. color \notin DOMAIN w
      BY <1>4, <2>2
    <2> HIDE DEF w
    <2>6. IsCache(t) /\ Ordered(t) /\ Active(t) = Active(w) + 1
      BY <2>2, <2>4, <2>5, TouchNew
    <2> QED
      BY <1>1, <2>2, <2>6
  <1> QED
    BY <1>2, <1>3, <1>4

\* As many colours, the same width of a place.
LEMMA SameWidth ==
    ASSUME NEW m, NEW t, Active(t) = Active(m)
    PROVE  Pixcode(t) = Pixcode(m)
  BY DEF Pixcode

\* The states stateTable leads to.
LEMMA Leads ==
    /\ \A s \in States : stateTable[s][2] \in States /\ stateTable[s][3] \in States
    /\ {"RESET", "START", "LATCHED", "PIXLRU0", "PIXCODE", "PIXCODE1", "PIXCODE2", "PIXCODE3",
        "PIXCODE4", "PIXRPTSTD2", "PIXRPTNSTD", "PRINT0", "EXIT"} \subseteq States
  <1>1. \A s \in States : stateTable[s][2] \in States
    BY SMTT(60) DEF States, stateTable
  <1>2. \A s \in States : stateTable[s][3] \in States
    BY SMTT(60) DEF States, stateTable
  <1>3. {"RESET", "START", "LATCHED", "PIXLRU0", "PIXCODE", "PIXCODE1", "PIXCODE2", "PIXCODE3",
         "PIXCODE4", "PIXRPTSTD2", "PIXRPTNSTD", "PRINT0", "EXIT"} \subseteq States
    BY SMTT(60) DEF States, stateTable
  <1> QED
    BY <1>1, <1>2, <1>3

LEMMA Follows ==
    ASSUME TypeOK, NEW code
    PROVE  Follow(code) \in States
  BY Leads DEF Follow, TypeOK

LEMMA Widths ==
    ASSUME NEW m
    PROVE  Pixcode(m) \in States
  <1>1. Pixcode(m) \in {"LATCHED", "PIXLRU0", "PIXCODE1", "PIXCODE2", "PIXCODE3", "PIXCODE4"}
    BY DEF Pixcode
  <1> QED
    BY <1>1, Leads

LEMMA Pixels ==
    ASSUME TypeOK, NEW n \in Nat
    PROVE  Stored(n) \in 0..(blockSize + 1)
  BY BlockAssumption DEF Stored, TypeOK

----------------------------------------------------------------------------
\* The end of step keeps the invariant, whatever the step made of the cache.
LEMMA Concluded ==
    ASSUME IInv, NEW next \in States, NEW count \in 0..(blockSize + 1), NEW colors,
           IsCache(colors), Ordered(colors), Active(colors) <= Slots,
           fan = Pixcode(colors) \/ colors = cache,
           Conclude(next, count, colors, fan), UNCHANGED blockSize
    PROVE  /\ decoderState' \in States /\ fan' \in States
           /\ pixelCount' \in 0..(blockSize' + 1)
           /\ IsCache(cache') /\ Ordered(cache') /\ Active(cache') <= Slots
           /\ cache' # Empty => fan' = Pixcode(cache')
  <1>1. CASE next = "PIXELS" /\ count = blockSize
    <2>1. /\ decoderState' = "START" /\ pixelCount' = 0
          /\ cache' = Prune(colors) /\ fan' = Pixcode(cache')
      BY <1>1 DEF Conclude
    <2>2. decoderState' \in States /\ fan' \in States
      BY <2>1, Leads, Widths
    <2>3. pixelCount' \in 0..(blockSize' + 1)
      BY <2>1, BlockAssumption DEF IInv, TypeOK
    <2>4. Active(colors) \in Nat /\ Cardinality(Counted(colors)) <= Active(colors)
      BY OrderedIs
    <2>5. /\ IsCache(Prune(colors)) /\ Ordered(Prune(colors))
          /\ Active(Prune(colors)) = Cardinality(Counted(colors))
          /\ Cardinality(Counted(colors)) \in Nat
      BY Pruned, OrderedIs
    <2> QED
      BY <2>1, <2>2, <2>3, <2>4, <2>5, SlotsAssumption
  <1>2. CASE ~(next = "PIXELS" /\ count = blockSize)
    <2>1. decoderState' = next /\ pixelCount' = count /\ cache' = colors /\ fan' = fan
      BY <1>2 DEF Conclude
    <2> QED
      BY <2>1 DEF IInv, TypeOK, FanFresh
  <1> QED
    BY <1>1, <1>2

LEMMA InitIInv ==
    Init => IInv
  <1> SUFFICES ASSUME Init PROVE IInv
    OBVIOUS
  <1>1. TypeOK
    <2>1. decoderState \in States /\ fan \in States
      BY Leads DEF Init
    <2>2. IsCache(cache)
      BY EmptyIs DEF Init
    <2>3. pixelCount \in 0..(blockSize + 1) /\ blockSize \in {BlockSize, HalfBlock}
      BY BlockAssumption DEF Init
    <2>4. fatalCount \in 0..FatalLimit
      BY BlockAssumption DEF Init
    <2> QED
      BY <2>1, <2>2, <2>3, <2>4 DEF Init, TypeOK
  <1>2. Ordered(cache) /\ WithinSlots /\ FanFresh
    BY EmptyIs, SlotsAssumption DEF Init, WithinSlots, FanFresh
  <1> QED
    BY <1>1, <1>2 DEF IInv

LEMMA IInvAgain ==
    ASSUME decoderState' \in States, fan' \in States,
           blockSize' \in {BlockSize, HalfBlock}, pixelCount' \in 0..(blockSize' + 1),
           IsCache(cache'), Ordered(cache'), Active(cache') <= Slots,
           cache' # Empty => fan' = Pixcode(cache'),
           lastColor' \in Colors, fatalCount' \in 0..FatalLimit,
           wanted' \in BOOLEAN, halt' \in BOOLEAN, follower' \in BOOLEAN, asked' \in BOOLEAN
    PROVE  IInv'
  <1>1. TypeOK'
    BY DEF TypeOK
  <1>2. Ordered(cache)' /\ WithinSlots' /\ FanFresh'
    BY DEF WithinSlots, FanFresh
  <1> QED
    BY <1>1, <1>2 DEF IInv

\* The invariant is inductive.
LEMMA NextIInv ==
    IInv /\ [Next]_vars => IInv'
  <1> SUFFICES ASSUME IInv, [Next]_vars PROVE IInv'
    OBVIOUS
  <1>0. /\ TypeOK
        /\ decoderState \in States /\ fan \in States
        /\ blockSize \in {BlockSize, HalfBlock} /\ blockSize \in Nat
        /\ pixelCount \in 0..(blockSize + 1)
        /\ IsCache(cache) /\ Ordered(cache) /\ Active(cache) <= Slots
        /\ cache # Empty => fan = Pixcode(cache)
        /\ lastColor \in Colors /\ fatalCount \in 0..FatalLimit
        /\ wanted \in BOOLEAN /\ halt \in BOOLEAN /\ follower \in BOOLEAN /\ asked \in BOOLEAN
    BY BlockAssumption DEF IInv, TypeOK, WithinSlots, FanFresh
  <1>0a. 0 \in 0..(blockSize + 1) /\ 0 \in 0..FatalLimit
    BY <1>0, BlockAssumption
  <1>1. CASE Reset
    <2>1. decoderState' \in States
      BY <1>1, <1>0, Follows DEF Reset
    <2>2. cache' = Empty /\ IsCache(cache') /\ Ordered(cache') /\ Active(cache') <= Slots
      BY <1>1, EmptyIs, SlotsAssumption DEF Reset
    <2>3. pixelCount' \in 0..(blockSize' + 1) /\ fatalCount' \in 0..FatalLimit
      BY <1>1, <1>0a DEF Reset, Aside
    <2> QED
      BY <1>1, <2>1, <2>2, <2>3, <1>0, IInvAgain DEF Reset, Aside
  <1>2. CASE PixelCode
    BY <1>2, <1>0, Widths, IInvAgain DEF PixelCode, Aside, Latch
  <1>3. CASE RepeatBlock
    BY <1>3, <1>0, <1>0a, Leads, IInvAgain DEF RepeatBlock, Aside, Latch
  <1>4. CASE Mode
    <2>1. decoderState' \in States
      BY <1>4, <1>0, Follows DEF Mode
    <2>2. blockSize' \in {BlockSize, HalfBlock} /\ pixelCount' = 0
      BY <1>4 DEF Mode
    <2>3. blockSize' \in Nat
      BY <2>2, BlockAssumption
    <2>4. pixelCount' \in 0..(blockSize' + 1)
      <3>1. \A size \in Nat : 0 \in 0..(size + 1)
        OBVIOUS
      <3> QED
        BY <2>2, <2>3, <3>1
    <2>5. cache' = Empty /\ IsCache(cache') /\ Ordered(cache') /\ Active(cache') <= Slots
      BY <1>4, EmptyIs, SlotsAssumption DEF Mode
    <2> QED
      BY <1>4, <2>1, <2>2, <2>4, <2>5, <1>0, IInvAgain DEF Mode, Latch
  <1>5. CASE CommandOctet
    BY <1>5, <1>0, Follows, IInvAgain DEF CommandOctet, Aside, Latch
  <1>6. CASE Latched
    <2>1. fatalCount' \in 0..FatalLimit /\ wanted' \in BOOLEAN
      BY <1>6, <1>0, BlockAssumption DEF Latched
    <2> QED
      BY <1>6, <2>1, <1>0, IInvAgain DEF Latched, Aside
  <1>7. CASE Exit
    BY <1>7, <1>0, IInvAgain DEF Exit, Latch
  <1>8. ASSUME NEW code \in Codes(decoderState), Select(code)
        PROVE  IInv'
    <2>1. Follow(code) \in States
      BY <1>0, Follows
    <2>2. Conclude(Follow(code), pixelCount, cache, fan) /\ UNCHANGED blockSize
      BY <1>8 DEF Select, Aside
    <2> QED
      BY <1>8, <2>1, <2>2, <1>0, Concluded, IInvAgain DEF Select, Aside, Latch
  <1>9. ASSUME NEW code \in Codes(decoderState), CachedPixel(code)
        PROVE  IInv'
    <2>0. Follow(code) \in States /\ Stored(1) \in 0..(blockSize + 1)
      BY <1>0, Follows, Pixels
    <2>1. ASSUME NEW color \in Named(cache, Place(code)), lastColor' = color,
                 Conclude(Follow(code), Stored(1), Touch(cache, color, Place(code)), fan)
          PROVE  IInv'
      <3>1. PICK colors : colors = Touch(cache, color, Place(code))
        OBVIOUS
      <3>2. color \in DOMAIN cache /\ cache[color].usage = Place(code) /\ color \in Colors
        BY <1>0 DEF Named, IsCache
      <3>3. IsCache(colors) /\ Ordered(colors) /\ Active(colors) = Active(cache)
        BY <3>1, <3>2, <1>0, TouchKept DEF Active
      <3>4. fan = Pixcode(colors)
        BY <3>2, <3>3, <1>0, SameWidth, EmptyIs
      <3>5. Conclude(Follow(code), Stored(1), colors, fan) /\ UNCHANGED blockSize
        BY <2>1, <3>1, <1>9 DEF CachedPixel, Aside
      <3>6. Active(colors) <= Slots
        BY <3>3, <1>0
      <3> QED
        BY <1>9, <2>0, <2>1, <3>2, <3>3, <3>4, <3>5, <3>6, <1>0, Concluded, IInvAgain
           DEF CachedPixel, Aside, Latch
    <2>2. CASE UNCHANGED <<fan, cache, pixelCount, lastColor>> /\ decoderState' = "LATCHED"
      BY <1>9, <2>2, <1>0, Leads, IInvAgain DEF CachedPixel, Aside, Latch
    <2> QED
      BY <1>9, <2>1, <2>2 DEF CachedPixel
  <1>10. ASSUME NEW code \in Codes(decoderState), Repeat(code)
         PROVE  IInv'
    <2>1. code \in Nat
      BY DEF Codes
    <2>2. Repeats(code) \in Nat
      BY <1>10, <2>1 DEF Repeat, Repeats
    <2>3. Follow(code) \in States /\ Stored(Repeats(code)) \in 0..(blockSize + 1)
      BY <2>2, <1>0, Follows, Pixels
    <2>4. Conclude(Follow(code), Stored(Repeats(code)), cache, fan) /\ UNCHANGED blockSize
      BY <1>10 DEF Repeat, Aside
    <2> QED
      BY <1>10, <2>3, <2>4, <1>0, Concluded, IInvAgain DEF Repeat, Aside, Latch
  <1>11. ASSUME NEW code \in Codes(decoderState), RepeatLonger(code)
         PROVE  IInv'
    BY <1>11, <1>0, Leads, IInvAgain DEF RepeatLonger, Aside, Latch
  <1>12. ASSUME NEW color \in Colors, NewPixel(color)
         PROVE  IInv'
    <2>1. IsCache(cache') /\ Ordered(cache') /\ Active(cache') <= Slots
      BY <1>12, <1>0, LruKeeps DEF NewPixel
    <2>2. fan' = Pixcode(cache') /\ fan' \in States
      BY <1>12, Widths DEF NewPixel
    <2>3. decoderState' \in States
      BY <1>12, <1>0, Follows, Leads DEF NewPixel
    <2>4. pixelCount' \in 0..(blockSize' + 1) /\ lastColor' \in Colors
      BY <1>12, <1>0, Pixels DEF NewPixel, Aside
    <2> QED
      BY <1>12, <2>1, <2>2, <2>3, <2>4, <1>0, IInvAgain DEF NewPixel, Aside, Latch
  <1>13. ASSUME NEW command \in Commands, Command(command)
         PROVE  IInv'
    <2>1. decoderState' \in States
      BY <1>13, <1>0, Follows, Leads DEF Command
    <2> QED
      BY <1>13, <2>1, <1>0, IInvAgain DEF Command, Aside, Latch
  <1>14. CASE Resync
    BY <1>14, <1>0, Leads, IInvAgain DEF Resync, Aside, Latch
  <1>15. CASE FeedEnds
    <2>1. wanted' \in BOOLEAN /\ asked' \in BOOLEAN
      BY <1>15, <1>0 DEF FeedEnds
    <2> QED
      BY <1>15, <2>1, <1>0, IInvAgain DEF FeedEnds, Aside
  <1>16. CASE UNCHANGED vars
    BY <1>16, <1>0, IInvAgain DEF vars
  <1> QED
    BY <1>1, <1>2, <1>3, <1>4, <1>5, <1>6, <1>7, <1>8, <1>9, <1>10, <1>11, <1>12, <1>13,
       <1>14, <1>15, <1>16 DEF Next, Symbol

\* The invariant holds in every state of the decoder.
THEOREM DecoderInvariant == SafetySpec => []IInv
  <1>1. Init => IInv
    BY InitIInv
  <1>2. IInv /\ [Next]_vars => IInv'
    BY NextIInv
  <1> QED
    BY <1>1, <1>2, PTL DEF SafetySpec

\* A place in the cache is always read with the width for the number of colours
\* in it: lru, prune and the loop that find shares with it see to that.
THEOREM DecoderFanFresh == SafetySpec => []FanFresh
  <1>1. IInv => FanFresh
    BY DEF IInv
  <1> QED
    BY <1>1, DecoderInvariant, PTL

----------------------------------------------------------------------------
(* The steps of the decoder as steps of the list *)

\* What the list is, of an ordered cache.
LEMMA ListIs ==
    ASSUME IInv
    PROVE  /\ IsCache(cache) /\ Ordered(cache) /\ Active(cache) <= Slots
           /\ Active(cache) \in Nat /\ Cardinality(Counted(cache)) \in Nat
           /\ Cardinality(Counted(cache)) <= Active(cache)
           /\ Len(ByUsage) = Active(cache)
           /\ \A c \in DOMAIN cache :
                cache[c].usage + 1 \in 1..Len(ByUsage) /\ ByUsage[cache[c].usage + 1] = c
           /\ \A i \in 1..Len(ByUsage) : ByUsage[i] \in DOMAIN cache
  <1>1. IsCache(cache) /\ Ordered(cache) /\ Active(cache) <= Slots
    BY DEF IInv, TypeOK, WithinSlots
  <1> QED
    BY <1>1, OrderedIs, ListedIs DEF ByUsage

LEMMA ListStays ==
    UNCHANGED <<cache, lastColor>> => UNCHANGED List!vars
  BY DEF List!vars, ByUsage

\* A block ends.
LEMMA ListForgets ==
    ASSUME IInv, cache' = Prune(cache), lastColor' = lastColor
    PROVE  List!Next
  <1>1. ByUsage' = SubSeq(ByUsage, 1, Cardinality(Counted(cache)))
    BY ListIs, ListedPruned DEF ByUsage
  <1>2. Cardinality(Counted(cache))' = 0
    BY ListIs, Pruned
  <1> QED
    BY <1>1, <1>2 DEF List!Next, List!Forget

\* The stream starts again.
LEMMA ListClears ==
    ASSUME cache' = Empty, lastColor' = lastColor
    PROVE  List!Next
  <1>1. Listed(Empty) = <<>>
    BY EmptyIs, ListedIs
  <1>2. ByUsage' = <<>>
    BY <1>1 DEF ByUsage
  <1>3. Cardinality(Counted(cache))' = 0
    BY EmptyIs
  <1> QED
    BY <1>2, <1>3 DEF List!Next, List!Clear

\* A colour of the cache is used.
LEMMA ListUses ==
    ASSUME IInv, NEW color \in DOMAIN cache,
           cache' = Touch(cache, color, cache[color].usage), lastColor' \in {lastColor, color}
    PROVE  List!Next
  <1>1. PICK i : i = cache[color].usage + 1
    OBVIOUS
  <1>2. i \in 1..Len(ByUsage) /\ ByUsage[i] = color
    BY <1>1, ListIs
  <1>3. ByUsage' = List!Front(ByUsage, i)
    BY <1>1, ListIs, ListedKept DEF ByUsage
  <1>4. Cardinality(Counted(cache))' = List!Used(i)
    <2>1. cache[color].usage \in Nat
      BY ListIs, OrderedIs
    <2>2. Cardinality(Counted(cache))' =
            IF cache[color].usage < Cardinality(Counted(cache))
            THEN Cardinality(Counted(cache)) ELSE Cardinality(Counted(cache)) + 1
      BY ListIs, TouchKept
    <2> QED
      BY <1>1, <2>1, <2>2, ListIs DEF List!Used
  <1>5. List!Use(i)
    BY <1>2, <1>3, <1>4 DEF List!Use
  <1> QED
    BY <1>2, <1>5 DEF List!Next

\* The pixel that ends a block uses a colour of the cache.
LEMMA ListUsesLast ==
    ASSUME IInv, NEW color \in DOMAIN cache,
           cache' = Prune(Touch(cache, color, cache[color].usage)), lastColor' = color
    PROVE  List!Next
  <1>1. PICK i : i = cache[color].usage + 1
    OBVIOUS
  <1>2. i \in 1..Len(ByUsage) /\ ByUsage[i] = color
    BY <1>1, ListIs
  <1>3. PICK t : t = Touch(cache, color, cache[color].usage)
    OBVIOUS
  <1>4. IsCache(t) /\ Ordered(t) /\ cache' = Prune(t)
    BY <1>3, ListIs, TouchKept
  <1>5. Listed(t) = List!Front(ByUsage, i)
    BY <1>1, <1>3, ListIs, ListedKept DEF ByUsage
  <1>6. Cardinality(Counted(t)) = List!Used(i)
    <2>1. cache[color].usage \in Nat
      BY ListIs, OrderedIs
    <2>2. Cardinality(Counted(t)) =
            IF cache[color].usage < Cardinality(Counted(cache))
            THEN Cardinality(Counted(cache)) ELSE Cardinality(Counted(cache)) + 1
      BY <1>3, ListIs, TouchKept
    <2> QED
      BY <1>1, <2>1, <2>2, ListIs DEF List!Used
  <1>7. ByUsage' = SubSeq(List!Front(ByUsage, i), 1, List!Used(i))
    BY <1>4, <1>5, <1>6, ListedPruned DEF ByUsage
  <1>8. Cardinality(Counted(cache))' = 0
    BY <1>4, Pruned
  <1>9. List!UseLast(i)
    BY <1>2, <1>7, <1>8 DEF List!UseLast
  <1> QED
    BY <1>2, <1>9 DEF List!Next

\* A colour that the cache does not have is inserted.
LEMMA ListInserts ==
    ASSUME IInv, NEW color \in Colors, color \notin DOMAIN cache,
           cache' \in Lru(cache, color), lastColor' = color
    PROVE  List!Next
  <1>1. Slots \in Nat \ {0}
    BY SlotsAssumption
  <1>2. List!Absent(color)
    BY ListIs DEF List!Absent
  <1>3. CASE Active(cache) < Slots
    <2>1. cache' = Touch(cache, color, Active(cache))
      BY <1>3 DEF Lru
    <2>2. ByUsage' = <<color>> \o ByUsage
      BY <2>1, ListIs, ListedNew DEF ByUsage
    <2>3. SubSeq(ByUsage, 1, Len(ByUsage)) = ByUsage
      BY ListIs, ListedIs DEF ByUsage
    <2>4. Cardinality(Counted(cache))' = Cardinality(Counted(cache)) + 1
      BY <2>1, ListIs, TouchNew
    <2>5. Len(ByUsage) < Slots /\ Cardinality(Counted(cache)) # Slots
      BY <1>1, <1>3, ListIs
    <2> QED
      BY <1>2, <2>2, <2>3, <2>4, <2>5 DEF List!Next, List!Insert
  <1>4. CASE ~(Active(cache) < Slots)
    <2>1. PICK oldest \in Named(cache, Active(cache) - 1) :
            cache' = Touch(Without(cache, oldest), color, cache[oldest].usage)
      BY <1>4 DEF Lru
    <2>2. PICK w : w = Without(cache, oldest)
      OBVIOUS
    <2>3. /\ IsCache(w) /\ Ordered(w) /\ Active(w) = Active(cache) - 1
          /\ DOMAIN w = DOMAIN cache \ {oldest}
          /\ Cardinality(Counted(w)) = IF Cardinality(Counted(cache)) = Active(cache)
                                       THEN Active(cache) - 1 ELSE Cardinality(Counted(cache))
      BY <2>2, ListIs, WithoutOldest
    <2>4. cache[oldest].usage = Active(w)
      BY <2>3 DEF Named
    <2>5. cache' = Touch(w, color, Active(w)) /\ color \notin DOMAIN w
      BY <2>1, <2>2, <2>3, <2>4
    <2>6. Active(cache) = Slots
      BY <1>1, <1>4, ListIs
    <2>7. Listed(w) = SubSeq(ByUsage, 1, Slots - 1)
      BY <2>2, <2>6, ListIs, ListedWithout DEF ByUsage
    <2>8. ByUsage' = <<color>> \o SubSeq(ByUsage, 1, Slots - 1)
      BY <2>3, <2>5, <2>7, ListedNew DEF ByUsage
    <2>9. Cardinality(Counted(cache))' = IF Cardinality(Counted(cache)) = Slots
                                         THEN Cardinality(Counted(cache))
                                         ELSE Cardinality(Counted(cache)) + 1
      <3>1. Cardinality(Counted(cache))' = Cardinality(Counted(w)) + 1
        BY <2>3, <2>5, TouchNew
      <3> QED
        BY <3>1, <2>3, <2>6, <1>1, ListIs
    <2>10. ~(Len(ByUsage) < Slots)
      BY <1>4, ListIs
    <2> QED
      BY <1>2, <2>8, <2>9, <2>10 DEF List!Next, List!Insert
  <1> QED
    BY <1>3, <1>4

\* Every step of the decoder is a step of the list, or leaves it alone.
LEMMA NextList ==
    IInv /\ [Next]_vars => [List!Next]_(List!vars)
  <1> SUFFICES ASSUME IInv, [Next]_vars PROVE List!Next \/ UNCHANGED List!vars
    OBVIOUS
  <1>1. CASE Reset
    BY <1>1, ListClears DEF Reset
  <1>2. CASE PixelCode \/ RepeatBlock \/ CommandOctet \/ Latched \/ Exit
    BY <1>2, ListStays DEF PixelCode, RepeatBlock, CommandOctet, Latched, Exit
  <1>3. CASE Mode
    BY <1>3, ListClears DEF Mode
  <1>4. ASSUME NEW next, NEW count, Conclude(next, count, cache, fan), lastColor' = lastColor
        PROVE  List!Next \/ UNCHANGED List!vars
    BY <1>4, ListForgets, ListStays DEF Conclude
  <1>5. ASSUME NEW code \in Codes(decoderState), Select(code) \/ Repeat(code)
        PROVE  List!Next \/ UNCHANGED List!vars
    BY <1>5, <1>4 DEF Select, Repeat
  <1>6. ASSUME NEW code \in Codes(decoderState), CachedPixel(code)
        PROVE  List!Next \/ UNCHANGED List!vars
    <2>1. ASSUME NEW color \in Named(cache, Place(code)), lastColor' = color,
                 Conclude(Follow(code), Stored(1), Touch(cache, color, Place(code)), fan)
          PROVE  List!Next
      <3>1. color \in DOMAIN cache /\ cache[color].usage = Place(code)
        BY DEF Named
      <3>2. \/ cache' = Touch(cache, color, cache[color].usage)
            \/ cache' = Prune(Touch(cache, color, cache[color].usage))
        BY <2>1, <3>1 DEF Conclude
      <3> QED
        BY <2>1, <3>1, <3>2, ListUses, ListUsesLast
    <2>2. CASE UNCHANGED <<fan, cache, pixelCount, lastColor>>
      BY <2>2, ListStays
    <2> QED
      BY <1>6, <2>1, <2>2 DEF CachedPixel
  <1>7. ASSUME NEW code \in Codes(decoderState), RepeatLonger(code)
        PROVE  List!Next \/ UNCHANGED List!vars
    BY <1>7, ListStays DEF RepeatLonger
  <1>8. ASSUME NEW color \in Colors, NewPixel(color)
        PROVE  List!Next \/ UNCHANGED List!vars
    <2>1. CASE color \in DOMAIN cache
      <3>1. cache' = Touch(cache, color, cache[color].usage) /\ lastColor' = lastColor
        BY <1>8, <2>1 DEF NewPixel, Lru
      <3> QED
        BY <2>1, <3>1, ListUses
    <2>2. CASE color \notin DOMAIN cache
      BY <1>8, <2>2, ListInserts DEF NewPixel
    <2> QED
      BY <2>1, <2>2
  <1>9. ASSUME NEW command \in Commands, Command(command)
        PROVE  List!Next \/ UNCHANGED List!vars
    BY <1>9, ListStays DEF Command
  <1>10. CASE Resync \/ FeedEnds
    BY <1>10, ListStays DEF Resync, FeedEnds
  <1>11. CASE UNCHANGED vars
    BY <1>11, ListStays DEF vars
  <1> QED
    BY <1>1, <1>2, <1>3, <1>5, <1>6, <1>7, <1>8, <1>9, <1>10, <1>11 DEF Next, Symbol

\* The cache is the list that the encoder keeps: whatever the stream, a place
\* names the colour the encoder means, and a block's end forgets exactly the
\* colours that the block did not use.
THEOREM DecoderKeepsList == SafetySpec => KeepsList
  <1>1. Init => List!Init
    <2>1. Listed(Empty) = <<>>
      BY EmptyIs, ListedIs
    <2> QED
      BY <2>1, EmptyIs DEF Init, List!Init, ByUsage
  <1>2. IInv /\ [Next]_vars => [List!Next]_(List!vars)
    BY NextList
  <1> QED
    BY <1>1, <1>2, DecoderInvariant, PTL DEF SafetySpec, KeepsList, List!Spec
=============================================================================
