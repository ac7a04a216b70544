----------------------------- MODULE ColorCache -----------------------------
(***************************************************************************)
(* The colour cache of the iLO video decoder (kvm/decoder.go, colorCache)  *)
(* as operators: a cache maps the colours of its active elements to their  *)
(* usage, 0 for the colour used last, and their block counter.  The order  *)
(* of the elements in the Go array decides nothing while usages differ.    *)
(***************************************************************************)
EXTENDS Naturals, FiniteSets

CONSTANTS
    Colors,  \* the colour words an encoder may send
    Slots    \* elements of the cache, 17 in the code

ASSUME SlotsAssumption == Slots \in Nat \ {0}

Element == [usage : Nat, counter : 0..1]

IsCache(cache) ==
    /\ DOMAIN cache \subseteq Colors
    /\ cache \in [DOMAIN cache -> Element]

Empty == [color \in {} |-> [usage |-> 0, counter |-> 0]]

Active(cache) == Cardinality(DOMAIN cache)

\* The colours the current block has used.
Counted(cache) == {c \in DOMAIN cache : cache[c].counter # 0}

\* The usages are the places of a list, and the colours that the block has used
\* are in front.
Ordered(cache) ==
    /\ IsFiniteSet(DOMAIN cache)
    /\ {cache[c].usage : c \in DOMAIN cache} = 0..(Active(cache) - 1)
    /\ \A c, d \in DOMAIN cache : cache[c].usage = cache[d].usage => c = d
    /\ \A c \in DOMAIN cache :
         cache[c].counter # 0 <=> cache[c].usage < Cardinality(Counted(cache))

\* As find would be if it left the block counter of a colour it finds alone.
TouchUncounted(cache, color, old) ==
    [c \in DOMAIN cache \cup {color} |->
        IF c = color /\ c \in DOMAIN cache THEN [cache[c] EXCEPT !.usage = 0]
        ELSE IF c = color THEN [usage |-> 0, counter |-> 1]
        ELSE IF cache[c].usage < old
             THEN [cache[c] EXCEPT !.usage = @ + 1] ELSE cache[c]]

\* The loop lru and find share: younger elements age, the used one leads.
Touch(cache, color, old) ==
    [c \in DOMAIN cache \cup {color} |->
        IF c = color THEN [usage |-> 0, counter |-> 1]
        ELSE IF cache[c].usage < old
             THEN [cache[c] EXCEPT !.usage = @ + 1] ELSE cache[c]]

\* The colours find returns for a code: the element of that usage, if any.
Named(cache, code) == {c \in DOMAIN cache : cache[c].usage = code}

Without(cache, color) == [c \in DOMAIN cache \ {color} |-> cache[c]]

\* lru: the caches a colour sent in full may lead to.  A full cache gives up
\* the element of the highest usage.
Lru(cache, color) ==
    IF color \in DOMAIN cache
    THEN {Touch(cache, color, cache[color].usage)}
    ELSE IF Active(cache) < Slots
         THEN {Touch(cache, color, Active(cache))}
         ELSE {Touch(Without(cache, oldest), color, cache[oldest].usage) :
                   oldest \in Named(cache, Active(cache) - 1)}

\* prune, at the end of a block: an element not used since the last prune is
\* dropped, every other has to be used again.
Prune(cache) ==
    [c \in {d \in DOMAIN cache : cache[d].counter # 0} |->
        [cache[c] EXCEPT !.counter = @ - 1]]

\* updatePixcode: the state that reads a place among this many colours.
Pixcode(cache) ==
    LET active == Active(cache)
    IN  CASE active < 2 -> "LATCHED"
          [] active = 2 -> "PIXLRU0"
          [] active = 3 -> "PIXCODE1"
          [] active \in 4..5 -> "PIXCODE2"
          [] active \in 6..9 -> "PIXCODE3"
          [] OTHER -> "PIXCODE4"
============================================================================
