----------------------------- MODULE LimitsProofs -----------------------------
(***************************************************************************)
(* Theorems about Limits, for any number of connections, players and       *)
(* addresses, any cap, burst, rate and cooldown, and a clock that runs to   *)
(* any bound.                                                              *)
(***************************************************************************)
EXTENDS Limits, FiniteSetTheorems, SequenceTheorems, TLAPS

-----------------------------------------------------------------------------
(* The arithmetic of buckets *)

(* What a sequence g of grants leaves at time t: Accounted, as a set of      *)
(* bounds of which the least counts.                                       *)
Bounds(t, g)    == {Full} \cup {Full + (t - g[i]) - (Len(g) - i + 1) * Refill : i \in DOMAIN g}
Least(v, S)     == v \in S /\ \A w \in S : v <= w
Capped(v)       == IF v > Full THEN Full ELSE v

(* A bucket holds a natural number of ticks.                               *)
LEMMA FullType == Full \in Nat
BY LimitsAssumption DEF Full

(* The least element of a set of integers is its minimum.                  *)
LEMMA LeastIsMin ==
  ASSUME NEW S, S \subseteq Int, NEW v \in Int, Least(v, S)
  PROVE  Min(S) = v
<1>1. v \in S /\ \A y \in S : v <= y
  BY DEF Least
<1>2. Min(S) \in S /\ \A y \in S : Min(S) <= y
  BY <1>1, Zenon DEF Min
<1>3. Min(S) <= v /\ v <= Min(S)
  BY <1>1, <1>2
<1>4. Min(S) \in Int
  BY <1>2
<1> HIDE DEF Min
<1> QED BY <1>3, <1>4

(* Bounds are integers.                                                    *)
LEMMA BoundsType ==
  ASSUME NEW t \in Nat, NEW g \in Seq(Nat)
  PROVE  Bounds(t, g) \subseteq Int
BY FullType, LimitsAssumption DEF Bounds

(* A tick adds one to a bucket that is not full.                           *)
LEMMA LeastTick ==
  ASSUME NEW t \in Nat, NEW g \in Seq(Nat), NEW v \in Int, Least(v, Bounds(t, g))
  PROVE  Least(Capped(v + 1), Bounds(t + 1, g))
<1> DEFINE low(u, i) == Full + (u - g[i]) - (Len(g) - i + 1) * Refill
<1>1. \A u \in Nat, i \in DOMAIN g : low(u, i) \in Int /\ low(u + 1, i) = low(u, i) + 1
  <2> SUFFICES ASSUME NEW u \in Nat, NEW i \in DOMAIN g
               PROVE  low(u, i) \in Int /\ low(u + 1, i) = low(u, i) + 1
    OBVIOUS
  <2> DEFINE used == (Len(g) - i + 1) * Refill
  <2>1. used \in Int /\ g[i] \in Nat
    BY LimitsAssumption
  <2>2. low(u, i) = Full + (u - g[i]) - used /\ low(u + 1, i) = Full + (u + 1 - g[i]) - used
    OBVIOUS
  <2>3. \A m, a, b, d \in Int : m + (a - b) - d \in Int /\ m + (a + 1 - b) - d = m + (a - b) - d + 1
    OBVIOUS
  <2>4. Full \in Int /\ u \in Int /\ g[i] \in Int
    BY <2>1, FullType
  <2> HIDE DEF used, low
  <2>5. /\ Full + (u - g[i]) - used \in Int
        /\ Full + (u + 1 - g[i]) - used = Full + (u - g[i]) - used + 1
    BY <2>1, <2>3, <2>4
  <2> QED BY <2>2, <2>5
<1>2. \A u : Bounds(u, g) = {Full} \cup {low(u, i) : i \in DOMAIN g}
  BY DEF Bounds
<1> HIDE DEF low
<1>3. v <= Full /\ \A i \in DOMAIN g : v <= low(t, i)
  BY <1>2 DEF Least
<1>4. v = Full \/ \E i \in DOMAIN g : v = low(t, i)
  BY <1>2 DEF Least
<1>5. Capped(v + 1) \in Bounds(t + 1, g)
  BY <1>1, <1>2, <1>3, <1>4, FullType DEF Capped
<1>6. \A w \in Bounds(t + 1, g) : Capped(v + 1) <= w
  <2>1. \A i \in DOMAIN g : v + 1 <= low(t + 1, i)
    BY <1>1, <1>3
  <2>2. \A w \in Bounds(t + 1, g) : w = Full \/ v + 1 <= w
    BY <1>2, <2>1
  <2>3. Capped(v + 1) <= Full /\ Capped(v + 1) <= v + 1 /\ Capped(v + 1) \in Int
    BY FullType DEF Capped
  <2>4. \A w \in Bounds(t + 1, g) : w \in Int
    BY BoundsType
  <2> QED BY <2>2, <2>3, <2>4, FullType
<1> QED BY <1>5, <1>6 DEF Least

(* A granted request takes a token.                                        *)
LEMMA LeastGrant ==
  ASSUME NEW t \in Nat, NEW g \in Seq(Nat), NEW v \in Int, Least(v, Bounds(t, g))
  PROVE  Least(v - Refill, Bounds(t, Append(g, t)))
<1> DEFINE h == Append(g, t)
           low(s, i) == Full + (t - s[i]) - (Len(s) - i + 1) * Refill
<1>1. /\ DOMAIN g = 1 .. Len(g) /\ Len(g) \in Nat
      /\ DOMAIN h = 1 .. (Len(g) + 1) /\ Len(h) = Len(g) + 1
      /\ \A i \in 1 .. Len(g) : h[i] = g[i] /\ g[i] \in Nat
      /\ h[Len(g) + 1] = t
  OBVIOUS
<1>2. Refill \in Nat \ {0}
  BY LimitsAssumption
<1>3. \A i \in 1 .. Len(g) : low(g, i) \in Int /\ low(h, i) = low(g, i) - Refill
  BY <1>1, <1>2, FullType
<1>4. low(h, Len(g) + 1) = Full - Refill
  BY <1>1, <1>2, FullType
<1>5. \A s : Bounds(t, s) = {Full} \cup {low(s, i) : i \in DOMAIN s}
  BY DEF Bounds
<1> HIDE DEF low, h
<1>6. v <= Full /\ \A i \in 1 .. Len(g) : v <= low(g, i)
  BY <1>1, <1>5 DEF Least
<1>7. v = Full \/ \E i \in 1 .. Len(g) : v = low(g, i)
  BY <1>1, <1>5 DEF Least
<1>8. v - Refill \in Bounds(t, h)
  BY <1>1, <1>3, <1>4, <1>5, <1>7
<1>9. \A w \in Bounds(t, h) : v - Refill <= w
  <2> SUFFICES ASSUME NEW w \in Bounds(t, h) PROVE v - Refill <= w
    OBVIOUS
  <2>1. CASE w = Full
    BY <2>1, <1>2, <1>6, FullType
  <2>2. ASSUME NEW i \in 1 .. Len(g), w = low(h, i) PROVE v - Refill <= w
    BY <2>2, <1>2, <1>3, <1>6
  <2>3. CASE w = low(h, Len(g) + 1)
    BY <2>3, <1>2, <1>4, <1>6, FullType
  <2> QED BY <2>1, <2>2, <2>3, <1>1, <1>5
<1> QED BY <1>8, <1>9 DEF Least, h

-----------------------------------------------------------------------------
(* The inductive invariant *)

Labels  == {"closed", "upgrading", "open", "placing", "closing"}
Buckets == [tokens : 0 .. Full, lastRefill : 0 .. clock, lastSeen : 0 .. clock]

(* A connection that holds a slot has an address.                          *)
HolderHasAddress == \A c \in Conns : pc[c] # "closed" => address[c] \in Addresses

(* Every call of Allow refills: what a sweep looks at is the last refill.   *)
SeenIsRefilled ==
  \A ip \in Addresses : buckets[ip] # Nothing => buckets[ip].lastSeen = buckets[ip].lastRefill

(* A bucket holds the least of the bounds its grants set.                  *)
Exact == \A ip \in Addresses : Least(Tokens(ip), Bounds(clock, grants[ip]))

LimitsInv ==
  /\ TypeOK
  /\ HolderHasAddress
  /\ SlotsCounted
  /\ SeenIsRefilled
  /\ Exact

Holders(ip) == {c \in Conns : pc[c] # "closed" /\ address[c] = ip}

(* What stands for the absence of a bucket is not a bucket.                 *)
LEMMA NothingIsNoBucket == clock \in Nat => Nothing \notin Buckets /\ Nothing \notin Nat
BY LimitsAssumption, FullType DEF Buckets

(* The tokens of an address are a natural number, at most a burst.          *)
LEMMA TokensType ==
  ASSUME TypeOK, NEW ip \in Addresses
  PROVE  Tokens(ip) \in 0 .. Full
<1>1. clock \in Nat /\ Full \in Nat
  BY FullType, LimitsAssumption DEF TypeOK
<1>2. CASE buckets[ip] = Nothing
  BY <1>1, <1>2 DEF Tokens
<1>3. CASE buckets[ip] # Nothing
  <2> DEFINE b == buckets[ip]
  <2>1. b \in Buckets
    BY <1>3 DEF TypeOK, Buckets
  <2>2. b.tokens \in 0 .. Full /\ b.lastRefill \in 0 .. clock
    BY <2>1 DEF Buckets
  <2> HIDE DEF b
  <2>3. Refilled(b) \in 0 .. Full
    BY <1>1, <2>2 DEF Refilled
  <2> QED BY <1>3, <2>3 DEF Tokens, b
<1> QED BY <1>2, <1>3

(* At the start the invariant holds.                                       *)
LEMMA InitInv == Init => LimitsInv
<1> SUFFICES ASSUME Init PROVE LimitsInv
  OBVIOUS
<1>1. TypeOK
  BY LimitsAssumption DEF Init, TypeOK
<1>2. HolderHasAddress /\ SeenIsRefilled
  BY DEF Init, HolderHasAddress, SeenIsRefilled
<1>3. SlotsCounted
  <2>1. \A ip \in Addresses : {c \in Conns : pc[c] # "closed" /\ address[c] = ip} = {}
    BY DEF Init
  <2> QED BY <2>1, FS_EmptySet DEF Init, SlotsCounted
<1>4. Exact
  <2> SUFFICES ASSUME NEW ip \in Addresses PROVE Least(Tokens(ip), Bounds(clock, grants[ip]))
    BY DEF Exact
  <2>1. Tokens(ip) = Full /\ grants[ip] = <<>>
    BY DEF Init, Tokens
  <2>2. Bounds(clock, <<>>) = {Full}
    BY DEF Bounds
  <2> QED BY <2>1, <2>2, FullType DEF Least
<1> QED BY <1>1, <1>2, <1>3, <1>4 DEF LimitsInv

-----------------------------------------------------------------------------
(* Types *)

(* What a refilled bucket, with a token less or not, is.                    *)
LEMMA BucketType ==
  ASSUME TypeOK, NEW n \in 0 .. Full
  PROVE  Bucket(n) \in Buckets
<1>1. clock \in Nat
  BY LimitsAssumption DEF TypeOK
<1> QED BY <1>1 DEF Bucket, Buckets

(* Every step keeps the types, and the address of who holds a slot.         *)
LEMMA TypeStep ==
  ASSUME TypeOK, HolderHasAddress, [Next]_vars
  PROVE  TypeOK' /\ HolderHasAddress'
<1> USE LimitsAssumption DEF limiter, conn, history, Goto
<1>0. clock \in Nat /\ MaxClock \in Nat
  BY DEF TypeOK
<1>1. CASE Tick
  <2>1. clock' \in 0 .. MaxClock /\ clock' = clock + 1
    BY <1>0, <1>1 DEF Tick, TypeOK
  <2>2. 0 .. clock \subseteq 0 .. clock'
    BY <1>0, <2>1
  <2>3. buckets' \in [Addresses -> {Nothing} \cup Buckets']
    <3>1. Buckets \subseteq Buckets'
      BY <2>2, <1>1 DEF Buckets, Full
    <3> QED BY <3>1, <1>1 DEF TypeOK, Tick, Buckets
  <2>4. grants' \in [Addresses -> Seq(0 .. clock')]
    <3>1. \A g \in Seq(0 .. clock) : g \in Seq(0 .. clock')
      BY <2>2, SeqMonotonic
    <3> QED BY <3>1, <1>1 DEF TypeOK, Tick
  <2> QED BY <1>1, <2>1, <2>2, <2>3, <2>4 DEF Tick, TypeOK, HolderHasAddress, Buckets
<1>2. CASE SweepIdle
  <2>1. buckets' \in [Addresses -> {Nothing} \cup Buckets]
    BY <1>2 DEF SweepIdle, TypeOK, Buckets
  <2> QED BY <1>2, <2>1 DEF SweepIdle, TypeOK, HolderHasAddress, Buckets, Full
<1>3. ASSUME NEW c \in Conns, NEW ip \in Addresses, Open(c, ip)
      PROVE  TypeOK' /\ HolderHasAddress'
  <2>1. counts' \in [Addresses -> 0 .. Cap]
    BY <1>3 DEF Open, Acquire, TypeOK
  <2> QED BY <1>3, <2>1 DEF Open, TypeOK, HolderHasAddress, Full
<1>4. ASSUME NEW c \in Conns, UpgradeFails(c) \/ Upgraded(c) \/ Leave(c)
      PROVE  TypeOK' /\ HolderHasAddress'
  BY <1>4 DEF UpgradeFails, Upgraded, Leave, GivesUp, TypeOK, HolderHasAddress, Full
<1>5. ASSUME NEW c \in Conns, Close(c)
      PROVE  TypeOK' /\ HolderHasAddress'
  <2>1. address[c] \in Addresses
    BY <1>5 DEF Close, HolderHasAddress
  <2>2. counts' \in [Addresses -> 0 .. Cap]
    BY <1>5, <2>1 DEF Close, Release, TypeOK
  <2> QED BY <1>5, <2>2 DEF Close, TypeOK, HolderHasAddress, Full
<1>6. ASSUME NEW c \in Conns, Ask(c)
      PROVE  TypeOK' /\ HolderHasAddress'
  <2>1. address[c] \in Addresses
    BY <1>6 DEF Ask, HolderHasAddress
  <2>2. Bucket(Tokens(address[c]) - Refill) \in Buckets
    <3>1. Tokens(address[c]) - Refill \in 0 .. Full
      BY <1>6, <2>1, TokensType, FullType DEF Ask
    <3> QED BY <3>1, BucketType
  <2>3. buckets' \in [Addresses -> {Nothing} \cup Buckets']
    BY <1>6, <2>2 DEF Ask, TypeOK, Buckets, Full
  <2>4. grants' \in [Addresses -> Seq(0 .. clock)]
    <3>1. \A g \in Seq(0 .. clock) : Append(g, clock) \in Seq(0 .. clock)
      BY <1>0, AppendProperties
    <3>2. grants[address[c]] \in Seq(0 .. clock)
      BY <2>1 DEF TypeOK
    <3> QED BY <1>6, <3>1, <3>2 DEF Ask, TypeOK
  <2> QED BY <1>0, <1>6, <2>3, <2>4 DEF Ask, TypeOK, HolderHasAddress, Buckets
<1>7. ASSUME NEW c \in Conns, AskTooSoon(c)
      PROVE  TypeOK' /\ HolderHasAddress'
  <2>1. address[c] \in Addresses
    BY <1>7 DEF AskTooSoon, HolderHasAddress
  <2>2. Denied(address[c]) \in Buckets
    BY <2>1, TokensType, BucketType DEF Denied
  <2>3. buckets' \in [Addresses -> {Nothing} \cup Buckets']
    BY <1>7, <2>2 DEF AskTooSoon, TypeOK, Buckets, Full
  <2> QED BY <1>7, <2>3 DEF AskTooSoon, TypeOK, HolderHasAddress, Buckets
<1>8. ASSUME NEW c \in Conns, Place(c) \/ Refuse(c)
      PROVE  TypeOK' /\ HolderHasAddress'
  <2>1. Answered(c) /\ UNCHANGED <<clock, limiter, address, grants>>
    BY <1>8 DEF Place, Refuse
  <2>2. placedAt' \in [Conns -> 0 .. clock \cup {Nothing}]
    <3>1. clock \in 0 .. clock \cup {Nothing}
      BY <1>0
    <3>2. CASE Place(c)
      BY <3>1, <3>2 DEF Place, TypeOK
    <3>3. CASE Refuse(c)
      BY <3>3 DEF Refuse, TypeOK
    <3> QED BY <1>8, <3>2, <3>3
  <2>3. asked' \in [Conns -> 0 .. clock \cup {Nothing}]
    BY <2>1 DEF Answered, TypeOK
  <2>4. pc' \in [Conns -> Labels]
    BY <2>1 DEF Answered, TypeOK, Labels
  <2>5. HolderHasAddress'
    BY <2>1 DEF Answered, TypeOK, HolderHasAddress
  <2> QED BY <2>1, <2>2, <2>3, <2>4, <2>5 DEF TypeOK, Full, Labels
<1>9. CASE UNCHANGED vars
  BY <1>9 DEF vars, TypeOK, HolderHasAddress, Full
<1> QED BY <1>1, <1>2, <1>3, <1>4, <1>5, <1>6, <1>7, <1>8, <1>9 DEF Next

-----------------------------------------------------------------------------
(* Slots *)

(* The connections of an address are finitely many.                         *)
LEMMA HoldersFinite ==
  ASSUME NEW ip
  PROVE  IsFiniteSet(Holders(ip))
BY LimitsAssumption, FS_Subset DEF Holders

(* Every step keeps counts equal to the connections of each address.        *)
LEMMA SlotsStep ==
  ASSUME TypeOK, HolderHasAddress, SlotsCounted, [Next]_vars
  PROVE  SlotsCounted'
<1> USE DEF limiter, conn, history, Goto
<1>0. \A ip \in Addresses : counts[ip] = Cardinality(Holders(ip))
  BY DEF SlotsCounted, Holders
<1>1. SUFFICES \A ip \in Addresses : counts'[ip] = Cardinality(Holders(ip)')
  BY DEF SlotsCounted, Holders
<1>2. ASSUME counts' = counts, \A ip \in Addresses : Holders(ip)' = Holders(ip)
      PROVE  \A ip \in Addresses : counts'[ip] = Cardinality(Holders(ip)')
  BY <1>0, <1>2
<1>3. ASSUME NEW c \in Conns, NEW jp \in Addresses, Open(c, jp)
      PROVE  \A ip \in Addresses : counts'[ip] = Cardinality(Holders(ip)')
  <2> TAKE ip \in Addresses
  <2>1. CASE ip = jp
    <3>1. c \notin Holders(jp) /\ Holders(jp)' = Holders(jp) \cup {c}
      BY <1>3 DEF Open, Holders, TypeOK
    <3>2. Cardinality(Holders(jp) \cup {c}) = Cardinality(Holders(jp)) + 1
      BY <3>1, HoldersFinite, FS_AddElement
    <3>3. counts'[jp] = counts[jp] + 1
      BY <1>3 DEF Open, Acquire, TypeOK
    <3> QED BY <1>0, <2>1, <3>1, <3>2, <3>3
  <2>2. CASE ip # jp
    <3>1. Holders(ip)' = Holders(ip)
      BY <1>3, <2>2 DEF Open, Holders, TypeOK
    <3>2. counts'[ip] = counts[ip]
      BY <1>3, <2>2 DEF Open, Acquire, TypeOK
    <3> QED BY <1>0, <3>1, <3>2
  <2> QED BY <2>1, <2>2
<1>4. ASSUME NEW c \in Conns, Close(c)
      PROVE  \A ip \in Addresses : counts'[ip] = Cardinality(Holders(ip)')
  <2> DEFINE jp == address[c]
  <2>1. jp \in Addresses
    BY <1>4 DEF Close, HolderHasAddress
  <2> TAKE ip \in Addresses
  <2>2. CASE ip = jp
    <3>1. c \in Holders(ip) /\ Holders(ip)' = Holders(ip) \ {c}
      BY <1>4, <2>2 DEF Close, Holders, TypeOK
    <3>2. /\ Cardinality(Holders(ip) \ {c}) = Cardinality(Holders(ip)) - 1
          /\ Cardinality(Holders(ip)) \in Nat
      BY <3>1, HoldersFinite, FS_RemoveElement, FS_CardinalityType
    <3>3. Cardinality(Holders(ip) \ {c}) \in Nat
      BY HoldersFinite, FS_Subset, FS_CardinalityType, FS_RemoveElement
    <3>4. counts'[ip] = IF counts[ip] > 0 THEN counts[ip] - 1 ELSE 0
      BY <1>4, <2>1, <2>2 DEF Close, Release, TypeOK
    <3> QED BY <1>0, <3>1, <3>2, <3>3, <3>4
  <2>3. CASE ip # jp
    <3>1. Holders(ip)' = Holders(ip)
      BY <1>4, <2>3 DEF Close, Holders, TypeOK
    <3>2. counts'[ip] = counts[ip]
      BY <1>4, <2>3 DEF Close, Release, TypeOK
    <3> QED BY <1>0, <3>1, <3>2
  <2> QED BY <2>2, <2>3
<1>5. ASSUME NEW c \in Conns, UpgradeFails(c) \/ Upgraded(c) \/ Leave(c)
      PROVE  counts' = counts /\ \A ip \in Addresses : Holders(ip)' = Holders(ip)
  BY <1>5 DEF UpgradeFails, Upgraded, Leave, GivesUp, TypeOK, Holders
<1>6. ASSUME NEW c \in Conns, Ask(c) \/ AskTooSoon(c) \/ Place(c) \/ Refuse(c)
      PROVE  counts' = counts /\ \A ip \in Addresses : Holders(ip)' = Holders(ip)
  BY <1>6 DEF Ask, AskTooSoon, Place, Refuse, Answered, TypeOK, Holders
<1>7. CASE Tick \/ SweepIdle \/ UNCHANGED vars
  BY <1>2, <1>7 DEF Tick, SweepIdle, vars, Holders
<1> QED BY <1>2, <1>3, <1>4, <1>5, <1>6, <1>7 DEF Next

-----------------------------------------------------------------------------
(* Buckets *)

(* After Tick, a bucket holds a tick more, and no more than a burst.        *)
LEMMA TickTokens ==
  ASSUME TypeOK, Tick, NEW ip \in Addresses
  PROVE  Tokens(ip)' = Capped(Tokens(ip) + 1)
<1>1. clock \in Nat /\ Full \in Nat /\ clock' = clock + 1 /\ buckets' = buckets
  BY FullType, LimitsAssumption DEF TypeOK, Tick, limiter
<1>2. CASE buckets[ip] = Nothing
  BY <1>1, <1>2 DEF Tokens, Capped, Full
<1>3. CASE buckets[ip] # Nothing
  <2> DEFINE b == buckets[ip]
  <2>1. b \in Buckets
    BY <1>3 DEF TypeOK, Buckets
  <2>2. b.tokens \in 0 .. Full /\ b.lastRefill \in 0 .. clock
    BY <2>1 DEF Buckets
  <2>3. Tokens(ip) = Refilled(b)
    BY <1>3 DEF Tokens
  <2>4. Tokens(ip)' = Capped(b.tokens + (clock' - b.lastRefill))
    BY <1>1, <1>3 DEF Tokens, Refilled, Capped, Full
  <2> HIDE DEF b
  <2>5. Refilled(b) = Capped(b.tokens + (clock - b.lastRefill))
    BY DEF Refilled, Capped
  <2> QED BY <1>1, <2>2, <2>3, <2>4, <2>5 DEF Capped
<1> QED BY <1>2, <1>3

(* A bucket that has just been written holds what was written.              *)
LEMMA WrittenTokens ==
  ASSUME TypeOK, NEW ip \in Addresses, NEW n \in 0 .. Full,
         clock' = clock, buckets' = [buckets EXCEPT ![ip] = Bucket(n)]
  PROVE  /\ Tokens(ip)' = n
         /\ \A jp \in Addresses \ {ip} : Tokens(jp)' = Tokens(jp)
         /\ SeenIsRefilled => SeenIsRefilled'
<1>1. clock \in Nat /\ Full \in Nat
  BY FullType, LimitsAssumption DEF TypeOK
<1>2. buckets'[ip] = Bucket(n) /\ \A jp \in Addresses \ {ip} : buckets'[jp] = buckets[jp]
  BY DEF TypeOK
<1>3. Bucket(n) # Nothing
  BY <1>1, BucketType, NothingIsNoBucket
<1>4. Tokens(ip)' = n
  <2>1. Tokens(ip)' = Refilled(Bucket(n))
    BY <1>2, <1>3 DEF Tokens, Refilled, Full
  <2>2. Refilled(Bucket(n)) = n
    BY <1>1 DEF Refilled, Bucket
  <2> QED BY <2>1, <2>2
<1>5. \A jp \in Addresses \ {ip} : Tokens(jp)' = Tokens(jp)
  BY <1>2 DEF Tokens, Refilled, Full
<1>6. SeenIsRefilled => SeenIsRefilled'
  BY <1>2 DEF SeenIsRefilled, Bucket
<1> QED BY <1>4, <1>5, <1>6

(* Where the tokens, the time and the grants are the same, buckets are as    *)
(* exact as they were.                                                     *)
LEMMA SameBuckets ==
  ASSUME Exact, UNCHANGED <<clock, grants>>, \A ip \in Addresses : Tokens(ip)' = Tokens(ip)
  PROVE  Exact'
<1>1. \A ip \in Addresses : Bounds(clock, grants[ip])' = Bounds(clock, grants[ip])
  BY DEF Bounds, Full
<1>2. \A ip \in Addresses : Least(Tokens(ip)', Bounds(clock, grants[ip])')
  BY <1>1 DEF Exact
<1> QED BY <1>2 DEF Exact, Least

(* Every step keeps buckets exact.  Sweeping a bucket makes it a full one:  *)
(* it has not been used for as long as it takes to fill.                   *)
LEMMA BucketStep ==
  ASSUME LimitsInv, [Next]_vars
  PROVE  SeenIsRefilled' /\ Exact'
<1> USE DEF limiter, conn, history, Goto
<1>0. /\ TypeOK /\ HolderHasAddress /\ SeenIsRefilled /\ Exact
      /\ clock \in Nat /\ Full \in Nat /\ Refill \in Nat \ {0}
      /\ \A ip \in Addresses : grants[ip] \in Seq(Nat)
  <2>1. TypeOK /\ HolderHasAddress /\ SeenIsRefilled /\ Exact
    BY DEF LimitsInv
  <2>2. clock \in Nat
    BY <2>1, LimitsAssumption DEF TypeOK
  <2>3. \A ip \in Addresses : grants[ip] \in Seq(Nat)
    <3>1. \A g \in Seq(0 .. clock) : g \in Seq(Nat)
      BY <2>2, SeqMonotonic
    <3> QED BY <2>1, <3>1 DEF TypeOK
  <2> QED BY <2>1, <2>2, <2>3, FullType, LimitsAssumption
<1>1. CASE Tick
  <2>1. SeenIsRefilled'
    BY <1>0, <1>1 DEF Tick, SeenIsRefilled
  <2>2. ASSUME NEW ip \in Addresses
        PROVE  Least(Tokens(ip)', Bounds(clock', grants'[ip]))
    <3>1. Least(Tokens(ip), Bounds(clock, grants[ip])) /\ Tokens(ip) \in Int
      BY <1>0, TokensType DEF Exact
    <3>2. Least(Capped(Tokens(ip) + 1), Bounds(clock + 1, grants[ip]))
      BY <1>0, <3>1, LeastTick
    <3>3. clock' = clock + 1 /\ grants' = grants
      BY <1>1 DEF Tick
    <3> QED BY <1>0, <1>1, <3>2, <3>3, TickTokens
  <2> QED BY <2>1, <2>2 DEF Exact, Bounds, Full, Least
<1>2. CASE SweepIdle
  <2>1. UNCHANGED <<clock, grants>>
    BY <1>2 DEF SweepIdle
  <2>2. ASSUME NEW ip \in Addresses
        PROVE  \/ buckets'[ip] = buckets[ip]
               \/ buckets[ip] # Nothing /\ buckets'[ip] = Nothing /\ Tokens(ip) = Full
    <3>1. CASE buckets[ip] # Nothing /\ LongIdle(buckets[ip])
      <4> DEFINE b == buckets[ip]
      <4>1. b \in Buckets /\ b.lastSeen = b.lastRefill /\ clock - b.lastSeen > Idle
        BY <1>0, <3>1 DEF TypeOK, Buckets, SeenIsRefilled, LongIdle
      <4>2. b.tokens \in 0 .. Full /\ b.lastRefill \in 0 .. clock /\ Idle \in Nat /\ Idle >= Full
        BY <4>1, LimitsAssumption DEF Buckets, Full
      <4>3. Tokens(ip) = Refilled(b)
        BY <3>1 DEF Tokens
      <4> HIDE DEF b
      <4>4. Refilled(b) = Full
        BY <1>0, <4>1, <4>2 DEF Refilled
      <4> QED BY <1>2, <3>1, <4>3, <4>4 DEF SweepIdle
    <3>2. CASE ~(buckets[ip] # Nothing /\ LongIdle(buckets[ip]))
      BY <1>2, <3>2 DEF SweepIdle
    <3> QED BY <3>1, <3>2
  <2>3. \A ip \in Addresses : Tokens(ip)' = Tokens(ip)
    BY <2>1, <2>2 DEF Tokens, Refilled, Full
  <2>4. SeenIsRefilled'
    BY <1>0, <2>2 DEF SeenIsRefilled
  <2> QED BY <1>0, <2>1, <2>3, <2>4, SameBuckets
<1>3. ASSUME NEW c \in Conns, Ask(c)
      PROVE  SeenIsRefilled' /\ Exact'
  <2>1. PICK ip \in Addresses : ip = address[c]
    BY <1>0, <1>3 DEF Ask, HolderHasAddress
  <2>2. PICK n \in 0 .. Full : n = Tokens(ip) - Refill /\ Tokens(ip) \in Int
    BY <1>0, <1>3, <2>1, TokensType DEF Ask
  <2>3. /\ clock' = clock
        /\ buckets' = [buckets EXCEPT ![ip] = Bucket(n)]
        /\ grants' = [grants EXCEPT ![ip] = Append(@, clock)]
    BY <1>3, <2>1, <2>2 DEF Ask
  <2>4. /\ Tokens(ip)' = n
        /\ \A jp \in Addresses \ {ip} : Tokens(jp)' = Tokens(jp)
        /\ SeenIsRefilled'
    BY <1>0, <2>3, WrittenTokens
  <2>5. ASSUME NEW jp \in Addresses
        PROVE  Least(Tokens(jp)', Bounds(clock, grants'[jp]))
    <3>1. CASE jp = ip
      <4>1. Least(n, Bounds(clock, Append(grants[ip], clock)))
        BY <1>0, <2>1, <2>2, LeastGrant DEF Exact
      <4>2. grants'[ip] = Append(grants[ip], clock)
        BY <1>0, <2>1, <2>3 DEF TypeOK
      <4> QED BY <2>4, <3>1, <4>1, <4>2
    <3>2. CASE jp # ip
      <4>1. grants'[jp] = grants[jp]
        BY <1>0, <2>3, <3>2 DEF TypeOK
      <4> QED BY <1>0, <2>4, <3>2, <4>1 DEF Exact
    <3> QED BY <3>1, <3>2
  <2> QED BY <2>3, <2>4, <2>5 DEF Exact, Bounds, Full, Least
<1>4. ASSUME NEW c \in Conns, AskTooSoon(c)
      PROVE  SeenIsRefilled' /\ Exact'
  <2>1. PICK ip \in Addresses : ip = address[c]
    BY <1>0, <1>4 DEF AskTooSoon, HolderHasAddress
  <2>2. PICK n \in 0 .. Full : n = Tokens(ip)
    BY <1>0, TokensType
  <2>3. UNCHANGED <<clock, grants>> /\ buckets' = [buckets EXCEPT ![ip] = Bucket(n)]
    BY <1>4, <2>1, <2>2 DEF AskTooSoon, Denied
  <2>4. SeenIsRefilled' /\ \A jp \in Addresses : Tokens(jp)' = Tokens(jp)
    BY <1>0, <2>2, <2>3, WrittenTokens
  <2> QED BY <1>0, <2>3, <2>4, SameBuckets
<1>5. CASE UNCHANGED <<clock, buckets, grants>>
  <2>1. SeenIsRefilled' /\ \A ip \in Addresses : Tokens(ip)' = Tokens(ip)
    BY <1>0, <1>5 DEF SeenIsRefilled, Tokens, Refilled, Full
  <2> QED BY <1>0, <1>5, <2>1, SameBuckets
<1>6. ASSUME NEW c \in Conns,
             \/ UpgradeFails(c) \/ Upgraded(c) \/ Leave(c) \/ Close(c) \/ Place(c) \/ Refuse(c)
             \/ \E ip \in Addresses : Open(c, ip)
      PROVE  UNCHANGED <<clock, buckets, grants>>
  BY <1>6 DEF UpgradeFails, Upgraded, Leave, Close, Place, Refuse, Answered, Open
<1> QED BY <1>1, <1>2, <1>3, <1>4, <1>5, <1>6 DEF Next, vars

-----------------------------------------------------------------------------
(* The theorems *)

(* The invariant is inductive.                                             *)
LEMMA InvStep == LimitsInv /\ [Next]_vars => LimitsInv'
BY TypeStep, SlotsStep, BucketStep DEF LimitsInv

(* In every reachable state the invariant holds.                            *)
LEMMA InvCorrect == Spec => []LimitsInv
<1>1. Init => LimitsInv
  BY InitInv
<1>2. LimitsInv /\ [Next]_vars => LimitsInv'
  BY InvStep
<1> QED BY <1>1, <1>2, PTL DEF Spec

(* Every variable has its type.                                            *)
THEOREM TypeOKCorrect == Spec => []TypeOK
<1>1. LimitsInv => TypeOK
  BY DEF LimitsInv
<1> QED BY <1>1, InvCorrect, PTL

(* ConnCap counts the connections of every address, however their upgrades  *)
(* and departures interleave.                                              *)
THEOREM SlotsCountedCorrect == Spec => []SlotsCounted
<1>1. LimitsInv => SlotsCounted
  BY DEF LimitsInv
<1> QED BY <1>1, InvCorrect, PTL

(* The token bucket of every address holds what its granted requests leave, *)
(* whatever was refused or swept in between.                               *)
THEOREM BucketExactCorrect == Spec => []BucketExact
<1>1. LimitsInv => BucketExact
  <2> SUFFICES ASSUME LimitsInv, NEW ip \in Addresses PROVE Tokens(ip) = Accounted(ip)
    BY DEF BucketExact
  <2>1. Least(Tokens(ip), Bounds(clock, grants[ip])) /\ Tokens(ip) \in Int
    BY TokensType DEF LimitsInv, Exact
  <2>2. Bounds(clock, grants[ip]) \subseteq Int
    <3>1. clock \in Nat /\ grants[ip] \in Seq(0 .. clock)
      BY LimitsAssumption DEF LimitsInv, TypeOK
    <3>2. grants[ip] \in Seq(Nat)
      BY <3>1, SeqMonotonic
    <3> QED BY <3>1, <3>2, BoundsType
  <2>3. Min(Bounds(clock, grants[ip])) = Tokens(ip)
    BY <2>1, <2>2, LeastIsMin
  <2>4. Accounted(ip) = Min(Bounds(clock, grants[ip]))
    BY DEF Accounted, Bounds
  <2> QED BY <2>3, <2>4
<1> QED BY <1>1, InvCorrect, PTL

-----------------------------------------------------------------------------
(* Cadence *)

(* What is known of requests that were let through, when the burst is one:  *)
(* the one a connection handles and the one that was placed last by a       *)
(* player are grants of their address, and two of one address, unless they  *)
(* are the same, are a refill apart.                                       *)
Granted(ip) == {grants[ip][i] : i \in DOMAIN grants[ip]}
Apart(s, t) == Refill <= s - t \/ Refill <= t - s
Handles(c)  == pc[c] = "placing"
Latest      == [conn : Conns, address : Addresses, asked : Nat, at : Nat]

HandledIsGranted ==
  \A c \in Conns : Handles(c) => asked[c] \in Nat /\ asked[c] \in Granted(address[c])

LatestIsGranted ==
  /\ latest \in [Players -> {Nothing} \cup Latest]
  /\ \A p \in Players : latest[p] # Nothing => latest[p].asked \in Granted(latest[p].address)

HandledApart ==
  \A c, d \in Conns :
    c # d /\ Handles(c) /\ Handles(d) /\ address[c] = address[d] => Apart(asked[c], asked[d])

LatestApart ==
  \A c \in Conns, p \in Players :
    Handles(c) /\ latest[p] # Nothing /\ latest[p].address = address[c]
      => Apart(asked[c], latest[p].asked)

CadenceInv ==
  /\ LimitsInv
  /\ Burst = 1 => HandledIsGranted /\ LatestIsGranted /\ HandledApart /\ LatestApart

(* A bucket of one token that has a token has not given one for a refill.   *)
LEMMA GrantsRest ==
  ASSUME LimitsInv, Burst = 1, NEW ip \in Addresses, Tokens(ip) >= Refill,
         NEW t \in Granted(ip)
  PROVE  clock \in Nat /\ t \in Nat /\ Refill <= clock - t
<1>1. clock \in Nat /\ Refill \in Nat \ {0} /\ Full = Refill
  BY LimitsAssumption DEF LimitsInv, TypeOK, Full
<1>2. grants[ip] \in Seq(0 .. clock)
  BY DEF LimitsInv, TypeOK
<1>3. PICK i \in 1 .. Len(grants[ip]) : t = grants[ip][i]
  BY <1>2 DEF Granted
<1>4. t \in 0 .. clock
  BY <1>2, <1>3, ElementOfSeq
<1>5. PICK k : k = Len(grants[ip]) - i + 1
  OBVIOUS
<1>6. k \in Nat \ {0}
  BY <1>2, <1>3, <1>5
<1>7. PICK v : v = Tokens(ip)
  OBVIOUS
<1>8. v \in Int /\ v >= Refill
  BY <1>7, TokensType, FullType DEF LimitsInv
<1>9. v <= Full + (clock - t) - k * Refill
  BY <1>2, <1>3, <1>5, <1>7 DEF LimitsInv, Exact, Least, Bounds
<1>10. PICK u : u = k * Refill
  OBVIOUS
<1>11. u \in Nat /\ Refill <= u
  BY <1>1, <1>6, <1>10
<1> QED BY <1>1, <1>4, <1>8, <1>9, <1>10, <1>11

(* What was granted stays granted.                                         *)
LEMMA GrantsStay ==
  ASSUME TypeOK, HolderHasAddress, [Next]_vars, NEW ip \in Addresses
  PROVE  Granted(ip) \subseteq Granted(ip)'
<1>1. ASSUME NEW c \in Conns, Ask(c)
      PROVE  Granted(ip) \subseteq Granted(ip)'
  <2>1. PICK g : g = grants[ip]
    OBVIOUS
  <2>2. g \in Seq(0 .. clock) /\ clock \in Nat
    BY <2>1, LimitsAssumption DEF TypeOK
  <2>3. grants'[ip] = g \/ grants'[ip] = Append(g, clock)
    BY <1>1, <2>1 DEF Ask, TypeOK
  <2>4. \A i \in DOMAIN g : i \in DOMAIN grants'[ip] /\ grants'[ip][i] = g[i]
    <3>1. DOMAIN g = 1 .. Len(g) /\ Len(g) \in Nat
      BY <2>2
    <3>2. PICK h : h = Append(g, clock)
      OBVIOUS
    <3>3. DOMAIN h = 1 .. (Len(g) + 1) /\ \A i \in 1 .. Len(g) : h[i] = g[i]
      BY <2>2, <3>2, AppendProperties
    <3> QED BY <2>3, <3>1, <3>2, <3>3
  <2> QED BY <2>1, <2>4 DEF Granted
<1>2. CASE UNCHANGED grants
  BY <1>2 DEF Granted
<1>3. CASE Tick \/ SweepIdle \/ UNCHANGED vars
  BY <1>2, <1>3 DEF Tick, SweepIdle, vars, history
<1>4. ASSUME NEW c \in Conns,
             \/ UpgradeFails(c) \/ Upgraded(c) \/ Leave(c) \/ Close(c)
             \/ AskTooSoon(c) \/ Place(c) \/ Refuse(c) \/ \E jp \in Addresses : Open(c, jp)
      PROVE  UNCHANGED grants
  BY <1>4 DEF UpgradeFails, Upgraded, Leave, Close, AskTooSoon, Place, Refuse, Open, history
<1> QED BY <1>1, <1>2, <1>3, <1>4 DEF Next

(* A request that is let through is a refill apart from every grant of its  *)
(* address before it.                                                      *)
LEMMA AskCadence ==
  ASSUME CadenceInv, Burst = 1, NEW c \in Conns, Ask(c)
  PROVE  HandledIsGranted' /\ LatestIsGranted' /\ HandledApart' /\ LatestApart'
<1>0. /\ LimitsInv /\ TypeOK /\ HolderHasAddress
      /\ HandledIsGranted /\ LatestIsGranted /\ HandledApart /\ LatestApart
  BY DEF CadenceInv, LimitsInv
<1>1. PICK ip \in Addresses : ip = address[c]
  BY <1>0 DEF Ask, HolderHasAddress
<1>2. /\ Tokens(ip) >= Refill /\ clock' = clock /\ address' = address /\ latest' = latest
      /\ grants' = [grants EXCEPT ![ip] = Append(@, clock)]
      /\ asked' = [asked EXCEPT ![c] = clock]
      /\ pc' = [pc EXCEPT ![c] = "placing"]
      /\ pc[c] = "open"
  BY <1>1 DEF Ask, Goto
<1>3. clock \in Nat /\ Refill \in Nat
  BY <1>0, LimitsAssumption DEF TypeOK
<1>4. \A t \in Granted(ip) : t \in Nat /\ Refill <= clock - t
  BY <1>0, <1>2, GrantsRest
<1>5. \A jp \in Addresses : Granted(jp) \subseteq Granted(jp)'
  <2>1. [Next]_vars
    BY DEF Next
  <2> QED BY <1>0, <2>1, GrantsStay
<1>6. clock \in Granted(ip)'
  <2>1. PICK g : g = grants[ip]
    OBVIOUS
  <2>2. g \in Seq(0 .. clock)
    BY <1>0, <2>1 DEF TypeOK
  <2>3. grants'[ip] = Append(g, clock)
    BY <1>0, <1>2, <2>1 DEF TypeOK
  <2>4. Len(g) + 1 \in DOMAIN Append(g, clock) /\ Append(g, clock)[Len(g) + 1] = clock
    BY <2>2
  <2> QED BY <2>3, <2>4 DEF Granted
<1>7. /\ asked'[c] = clock /\ Handles(c)'
      /\ \A d \in Conns \ {c} : asked'[d] = asked[d] /\ (Handles(d)' <=> Handles(d))
  BY <1>0, <1>2 DEF TypeOK, Handles
<1>8. \A d \in Conns : Handles(d) => address[d] \in Addresses
  BY <1>0 DEF HolderHasAddress, Handles
<1>9. HandledIsGranted'
  <2> SUFFICES ASSUME NEW d \in Conns, Handles(d)'
               PROVE  asked'[d] \in Nat /\ asked'[d] \in Granted(address[d])'
    BY DEF HandledIsGranted
  <2>1. CASE d = c
    BY <1>1, <1>2, <1>3, <1>6, <1>7, <2>1
  <2>2. CASE d # c
    <3>1. asked[d] \in Nat /\ asked[d] \in Granted(address[d]) /\ address[d] \in Addresses
      BY <1>0, <1>7, <1>8, <2>2 DEF HandledIsGranted
    <3>2. PICK jp \in Addresses : jp = address[d]
      BY <3>1
    <3>3. asked[d] \in Granted(jp)'
      BY <1>5, <3>1, <3>2
    <3> QED BY <1>2, <1>7, <2>2, <3>1, <3>2, <3>3
  <2> QED BY <2>1, <2>2
<1>10. LatestIsGranted'
  <2>1. latest' \in [Players -> {Nothing} \cup Latest']
    BY <1>0, <1>2 DEF LatestIsGranted, Latest
  <2>2. ASSUME NEW p \in Players, latest'[p] # Nothing
        PROVE  latest'[p].asked \in Granted(latest[p].address)'
    <3>1. /\ latest[p].asked \in Granted(latest[p].address)
          /\ latest[p].address \in Addresses
      BY <1>0, <1>2, <2>2 DEF LatestIsGranted, Latest
    <3>2. PICK jp \in Addresses : jp = latest[p].address
      BY <3>1
    <3> QED BY <1>2, <1>5, <3>1, <3>2
  <2> QED BY <1>2, <2>1, <2>2 DEF LatestIsGranted
<1>11. HandledApart'
  <2> SUFFICES ASSUME NEW d \in Conns, NEW e \in Conns, d # e, Handles(d)', Handles(e)',
                      address[d] = address[e]
               PROVE  Apart(asked'[d], asked'[e])
    BY <1>2 DEF HandledApart, Apart
  <2>1. ASSUME NEW f \in Conns, f # c, Handles(f)', address[f] = ip
        PROVE  asked'[f] \in Nat /\ Refill <= clock - asked'[f]
    BY <1>0, <1>4, <1>7, <2>1 DEF HandledIsGranted
  <2>2. CASE d = c
    BY <1>1, <1>7, <2>1, <2>2 DEF Apart
  <2>3. CASE e = c
    BY <1>1, <1>7, <2>1, <2>3 DEF Apart
  <2>4. CASE d # c /\ e # c
    BY <1>0, <1>7, <2>4 DEF HandledApart
  <2> QED BY <2>2, <2>3, <2>4
<1>12. LatestApart'
  <2> SUFFICES ASSUME NEW d \in Conns, NEW p \in Players, Handles(d)', latest[p] # Nothing,
                      latest[p].address = address[d]
               PROVE  Apart(asked'[d], latest[p].asked)
    BY <1>2 DEF LatestApart, Apart
  <2>1. CASE d = c
    <3>1. latest[p].asked \in Granted(ip)
      BY <1>0, <1>1, <2>1 DEF LatestIsGranted
    <3> QED BY <1>4, <1>7, <2>1, <3>1 DEF Apart
  <2>2. CASE d # c
    BY <1>0, <1>7, <2>2 DEF LatestApart
  <2> QED BY <2>1, <2>2
<1> QED BY <1>9, <1>10, <1>11, <1>12

(* A placement takes the request of its connection along.                   *)
LEMMA PlaceCadence ==
  ASSUME CadenceInv, Burst = 1, NEW c \in Conns, Place(c)
  PROVE  HandledIsGranted' /\ LatestIsGranted' /\ HandledApart' /\ LatestApart'
<1>0. /\ TypeOK /\ HolderHasAddress
      /\ HandledIsGranted /\ LatestIsGranted /\ HandledApart /\ LatestApart
  BY DEF CadenceInv, LimitsInv
<1>1. /\ clock' = clock /\ grants' = grants /\ address' = address
      /\ pc[c] = "placing" /\ pc' = [pc EXCEPT ![c] = "open"]
      /\ asked' = [asked EXCEPT ![c] = Nothing]
  BY DEF Place, Answered, Goto
<1>2. PICK p \in Players : p = PlayerOf[c]
  BY LimitsAssumption
<1>3. PICK new : new = [conn |-> c, address |-> address[c], asked |-> asked[c], at |-> clock]
  OBVIOUS
<1>4. latest' = [latest EXCEPT ![p] = new]
  BY <1>2, <1>3 DEF Place
<1>5. /\ new \in Latest /\ new.asked = asked[c] /\ new.address = address[c]
      /\ new.asked \in Granted(new.address)
  <2>1. asked[c] \in Nat /\ asked[c] \in Granted(address[c])
    BY <1>0, <1>1 DEF HandledIsGranted, Handles
  <2>2. address[c] \in Addresses /\ clock \in Nat
    BY <1>0, <1>1, LimitsAssumption DEF HolderHasAddress, TypeOK
  <2> QED BY <1>3, <2>1, <2>2 DEF Latest
<1>6. latest \in [Players -> {Nothing} \cup Latest]
  BY <1>0 DEF LatestIsGranted
<1>7. latest'[p] = new /\ \A q \in Players \ {p} : latest'[q] = latest[q]
  BY <1>4, <1>6
<1>8. ~Handles(c)' /\ \A d \in Conns \ {c} : asked'[d] = asked[d] /\ (Handles(d)' <=> Handles(d))
  BY <1>0, <1>1 DEF TypeOK, Handles
<1>9. \A ip : Granted(ip)' = Granted(ip)
  BY <1>1 DEF Granted
<1>10. HandledIsGranted'
  <2> SUFFICES ASSUME NEW d \in Conns, Handles(d)'
               PROVE  asked'[d] \in Nat /\ asked'[d] \in Granted(address[d])'
    BY DEF HandledIsGranted
  <2>1. d # c /\ asked'[d] = asked[d] /\ Handles(d)
    BY <1>8
  <2>2. asked[d] \in Nat /\ asked[d] \in Granted(address[d])
    BY <1>0, <2>1 DEF HandledIsGranted
  <2> QED BY <1>1, <2>1, <2>2 DEF Granted
<1>11. LatestIsGranted'
  <2>1. latest' \in [Players -> {Nothing} \cup Latest]
    BY <1>4, <1>5, <1>6
  <2>2. ASSUME NEW q \in Players, latest'[q] # Nothing
        PROVE  latest'[q].asked \in Granted(latest'[q].address)
    BY <1>0, <1>5, <1>7, <2>2 DEF LatestIsGranted
  <2> QED BY <1>1, <2>1, <2>2 DEF LatestIsGranted, Granted, Latest
<1>12. HandledApart'
  BY <1>0, <1>1, <1>8 DEF HandledApart, Apart
<1>13. LatestApart'
  <2> SUFFICES ASSUME NEW d \in Conns, NEW q \in Players, Handles(d)', latest'[q] # Nothing,
                      latest'[q].address = address[d]
               PROVE  Apart(asked'[d], latest'[q].asked)
    BY <1>1 DEF LatestApart, Apart
  <2>1. d # c /\ asked'[d] = asked[d] /\ Handles(d)
    BY <1>8
  <2>2. CASE q = p
    <3>1. Handles(c) /\ address[d] = address[c] /\ latest'[q].asked = asked[c]
      BY <1>1, <1>5, <1>7, <2>2 DEF Handles
    <3> QED BY <1>0, <2>1, <3>1 DEF HandledApart
  <2>3. CASE q # p
    BY <1>0, <1>7, <2>1, <2>3 DEF LatestApart
  <2> QED BY <2>2, <2>3
<1> QED BY <1>10, <1>11, <1>12, <1>13

(* A step after which no other connection handles a request, that request   *)
(* is the same, and so are the addresses of those that do.                  *)
LEMMA OtherCadence ==
  ASSUME CadenceInv, Burst = 1, UNCHANGED <<grants, latest>>,
         \A c \in Conns : Handles(c)' => Handles(c) /\ UNCHANGED <<asked[c], address[c]>>
  PROVE  HandledIsGranted' /\ LatestIsGranted' /\ HandledApart' /\ LatestApart'
<1>0. HandledIsGranted /\ LatestIsGranted /\ HandledApart /\ LatestApart
  BY DEF CadenceInv
<1>1. HandledIsGranted'
  <2> SUFFICES ASSUME NEW d \in Conns, Handles(d)'
               PROVE  asked'[d] \in Nat /\ asked'[d] \in Granted(address[d])'
    BY DEF HandledIsGranted
  <2>1. asked[d] \in Nat /\ asked[d] \in Granted(address[d])
    BY <1>0 DEF HandledIsGranted
  <2> QED BY <2>1 DEF Granted
<1>2. LatestIsGranted'
  BY <1>0 DEF LatestIsGranted, Granted, Latest
<1>3. HandledApart'
  BY <1>0 DEF HandledApart, Apart
<1>4. LatestApart'
  BY <1>0 DEF LatestApart, Apart
<1> QED BY <1>1, <1>2, <1>3, <1>4

(* Every step keeps what Cadence rests on.                                  *)
LEMMA CadenceStep == CadenceInv /\ [Next]_vars => CadenceInv'
<1> SUFFICES ASSUME CadenceInv, [Next]_vars PROVE CadenceInv'
  OBVIOUS
<1> DEFINE Goal == HandledIsGranted /\ LatestIsGranted /\ HandledApart /\ LatestApart
<1>0. LimitsInv /\ TypeOK
  BY DEF CadenceInv, LimitsInv
<1>1. LimitsInv'
  BY <1>0, InvStep
<1>2. ASSUME Burst = 1 PROVE Goal'
  <2>1. ASSUME NEW c \in Conns, Ask(c) PROVE Goal'
    BY <1>2, <2>1, AskCadence
  <2>2. ASSUME NEW c \in Conns, Place(c) PROVE Goal'
    BY <1>2, <2>2, PlaceCadence
  <2>3. CASE /\ UNCHANGED <<grants, latest>>
             /\ \A c \in Conns : Handles(c)' => Handles(c) /\ UNCHANGED <<asked[c], address[c]>>
    BY <1>2, <2>3, OtherCadence
  <2>4. CASE Tick \/ SweepIdle \/ UNCHANGED vars
    BY <2>3, <2>4 DEF Tick, SweepIdle, vars, conn, history, Handles
  <2>5. ASSUME NEW c \in Conns, NEW ip \in Addresses, Open(c, ip) PROVE Goal'
    <3>1. UNCHANGED <<grants, latest>>
      BY <2>5 DEF Open, history
    <3>2. \A d \in Conns : Handles(d)' => Handles(d) /\ UNCHANGED <<asked[d], address[d]>>
      BY <1>0, <2>5 DEF Open, Goto, Handles, TypeOK
    <3> QED BY <2>3, <3>1, <3>2
  <2>6. ASSUME NEW c \in Conns,
               UpgradeFails(c) \/ Upgraded(c) \/ Leave(c) \/ AskTooSoon(c)
        PROVE  Goal'
    <3>1. UNCHANGED <<grants, latest>>
      BY <2>6 DEF UpgradeFails, Upgraded, Leave, AskTooSoon, history
    <3>2. \A d \in Conns : Handles(d)' => Handles(d) /\ UNCHANGED <<asked[d], address[d]>>
      BY <1>0, <2>6
         DEF UpgradeFails, GivesUp, Upgraded, Leave, AskTooSoon, conn, Goto, Handles, TypeOK
    <3> QED BY <2>3, <3>1, <3>2
  <2>7. ASSUME NEW c \in Conns, Close(c) \/ Refuse(c) PROVE Goal'
    <3>1. UNCHANGED <<grants, latest>>
      BY <2>7 DEF Close, Refuse, history
    <3>2. \A d \in Conns : Handles(d)' => Handles(d) /\ UNCHANGED <<asked[d], address[d]>>
      BY <1>0, <2>7 DEF Close, Refuse, Answered, Goto, Handles, TypeOK
    <3> QED BY <2>3, <3>1, <3>2
  <2> QED BY <2>1, <2>2, <2>4, <2>5, <2>6, <2>7 DEF Next
<1> QED BY <1>1, <1>2 DEF CadenceInv

(* A placement comes a cooldown after the last one on its connection, and,  *)
(* with a burst of one, its request was let through a refill before or      *)
(* after that of the player's placement before it, if they came from the    *)
(* same address.                                                           *)
THEOREM CadenceCorrect == Spec => Cadence
<1> DEFINE Step ==
      \A p \in Players :
        latest[p] # Nothing /\ latest'[p] # latest[p] =>
          LET old == latest[p]
              new == latest'[p] IN
          /\ placedAt[new.conn] # Nothing => new.at - placedAt[new.conn] >= Cooldown
          /\ Burst = 1 /\ old.address = new.address
               => Refill <= new.asked - old.asked \/ Refill <= old.asked - new.asked
<1>1. Init => CadenceInv
  <2> SUFFICES ASSUME Init PROVE CadenceInv
    OBVIOUS
  <2>1. LimitsInv
    BY InitInv
  <2>2. HandledIsGranted /\ HandledApart /\ LatestApart /\ LatestIsGranted
    BY DEF Init, Handles, HandledIsGranted, HandledApart, LatestApart, LatestIsGranted
  <2> QED BY <2>1, <2>2 DEF CadenceInv
<1>2. CadenceInv /\ [Next]_vars => [Step]_vars
  <2> SUFFICES ASSUME CadenceInv, [Next]_vars, NEW p \in Players,
                      latest[p] # Nothing, latest'[p] # latest[p]
               PROVE  /\ placedAt[latest'[p].conn] # Nothing
                           => latest'[p].at - placedAt[latest'[p].conn] >= Cooldown
                      /\ Burst = 1 /\ latest[p].address = latest'[p].address
                           => \/ Refill <= latest'[p].asked - latest[p].asked
                              \/ Refill <= latest[p].asked - latest'[p].asked
    OBVIOUS
  <2>1. PICK c \in Conns : Place(c)
    <3>1. ASSUME NEW c \in Conns,
                 \/ UpgradeFails(c) \/ Upgraded(c) \/ Leave(c) \/ Close(c)
                 \/ Ask(c) \/ AskTooSoon(c) \/ Refuse(c) \/ \E ip \in Addresses : Open(c, ip)
          PROVE  latest' = latest
      BY <3>1 DEF UpgradeFails, Upgraded, Leave, Close, Ask, AskTooSoon, Refuse, Open, history
    <3>2. CASE Tick \/ SweepIdle \/ UNCHANGED vars
      BY <3>2 DEF Tick, SweepIdle, vars, history
    <3> QED BY <3>1, <3>2 DEF Next
  <2>2. PICK new : new = [conn |-> c, address |-> address[c], asked |-> asked[c], at |-> clock]
    OBVIOUS
  <2>3. latest' = [latest EXCEPT ![PlayerOf[c]] = new]
    BY <2>1, <2>2 DEF Place
  <2>4. latest'[p] = new
    BY <2>3
  <2>5. /\ new.conn = c /\ new.at = clock /\ new.asked = asked[c] /\ new.address = address[c]
    BY <2>2
  <2>6. placedAt[c] # Nothing => clock - placedAt[c] >= Cooldown
    BY <2>1 DEF Place, Rested
  <2>7. ASSUME Burst = 1, latest[p].address = new.address
        PROVE  Apart(asked[c], latest[p].asked)
    <3>1. Handles(c) /\ LatestApart
      BY <2>1, <2>7 DEF Place, Answered, Handles, CadenceInv
    <3> QED BY <2>5, <2>7, <3>1 DEF LatestApart
  <2> QED BY <2>4, <2>5, <2>6, <2>7 DEF Apart
<1>3. Spec => []CadenceInv
  BY <1>1, CadenceStep, PTL DEF Spec
<1> HIDE DEF CadenceInv, Step
<1>4. Spec => [][Step]_vars
  BY <1>2, <1>3, PTL DEF Spec
<1> QED BY <1>4 DEF Cadence, Step
=============================================================================
