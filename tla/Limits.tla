--------------------------------- MODULE Limits ---------------------------------
(***************************************************************************)
(* What limits a player: the number of connections of an address (ConnCap),*)
(* the rate of placements of an address (TokenBucket, ratelimit.go) and    *)
(* the cooldown of a game.Session (game.go), as serveWS uses them.         *)
(*                                                                         *)
(* A connection is one place for runs of serveWS, of which each has a       *)
(* game.Session of its own; the player may come from any address each time.*)
(* Tokens are counted in ticks: Refill ticks make a token.                  *)
(***************************************************************************)
EXTENDS Integers, FiniteSets, SequencesExt

CONSTANTS
  Conns,     \* connections
  Players,   \* sessions of the cookie
  PlayerOf,  \* PlayerOf[c]
  Addresses, \* the keys of remoteIP
  Cap,       \* ConnCap.max (5)
  Burst,     \* TokenBucket.burst (1)
  Refill,    \* ticks to gain a token: 1 / TokenBucket.rate
  Idle,      \* TokenBucket.gcThreshold (10 minutes)
  Cooldown,  \* game.Cooldown
  Nothing,   \* stands for what is absent
  MaxClock   \* bound: time

(* An idle bucket is full before it is swept (by default 5 seconds and 10   *)
(* minutes), and the rate allows a placement per cooldown.                  *)
ASSUME LimitsAssumption ==
  /\ IsFiniteSet(Conns) /\ PlayerOf \in [Conns -> Players]
  /\ Cap \in Nat \ {0} /\ Burst \in Nat \ {0} /\ Refill \in Nat \ {0}
  /\ Cooldown \in Nat \ {0} /\ Idle \in Nat /\ MaxClock \in Nat
  /\ Idle >= Burst * Refill
  /\ Nothing \notin Nat
  /\ Nothing \notin [tokens : Nat, lastRefill : Nat, lastSeen : Nat]

VARIABLES
  clock,
  counts,    \* ConnCap.counts
  buckets,   \* TokenBucket.buckets and lastSeen: tokens, lastRefill, lastSeen
  pc,        \* what serveWS of c does next
  address,   \* its clientIP
  asked,     \* when the placement it handles was let through
  placedAt,  \* gsess.LastPlaceUnix
  grants,    \* history: grants[ip]: when Allow let a request through
  latest     \* history: latest[p]: the latest placement of the player

limiter == <<counts, buckets>>
conn    == <<pc, address, asked, placedAt>>
history == <<grants, latest>>
vars    == <<clock, limiter, conn, history>>

Goto(c, label) == pc' = [pc EXCEPT ![c] = label]

Init ==
  /\ clock = 0
  /\ counts = [ip \in Addresses |-> 0]
  /\ buckets = [ip \in Addresses |-> Nothing]
  /\ pc = [c \in Conns |-> "closed"]
  /\ address = [c \in Conns |-> Nothing]
  /\ asked = [c \in Conns |-> Nothing]
  /\ placedAt = [c \in Conns |-> Nothing]
  /\ grants = [ip \in Addresses |-> <<>>]
  /\ latest = [p \in Players |-> Nothing]

Tick ==
  /\ clock < MaxClock
  /\ clock' = clock + 1
  /\ UNCHANGED <<limiter, conn, history>>

-----------------------------------------------------------------------------
(* ConnCap *)

Acquire(ip) == /\ counts[ip] < Cap
               /\ counts' = [counts EXCEPT ![ip] = @ + 1]

Release(ip) == counts' = [counts EXCEPT ![ip] = IF @ > 0 THEN @ - 1 ELSE 0]

(* A handshake that fails before Acquire, or there, changes nothing.        *)
Open(c, ip) ==
  /\ pc[c] = "closed"
  /\ Acquire(ip)
  /\ address' = [address EXCEPT ![c] = ip]
  /\ Goto(c, "upgrading")
  /\ UNCHANGED <<clock, buckets, asked, placedAt, history>>

(* No key, no hijack, no answer: the deferred Release is next.              *)
KeepsSlot(c) == Goto(c, "closed")         \* mutant: a return before the defer
GivesUp(c)   == Goto(c, "closing")

UpgradeFails(c) ==
  /\ pc[c] = "upgrading"
  /\ GivesUp(c)
  /\ UNCHANGED <<clock, limiter, address, asked, placedAt, history>>

Upgraded(c) ==
  /\ pc[c] = "upgrading"
  /\ placedAt' = [placedAt EXCEPT ![c] = Nothing]
  /\ Goto(c, "open")
  /\ UNCHANGED <<clock, limiter, address, asked, history>>

Leave(c) ==
  /\ pc[c] = "open"
  /\ Goto(c, "closing")
  /\ UNCHANGED <<clock, limiter, address, asked, placedAt, history>>

Close(c) ==
  /\ pc[c] = "closing"
  /\ Release(address[c])
  /\ address' = [address EXCEPT ![c] = Nothing]
  /\ placedAt' = [placedAt EXCEPT ![c] = Nothing]
  /\ Goto(c, "closed")
  /\ UNCHANGED <<clock, buckets, asked, history>>

-----------------------------------------------------------------------------
(* TokenBucket.  A bucket that has not been used is full.                   *)

Full == Burst * Refill

Overflowing(b) == b.tokens + (clock - b.lastRefill)    \* mutant: no cap at burst
Refilled(b) ==
  LET t == b.tokens + (clock - b.lastRefill) IN IF t > Full THEN Full ELSE t

Tokens(ip) == IF buckets[ip] = Nothing THEN Full ELSE Refilled(buckets[ip])

Bucket(tokens) == [tokens |-> tokens, lastRefill |-> clock, lastSeen |-> clock]

(* A refused request refills the bucket, too, and keeps the part of a token *)
(* it has.                                                                  *)
WholeOnly(ip) == Bucket(Tokens(ip) - (Tokens(ip) % Refill))     \* mutant: the part is lost
Denied(ip)    == Bucket(Tokens(ip))

Ask(c) ==
  LET ip == address[c] IN
  /\ pc[c] = "open"
  /\ Tokens(ip) >= Refill
  /\ buckets' = [buckets EXCEPT ![ip] = Bucket(Tokens(ip) - Refill)]
  /\ grants' = [grants EXCEPT ![ip] = Append(@, clock)]
  /\ asked' = [asked EXCEPT ![c] = clock]
  /\ Goto(c, "placing")
  /\ UNCHANGED <<clock, counts, address, placedAt, latest>>

AskTooSoon(c) ==
  LET ip == address[c] IN
  /\ pc[c] = "open"
  /\ Tokens(ip) < Refill
  /\ buckets' = [buckets EXCEPT ![ip] = Denied(ip)]
  /\ UNCHANGED <<clock, counts, conn, history>>

LongIdle(b) == clock - b.lastSeen > Idle

SweepIdle ==
  /\ buckets' = [ip \in Addresses |->
                   IF buckets[ip] # Nothing /\ LongIdle(buckets[ip]) THEN Nothing ELSE buckets[ip]]
  /\ UNCHANGED <<clock, counts, conn, history>>

-----------------------------------------------------------------------------
(* handlePlace *)

Always(c) == TRUE                       \* mutant: the cooldown is not looked at
Rested(c) == placedAt[c] # Nothing => clock - placedAt[c] >= Cooldown

Answered(c) ==
  /\ pc[c] = "placing"
  /\ asked' = [asked EXCEPT ![c] = Nothing]
  /\ Goto(c, "open")

Place(c) ==
  /\ Answered(c)
  /\ Rested(c)
  /\ placedAt' = [placedAt EXCEPT ![c] = clock]
  /\ latest' = [latest EXCEPT ![PlayerOf[c]] =
                  [conn |-> c, address |-> address[c], asked |-> asked[c], at |-> clock]]
  /\ UNCHANGED <<clock, limiter, address, grants>>

(* By the cooldown or by the rules of the game.                             *)
Refuse(c) ==
  /\ Answered(c)
  /\ UNCHANGED <<clock, limiter, address, placedAt, history>>

-----------------------------------------------------------------------------
Next ==
  \/ Tick \/ SweepIdle
  \/ \E c \in Conns, ip \in Addresses : Open(c, ip)
  \/ \E c \in Conns : \/ UpgradeFails(c) \/ Upgraded(c) \/ Leave(c) \/ Close(c)
                      \/ Ask(c) \/ AskTooSoon(c) \/ Place(c) \/ Refuse(c)

Spec == Init /\ [][Next]_vars

-----------------------------------------------------------------------------
(* Properties *)

(* Every variable has its type.                                            *)
TypeOK ==
  /\ clock \in 0 .. MaxClock
  /\ counts \in [Addresses -> 0 .. Cap]
  /\ buckets \in [Addresses -> {Nothing} \cup
                    [tokens : 0 .. Full, lastRefill : 0 .. clock, lastSeen : 0 .. clock]]
  /\ pc \in [Conns -> {"closed", "upgrading", "open", "placing", "closing"}]
  /\ address \in [Conns -> Addresses \cup {Nothing}]
  /\ asked \in [Conns -> 0 .. clock \cup {Nothing}]
  /\ placedAt \in [Conns -> 0 .. clock \cup {Nothing}]
  /\ grants \in [Addresses -> Seq(0 .. clock)]

(* The count of an address is the number of its connections, through failed *)
(* upgrades and departures: no slot leaks and none is given back twice.    *)
SlotsCounted ==
  \A ip \in Addresses : counts[ip] = Cardinality({c \in Conns : pc[c] # "closed" /\ address[c] = ip})

(* The tokens of an address that its granted requests alone account for:    *)
(* from any of them on no more than a burst and the time since then.       *)
Accounted(ip) ==
  LET g == grants[ip] IN
  Min({Full} \cup {Full + (clock - g[i]) - (Len(g) - i + 1) * Refill : i \in DOMAIN g})

(* The bucket is exact: refused requests, their fractions of a token, idle  *)
(* time and sweeps change nothing, so that nobody is let through too early *)
(* and nobody who keeps asking is kept waiting (Allow, ratelimit.go:43).   *)
BucketExact == \A ip \in Addresses : Tokens(ip) = Accounted(ip)

(* A player's placements are a cooldown apart on one connection; from one   *)
(* address, over whatever connections, they are a refill apart, counted    *)
(* from when the first was let through, when the burst is one.             *)
Cadence ==
  [][\A p \in Players :
       latest[p] # Nothing /\ latest'[p] # latest[p] =>
         LET old == latest[p]
             new == latest'[p] IN
         /\ placedAt[new.conn] # Nothing => new.at - placedAt[new.conn] >= Cooldown
         /\ Burst = 1 /\ old.address = new.address
              => Refill <= new.asked - old.asked \/ Refill <= old.asked - new.asked]_vars
=================================================================================
