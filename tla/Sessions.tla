-------------------------------- MODULE Sessions --------------------------------
(***************************************************************************)
(* Anonymous sessions: the /session handler (issueOrReuseToken, main.go),  *)
(* the TokenManager it asks (token_manager.go), the cookie of a browser,   *)
(* the colour the teamPicker gives a session (main.go), and the start of   *)
(* serveWS that puts them together.                                        *)
(*                                                                         *)
(* A browser may have several tabs that fetch /session at the same time.    *)
(* Every operation of the TokenManager takes its lock once; rotation takes  *)
(* it three times.  Tokens are drawn at random: every token is new.         *)
(***************************************************************************)
EXTENDS Integers, FiniteSets, SequencesExt

CONSTANTS
  Browsers,
  Tabs,         \* a tab fetches /session once at a time
  BrowserOf,    \* BrowserOf[t]
  MaxAge,       \* TokenManager.maxAge (30 days)
  Window,       \* livePlayerWindow (1 minute)
  Nothing,      \* stands for what is absent
  MaxClock,     \* bound: time
  MaxTokens,    \* bound: tokens generated
  MaxFaults,    \* bound: restarts of the server and answers that are lost
  MaxPlays      \* bound: placements

Tokens == 1 .. MaxTokens
Ids    == 1 .. MaxTokens

ASSUME SessionsAssumption ==
  /\ BrowserOf \in [Tabs -> Browsers]
  /\ MaxAge \in Nat \ {0} /\ Window \in Nat \ {0}
  /\ MaxClock \in Nat /\ MaxTokens \in Nat /\ MaxFaults \in Nat
  /\ MaxPlays \in Nat
  /\ Nothing \notin Nat
  /\ Nothing \notin [token : Tokens \cup {Nothing}, id : Nat]

VARIABLES
  clock,
  minted,        \* tokens generated
  records,       \* TokenManager.records, a function on tokens
  nextSessionID,
  by,            \* teamPicker.by, a function on session ids
  lastPlayed,    \* teamPicker.lastPlayed, a function on session ids
  pc,            \* what the handler that serves tab t does next
  sent,          \* the cookie it was sent
  now,           \* its time
  answer,        \* the token and session id it answers with
  jar,           \* the cookie of a browser
  playing,       \* the session of a browser's websocket
  faults, plays,
  cut,           \* history: why the cookie of a browser may be worth nothing
  identity,      \* history: the session the cookie of a browser was set for
  played         \* history: when a session placed last

teams   == <<by, lastPlayed>>
tokens  == <<minted, records>>
handler == <<pc, sent, now, answer>>
bounds  == <<faults, plays>>
history == <<cut, identity, played>>
vars    == <<clock, tokens, nextSessionID, teams, handler, jar, playing, bounds, history>>

Goto(t, label)   == pc' = [pc EXCEPT ![t] = label]
Without(f, gone) == [x \in DOMAIN f \ gone |-> f[x]]
With(f, x, v)    == [y \in DOMAIN f \cup {x} |-> IF y = x THEN v ELSE f[y]]
None             == [x \in {} |-> 0]

Init ==
  /\ clock = 0 /\ minted = 0
  /\ records = None /\ nextSessionID = 0
  /\ by = None /\ lastPlayed = None
  /\ pc = [t \in Tabs |-> "idle"]
  /\ sent = [t \in Tabs |-> Nothing]
  /\ now = [t \in Tabs |-> 0]
  /\ answer = [t \in Tabs |-> Nothing]
  /\ jar = [b \in Browsers |-> Nothing]
  /\ playing = [b \in Browsers |-> Nothing]
  /\ faults = 0 /\ plays = 0
  /\ cut = [b \in Browsers |-> {}]
  /\ identity = [b \in Browsers |-> Nothing]
  /\ played = None

Tick ==
  /\ clock < MaxClock
  /\ clock' = clock + 1
  /\ UNCHANGED <<tokens, nextSessionID, teams, handler, jar, playing, bounds, history>>

-----------------------------------------------------------------------------
(* teamPicker, each operation under its mutex *)

Young(seen, time, age) == {s \in DOMAIN seen : seen[s] >= time - age}

PrunedEarly(time) == Without(lastPlayed, DOMAIN lastPlayed \ Young(lastPlayed, time, 0))  \* mutant
Pruned(time)      == Without(lastPlayed, DOMAIN lastPlayed \ Young(lastPlayed, time, 2 * Window))

Live(time, team) ==
  Cardinality({s \in Young(lastPlayed, time, Window) \cap DOMAIN by : by[s] = team})

Balanced(s, time) ==
  LET black == Live(time, 1)
      white == Live(time, 2) IN
  IF white < black THEN 2
  ELSE IF black < white THEN 1
  ELSE IF s % 2 = 0 THEN 2 ELSE 1

Anew(s, time)     == Balanced(s, time)                     \* mutant: not sticky
TeamOf(s, time)   == IF s \in DOMAIN by THEN by[s] ELSE Balanced(s, time)

assign(s, time) ==
  /\ by' = With(by, s, TeamOf(s, time))
  /\ lastPlayed' = IF s \in DOMAIN by THEN lastPlayed ELSE Pruned(time)

-----------------------------------------------------------------------------
(* GET /session *)

Fetch(t) ==
  /\ pc[t] = "idle"
  /\ sent' = [sent EXCEPT ![t] = jar[BrowserOf[t]]]
  /\ Goto(t, "asked")
  /\ UNCHANGED <<clock, tokens, nextSessionID, teams, now, answer, jar, playing, bounds, history>>

(* The token is looked up; one that is not known makes a new session.       *)
Looks(t) ==
  /\ pc[t] = "asked"
  /\ now' = [now EXCEPT ![t] = clock]
  /\ UNCHANGED <<clock, tokens, teams, sent, jar, playing, bounds, history>>

Reuse(t) ==
  /\ Looks(t)
  /\ sent[t] \in DOMAIN records
  /\ clock - records[sent[t]].issued < MaxAge
  /\ answer' = [answer EXCEPT ![t] = [token |-> sent[t], id |-> records[sent[t]].id]]
  /\ Goto(t, "assign")
  /\ UNCHANGED nextSessionID

NewId(t) == nextSessionID + 1                              \* mutant: rotation makes a session
OldId(t) == records[sent[t]].id

FindExpired(t) ==
  /\ Looks(t)
  /\ sent[t] \in DOMAIN records
  /\ clock - records[sent[t]].issued >= MaxAge
  /\ answer' = [answer EXCEPT ![t] = [token |-> Nothing, id |-> OldId(t)]]
  /\ Goto(t, "rotate")
  /\ UNCHANGED nextSessionID

NewSession(t) ==
  /\ Looks(t)
  /\ sent[t] \notin DOMAIN records
  /\ nextSessionID' = nextSessionID + 1
  /\ answer' = [answer EXCEPT ![t] = [token |-> Nothing, id |-> nextSessionID + 1]]
  /\ Goto(t, "issue")

Generate(t) ==
  /\ pc[t] \in {"issue", "rotate"} /\ minted < MaxTokens
  /\ minted' = minted + 1
  /\ records' = With(records, minted', [id |-> answer[t].id, issued |-> now[t]])
  /\ answer' = [answer EXCEPT ![t].token = minted']
  /\ Goto(t, IF pc[t] = "issue" THEN "assign" ELSE "delete")
  /\ UNCHANGED <<clock, nextSessionID, teams, sent, now, jar, playing, bounds, history>>

DeleteOld(t) ==
  /\ pc[t] = "delete"
  /\ records' = Without(records, {sent[t]})
  /\ Goto(t, "assign")
  /\ UNCHANGED <<clock, minted, nextSessionID, teams, sent, now, answer, jar, playing,
                 bounds, history>>

Assign(t) ==
  /\ pc[t] = "assign"
  /\ assign(answer[t].id, now[t])
  /\ now' = [now EXCEPT ![t] = 0]
  /\ Goto(t, "answered")
  /\ UNCHANGED <<clock, tokens, nextSessionID, sent, answer, jar, playing, bounds, history>>

Over(t) ==
  /\ pc[t] = "answered"
  /\ sent' = [sent EXCEPT ![t] = Nothing]
  /\ answer' = [answer EXCEPT ![t] = Nothing]
  /\ Goto(t, "idle")

(* The answer sets the cookie: an answer that another one has overtaken may *)
(* bring back a token that was rotated away in between.                    *)
OldToken(t) == IF sent[t] # Nothing THEN sent[t] ELSE answer[t].token   \* mutant
Answered(t) == answer[t].token

Receive(t) ==
  LET b == BrowserOf[t] IN
  /\ Over(t)
  /\ jar' = [jar EXCEPT ![b] = Answered(t)]
  /\ identity' = [identity EXCEPT ![b] = answer[t].id]
  /\ cut' = [cut EXCEPT ![b] = IF answer[t].token # sent[t] THEN {}
                               ELSE IF jar[b] # sent[t] THEN {"overtaken"} ELSE @]
  /\ UNCHANGED <<clock, tokens, nextSessionID, teams, now, playing, bounds, played>>

LoseAnswer(t) ==
  /\ Over(t) /\ faults < MaxFaults
  /\ faults' = faults + 1
  /\ cut' = [cut EXCEPT ![BrowserOf[t]] = @ \cup {"lost"}]
  /\ UNCHANGED <<clock, tokens, nextSessionID, teams, now, jar, playing, plays, identity, played>>

-----------------------------------------------------------------------------
(* The websocket *)

(* serveWS validates the cookie and takes the colour of its session; a      *)
(* cookie that is not known is refused, which changes nothing.             *)
Connect(b) ==
  /\ playing[b] = Nothing
  /\ jar[b] \in DOMAIN records
  /\ LET s == records[jar[b]].id IN
     /\ assign(s, clock)
     /\ playing' = [playing EXCEPT ![b] = s]
  /\ UNCHANGED <<clock, tokens, nextSessionID, handler, jar, bounds, cut, identity, played>>

Disconnect(b) ==
  /\ playing[b] # Nothing
  /\ playing' = [playing EXCEPT ![b] = Nothing]
  /\ UNCHANGED <<clock, tokens, nextSessionID, teams, handler, jar, bounds, history>>

(* handlePlace, after a placement: markPlayed.                             *)
Play(b) ==
  /\ playing[b] # Nothing /\ plays < MaxPlays
  /\ plays' = plays + 1
  /\ LET s    == playing[b]
         seen == With(lastPlayed, s, clock) IN
     /\ lastPlayed' = Without(seen, DOMAIN lastPlayed \ (DOMAIN Pruned(clock) \cup {s}))
     /\ played' = With(played, s, clock)
  /\ UNCHANGED <<clock, tokens, nextSessionID, by, handler, jar, playing,
                 faults, cut, identity>>

(* GET /stats prunes as it counts.                                         *)
Stats ==
  /\ lastPlayed' = Pruned(clock)
  /\ UNCHANGED <<clock, tokens, nextSessionID, by, handler, jar, playing, bounds, history>>

(* The server's memory is gone, and the session ids begin anew; the fetches *)
(* under way fail.                                                         *)
Restart ==
  /\ faults < MaxFaults
  /\ faults' = faults + 1
  /\ records' = None /\ nextSessionID' = 0
  /\ by' = None /\ lastPlayed' = None /\ played' = None
  /\ pc' = [t \in Tabs |-> "idle"]
  /\ sent' = [t \in Tabs |-> Nothing]
  /\ now' = [t \in Tabs |-> 0]
  /\ answer' = [t \in Tabs |-> Nothing]
  /\ playing' = [b \in Browsers |-> Nothing]
  /\ cut' = [b \in Browsers |-> {"restart"}]
  /\ UNCHANGED <<clock, minted, jar, plays, identity>>

-----------------------------------------------------------------------------
Serve(t) ==
  \/ Reuse(t) \/ FindExpired(t) \/ NewSession(t) \/ Generate(t) \/ DeleteOld(t) \/ Assign(t)

Next ==
  \/ Tick \/ Stats \/ Restart
  \/ \E t \in Tabs : Fetch(t) \/ Serve(t) \/ Receive(t) \/ LoseAnswer(t)
  \/ \E b \in Browsers : Connect(b) \/ Disconnect(b) \/ Play(b)

Spec == Init /\ [][Next]_vars

-----------------------------------------------------------------------------
(* Properties *)

Held        == 1 .. minted \cup {Nothing}
SessionIds  == 1 .. nextSessionID

(* Every variable has its type; the tokens in use are the minted ones, the  *)
(* session ids the ones that were given, and only a session with a colour   *)
(* plays.                                                                  *)
TypeOK ==
  /\ clock \in 0 .. MaxClock /\ minted \in 0 .. MaxTokens /\ nextSessionID \in Nat
  /\ DOMAIN records \subseteq 1 .. minted
  /\ \A x \in DOMAIN records : records[x] \in [id : SessionIds, issued : 0 .. clock]
  /\ \A s \in DOMAIN by : s \in SessionIds /\ by[s] \in {1, 2}
  /\ DOMAIN lastPlayed \subseteq DOMAIN played /\ DOMAIN played \subseteq DOMAIN by
  /\ \A s \in DOMAIN played : played[s] \in 0 .. clock
  /\ pc \in [Tabs -> {"idle", "asked", "rotate", "issue", "delete", "assign", "answered"}]
  /\ sent \in [Tabs -> Held] /\ now \in [Tabs -> 0 .. clock]
  /\ answer \in [Tabs -> [token : Held, id : SessionIds] \cup {Nothing}]
  /\ \A t \in Tabs : answer[t] # Nothing <=> pc[t] \notin {"idle", "asked"}
  /\ jar \in [Browsers -> Held] /\ identity \in [Browsers -> Nat \cup {Nothing}]
  /\ playing \in [Browsers -> DOMAIN by \cup {Nothing}]
  /\ faults \in 0 .. MaxFaults /\ plays \in 0 .. MaxPlays
  /\ cut \in [Browsers -> SUBSET {"overtaken", "lost", "restart"}]

Known(b) == jar[b] \in DOMAIN records

Rotating(t) == pc[t] \in {"assign", "answered"} /\ answer[t].token # sent[t]

(* The cookie of a browser opens the websocket (main.go:421), through any   *)
(* interleaving of the three steps of rotation, unless the answer with its  *)
(* successor is still under way or was lost, a late answer brought an old  *)
(* token back, or the server was started anew.                             *)
CookieHolds ==
  \A b \in Browsers : jar[b] # Nothing /\ ~Known(b) =>
    cut[b] # {} \/ \E t \in Tabs : BrowserOf[t] = b /\ sent[t] = jar[b] /\ Rotating(t)

(* A browser keeps its session through reuse and rotation of its token,     *)
(* but for those cases and two answers to its tabs that cross.              *)
KeepsSession ==
  [][\A t \in Tabs :
       LET b == BrowserOf[t]
           crossed == \/ jar[b] # sent[t]
                      \/ \E u \in Tabs \ {t} : sent[u] = sent[t] /\ Rotating(u) IN
       pc[t] = "answered" /\ identity[b] # Nothing /\ identity'[b] # identity[b]
         => cut[b] # {} \/ crossed \/ pc'[t] = "answered"]_vars

(* A session keeps its colour while the server runs, whatever tab or        *)
(* connection asks and whatever is pruned (main.go:144).                   *)
ColourSticks == [][\A s \in DOMAIN by \cap DOMAIN by' : by'[s] = by[s]]_vars

(* Pruning never hides a player who placed within the window from the count*)
(* that balances the teams.                                                *)
LiveExact ==
  \A team \in {1, 2} :
    Live(clock, team) = Cardinality({s \in Young(played, clock, Window) : by[s] = team})
=================================================================================
