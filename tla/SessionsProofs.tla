----------------------------- MODULE SessionsProofs -----------------------------
(***************************************************************************)
(* A browser's cookie, its session and its colour, for any number of       *)
(* browsers and tabs, any age of tokens and any window of play.            *)
(***************************************************************************)
EXTENDS Sessions, TLAPS

-----------------------------------------------------------------------------
(* The inductive invariant                                                   *)

(* Browser b has token x: as its cookie, in a request or in an answer.      *)
Answers(t, x) == answer[t] # Nothing /\ answer[t].token = x
Has(b, x) ==
  \/ jar[b] = x
  \/ \E t \in Tabs : BrowserOf[t] = b /\ (sent[t] = x \/ Answers(t, x))

(* No two browsers have the same token.                                     *)
OwnTokens ==
  \A b, b2 \in Browsers, x \in 1 .. minted : Has(b, x) /\ Has(b2, x) => b = b2

(* The answer to a tab has a token that was made for it.                    *)
Fresh(t) == answer[t] # Nothing /\ answer[t].token \in 1 .. minted /\ answer[t].token # sent[t]

(* A token that was made for a tab is in the table, for the session of the  *)
(* answer, and nobody else has it yet.                                      *)
FreshOK ==
  \A t \in Tabs : Fresh(t) =>
    /\ answer[t].token \in DOMAIN records
    /\ records[answer[t].token].id = answer[t].id
    /\ \A b \in Browsers : jar[b] # answer[t].token
    /\ \A u \in Tabs : sent[u] # answer[t].token
    /\ \A u \in Tabs \ {t} : ~Answers(u, answer[t].token)

(* When the answer has its token.                                           *)
AnswersOK ==
  \A t \in Tabs :
    /\ pc[t] \in {"issue", "rotate"} => answer[t].token = Nothing
    /\ pc[t] = "delete" => Fresh(t)
    /\ pc[t] \in {"assign", "answered"} => answer[t].token \in 1 .. minted

Crossed(t) == \E u \in Tabs \ {t} : sent[u] = sent[t] /\ Rotating(u)

(* As long as nothing went wrong with a browser's cookie its record is that *)
(* of the session the browser has, and an answer to a request with that     *)
(* cookie is for that session - or another tab is about to replace it.      *)
IdentityOK ==
  /\ \A b \in Browsers : identity[b] # Nothing => jar[b] # Nothing
  /\ \A b \in Browsers : cut[b] = {} /\ jar[b] \in DOMAIN records =>
       records[jar[b]].id = identity[b]
  /\ \A t \in Tabs :
       (/\ answer[t] # Nothing /\ sent[t] # Nothing
        /\ jar[BrowserOf[t]] = sent[t] /\ cut[BrowserOf[t]] = {})
         => \/ answer[t].id = identity[BrowserOf[t]]
            \/ answer[t].token # sent[t] /\ Crossed(t)

(* The teamPicker has forgotten only who placed long ago.                   *)
PlayedOK ==
  /\ \A s \in DOMAIN lastPlayed : lastPlayed[s] = played[s]
  /\ \A s \in DOMAIN played \ DOMAIN lastPlayed : played[s] < clock - Window

SessionsInv ==
  TypeOK /\ OwnTokens /\ FreshOK /\ AnswersOK /\ CookieHolds /\ IdentityOK /\ PlayedOK

-----------------------------------------------------------------------------
(* Types                                                                     *)

Labels == {"idle", "asked", "rotate", "issue", "delete", "assign", "answered"}

(* Absent things are no tokens, no session ids and no answers.              *)
LEMMA NothingIsNone ==
  ASSUME TypeOK
  PROVE  /\ Nothing \notin 1 .. minted /\ Nothing \notin DOMAIN records
         /\ minted \in Nat /\ clock \in Nat
         /\ \A token \in Held, id \in SessionIds :
              /\ [token |-> token, id |-> id] \in [token : Held, id : SessionIds]
              /\ [token |-> token, id |-> id] # Nothing
<1>1. minted \in Nat /\ clock \in Nat /\ DOMAIN records \subseteq 1 .. minted
  BY SessionsAssumption DEF TypeOK
<1>2. Nothing \notin 1 .. minted
  BY <1>1, SessionsAssumption
<1>3. Held \subseteq Tokens \cup {Nothing} /\ SessionIds \subseteq Nat
  BY SessionsAssumption DEF Held, Tokens, TypeOK, SessionIds
<1>4. ASSUME NEW token \in Held, NEW id \in SessionIds
      PROVE  [token |-> token, id |-> id] # Nothing
  BY <1>3, SessionsAssumption
<1> QED BY <1>1, <1>2, <1>4

(* A value that is put into a function leaves the others as they were.      *)
LEMMA WithType ==
  ASSUME NEW f, NEW x, NEW v
  PROVE  /\ DOMAIN With(f, x, v) = DOMAIN f \cup {x} /\ With(f, x, v)[x] = v
         /\ \A y \in DOMAIN f \ {x} : With(f, x, v)[y] = f[y]
BY DEF With

(* What is taken out of it leaves the rest as it was.                       *)
LEMMA WithoutType ==
  ASSUME NEW f, NEW gone
  PROVE  /\ DOMAIN Without(f, gone) = DOMAIN f \ gone
         /\ \A y \in DOMAIN f \ gone : Without(f, gone)[y] = f[y]
BY DEF Without

(* A colour is one of the two, and a session that has one keeps it.         *)
LEMMA TeamType ==
  ASSUME \A s \in DOMAIN by : by[s] \in {1, 2}, NEW s, NEW time
  PROVE  TeamOf(s, time) \in {1, 2} /\ (s \in DOMAIN by => TeamOf(s, time) = by[s])
<1>1. Balanced(s, time) \in {1, 2}
  BY DEF Balanced
<1> QED BY <1>1 DEF TeamOf

(* Pruning forgets whose last placement is more than two windows old.       *)
LEMMA PrunedType ==
  ASSUME \A s \in DOMAIN lastPlayed : lastPlayed[s] \in Int, NEW time \in Int
  PROVE  /\ DOMAIN Pruned(time) \subseteq DOMAIN lastPlayed
         /\ \A s \in DOMAIN Pruned(time) : Pruned(time)[s] = lastPlayed[s]
         /\ \A s \in DOMAIN lastPlayed \ DOMAIN Pruned(time) :
              lastPlayed[s] < time - 2 * Window
<1> PICK gone : gone = DOMAIN lastPlayed \ Young(lastPlayed, time, 2 * Window)
  OBVIOUS
<1>1. DOMAIN Pruned(time) = Young(lastPlayed, time, 2 * Window)
  <2>1. DOMAIN Pruned(time) = DOMAIN lastPlayed \ gone
    BY DEF Pruned, Without
  <2>2. Young(lastPlayed, time, 2 * Window) \subseteq DOMAIN lastPlayed
    BY DEF Young
  <2> QED BY <2>1, <2>2
<1>2. \A s \in DOMAIN Pruned(time) : Pruned(time)[s] = lastPlayed[s]
  BY DEF Pruned, Without
<1>3. ASSUME NEW s \in DOMAIN lastPlayed, s \notin Young(lastPlayed, time, 2 * Window)
      PROVE  lastPlayed[s] < time - 2 * Window
  <2>1. ~(lastPlayed[s] >= time - 2 * Window)
    BY <1>3 DEF Young
  <2> QED BY <2>1, SessionsAssumption
<1> QED BY <1>1, <1>2, <1>3 DEF Young

(* Giving a session its colour.                                             *)
LEMMA AssignType ==
  ASSUME TypeOK, PlayedOK, NEW s \in SessionIds, NEW time \in 0 .. clock, assign(s, time)
  PROVE  /\ DOMAIN by' = DOMAIN by \cup {s}
         /\ \A x \in DOMAIN by' : x \in SessionIds /\ by'[x] \in {1, 2}
         /\ \A x \in DOMAIN by : by'[x] = by[x]
         /\ DOMAIN lastPlayed' \subseteq DOMAIN lastPlayed
         /\ \A x \in DOMAIN lastPlayed' : lastPlayed'[x] = lastPlayed[x]
         /\ \A x \in DOMAIN lastPlayed \ DOMAIN lastPlayed' :
              lastPlayed[x] < time - 2 * Window
<1>1. by' = With(by, s, TeamOf(s, time))
      /\ lastPlayed' = (IF s \in DOMAIN by THEN lastPlayed ELSE Pruned(time))
  BY DEF assign
<1>2. \A x \in DOMAIN by : by[x] \in {1, 2} /\ x \in SessionIds
  BY DEF TypeOK
<1>3. TeamOf(s, time) \in {1, 2} /\ (s \in DOMAIN by => TeamOf(s, time) = by[s])
  BY <1>2, TeamType
<1>4. /\ DOMAIN by' = DOMAIN by \cup {s} /\ by'[s] = TeamOf(s, time)
      /\ \A x \in DOMAIN by \ {s} : by'[x] = by[x]
  <2>1. PICK team : team = TeamOf(s, time)
    OBVIOUS
  <2>2. by' = With(by, s, team)
    BY <1>1, <2>1
  <2> QED BY <2>1, <2>2 DEF With
<1>5. \A x \in DOMAIN lastPlayed : lastPlayed[x] \in Int
  BY DEF TypeOK, PlayedOK
<1>6. time \in Int
  OBVIOUS
<1>7. /\ DOMAIN lastPlayed' \subseteq DOMAIN lastPlayed
      /\ \A x \in DOMAIN lastPlayed' : lastPlayed'[x] = lastPlayed[x]
      /\ \A x \in DOMAIN lastPlayed \ DOMAIN lastPlayed' :
           lastPlayed[x] < time - 2 * Window
  BY <1>1, <1>5, <1>6, PrunedType
<1> QED BY <1>2, <1>3, <1>4, <1>7

(* Every variable has its type at the beginning.                            *)
LEMMA InitType == Init => TypeOK
<1> SUFFICES ASSUME Init PROVE TypeOK
  OBVIOUS
<1>1. DOMAIN None = {}
  BY DEF None
<1> QED BY <1>1, SessionsAssumption DEF Init, TypeOK, Held, SessionIds

(* A step that only moves a tab on keeps the types.                         *)
LEMMA FetchType ==
  ASSUME TypeOK, NEW t \in Tabs, Fetch(t)
  PROVE  TypeOK'
<1>1. BrowserOf[t] \in Browsers
  BY SessionsAssumption
<1>2. /\ sent' \in [Tabs -> Held] /\ pc' \in [Tabs -> Labels]
      /\ pc' = [pc EXCEPT ![t] = "asked"] /\ pc[t] = "idle"
  BY <1>1 DEF Fetch, Goto, TypeOK, Labels
<1>3. \A u \in Tabs : answer[u] # Nothing <=> pc'[u] \notin {"idle", "asked"}
  BY <1>2 DEF TypeOK
<1> QED BY <1>2, <1>3 DEF Fetch, TypeOK, Held, SessionIds, tokens, teams, bounds, history, Labels

(* Looking the token up: what the answer will be for.                       *)
LEMMA LookType ==
  ASSUME TypeOK, NEW t \in Tabs, Reuse(t) \/ FindExpired(t) \/ NewSession(t)
  PROVE  /\ TypeOK' /\ answer' = [answer EXCEPT ![t] = answer'[t]] /\ answer'[t] # Nothing
         /\ answer'[t].token \in {sent[t], Nothing} /\ answer'[t].id \in 1 .. nextSessionID'
<1>1. /\ pc[t] = "asked" /\ now' = [now EXCEPT ![t] = clock]
      /\ UNCHANGED <<clock, tokens, teams, sent, jar, playing, bounds, history>>
  BY DEF Reuse, FindExpired, NewSession, Looks
<1>2. now' \in [Tabs -> 0 .. clock]
  BY <1>1, NothingIsNone DEF TypeOK
<1>3. nextSessionID' \in Nat /\ nextSessionID \in Nat /\ SessionIds \subseteq 1 .. nextSessionID'
      /\ sent[t] \in Held /\ Nothing \in Held
  BY DEF Reuse, FindExpired, NewSession, TypeOK, SessionIds, Held
<1>4. PICK token \in Held, id \in 1 .. nextSessionID' :
        /\ answer' = [answer EXCEPT ![t] = [token |-> token, id |-> id]]
        /\ token \in {sent[t], Nothing}
  <2>1. \A x \in DOMAIN records : records[x].id \in 1 .. nextSessionID'
    BY <1>3 DEF TypeOK, SessionIds
  <2>2. CASE Reuse(t)
    BY <1>3, <2>1, <2>2 DEF Reuse
  <2>3. CASE FindExpired(t)
    BY <1>3, <2>1, <2>3 DEF FindExpired, OldId
  <2>4. CASE NewSession(t)
    <3>1. nextSessionID + 1 \in 1 .. nextSessionID'
      BY <1>3, <2>4 DEF NewSession
    <3> QED BY <1>3, <2>4, <3>1 DEF NewSession
  <2> QED BY <2>2, <2>3, <2>4
<1>5. [token |-> token, id |-> id] # Nothing
  <2>1. minted \in 0 .. MaxTokens /\ token \in Tokens \cup {Nothing} /\ id \in Nat
    BY <1>3, <1>4, SessionsAssumption DEF TypeOK, Held, Tokens
  <2> QED BY <2>1, SessionsAssumption
<1>6. PICK label \in {"assign", "rotate", "issue"} : pc' = [pc EXCEPT ![t] = label]
  BY DEF Reuse, FindExpired, NewSession, Goto
<1>7. pc' \in [Tabs -> Labels]
      /\ \A u \in Tabs : answer'[u] # Nothing <=> pc'[u] \notin {"idle", "asked"}
  BY <1>4, <1>5, <1>6 DEF TypeOK, Labels
<1>8. answer' \in [Tabs -> [token : Held, id : 1 .. nextSessionID'] \cup {Nothing}]
      /\ answer'[t] = [token |-> token, id |-> id]
  BY <1>3, <1>4 DEF TypeOK, SessionIds
<1>9. \A x \in DOMAIN records : records[x] \in [id : 1 .. nextSessionID', issued : 0 .. clock]
  BY <1>3 DEF TypeOK, SessionIds
<1>10. TypeOK'
  BY <1>1, <1>2, <1>3, <1>7, <1>8, <1>9
     DEF TypeOK, Held, SessionIds, tokens, teams, bounds, history, Labels
<1> QED BY <1>4, <1>5, <1>8, <1>10

(* A token is made: one that nobody has had.                                *)
LEMMA GenerateType ==
  ASSUME TypeOK, NEW t \in Tabs, Generate(t)
  PROVE  /\ TypeOK' /\ minted' = minted + 1 /\ minted \in Nat
         /\ DOMAIN records' = DOMAIN records \cup {minted'}
         /\ \A x \in DOMAIN records : records'[x] = records[x]
         /\ records'[minted'].id = answer[t].id
         /\ answer'[t] = [token |-> minted', id |-> answer[t].id] /\ answer'[t] # Nothing
         /\ \A u \in Tabs \ {t} : answer'[u] = answer[u]
<1>1. minted' = minted + 1 /\ minted \in Nat /\ minted' \in 0 .. MaxTokens
  BY SessionsAssumption DEF Generate, TypeOK
<1>2. pc[t] \in {"issue", "rotate"} /\ answer[t] # Nothing
      /\ answer[t] \in [token : Held, id : SessionIds]
  BY DEF Generate, TypeOK
<1>3. PICK rec : rec = [id |-> answer[t].id, issued |-> now[t]]
  OBVIOUS
<1>4. records' = With(records, minted', rec) /\ rec \in [id : SessionIds, issued : 0 .. clock]
  BY <1>2, <1>3 DEF Generate, TypeOK
<1>5. /\ DOMAIN records' = DOMAIN records \cup {minted'} /\ records'[minted'] = rec
      /\ \A x \in DOMAIN records \ {minted'} : records'[x] = records[x]
  BY <1>4 DEF With
<1>6. DOMAIN records \subseteq 1 .. minted /\ minted' \notin 1 .. minted
      /\ 1 .. minted \subseteq 1 .. minted' /\ minted' \in 1 .. minted'
  BY <1>1 DEF TypeOK
<1>7. /\ \A x \in DOMAIN records : records'[x] = records[x]
      /\ DOMAIN records' \subseteq 1 .. minted'
      /\ \A x \in DOMAIN records' : records'[x] \in [id : SessionIds, issued : 0 .. clock]
  BY <1>4, <1>5, <1>6 DEF TypeOK
<1>8. answer'[t] = [token |-> minted', id |-> answer[t].id]
      /\ \A u \in Tabs \ {t} : answer'[u] = answer[u]
  BY <1>2 DEF Generate, TypeOK
<1>9. answer'[t] # Nothing
  <2>1. minted' \in Tokens \cup {Nothing} /\ answer[t].id \in Nat
    BY <1>1, <1>2, SessionsAssumption DEF Tokens, SessionIds, TypeOK
  <2> QED BY <1>8, <2>1, SessionsAssumption
<1>10. answer' \in [Tabs -> [token : 1 .. minted' \cup {Nothing}, id : SessionIds] \cup {Nothing}]
  <2>1. \A u \in Tabs : answer'[u] \in [token : 1 .. minted' \cup {Nothing}, id : SessionIds]
                                         \cup {Nothing}
    BY <1>2, <1>6, <1>8 DEF TypeOK, Held
  <2>2. answer' = [u \in Tabs |-> answer'[u]]
    BY DEF Generate, TypeOK
  <2> QED BY <2>1, <2>2
<1>11. /\ pc' \in [Tabs -> Labels]
       /\ \A u \in Tabs : answer'[u] # Nothing <=> pc'[u] \notin {"idle", "asked"}
  BY <1>8, <1>9 DEF Generate, Goto, TypeOK, Labels
<1>12. Held \subseteq 1 .. minted' \cup {Nothing}
  BY <1>6 DEF Held
<1>13. /\ sent \in [Tabs -> 1 .. minted' \cup {Nothing}]
       /\ jar \in [Browsers -> 1 .. minted' \cup {Nothing}]
  BY <1>12 DEF TypeOK
<1>14. UNCHANGED <<clock, nextSessionID, by, lastPlayed, sent, now, jar, playing, faults, plays,
                   cut, identity, played>>
  BY DEF Generate, teams, bounds, history
<1>15. TypeOK'
  BY <1>1, <1>7, <1>10, <1>11, <1>13, <1>14 DEF TypeOK, Held, SessionIds, Labels
<1> QED BY <1>1, <1>3, <1>5, <1>7, <1>8, <1>9, <1>15

(* Deleting the token that was replaced takes only that one away.           *)
LEMMA DeleteType ==
  ASSUME TypeOK, NEW t \in Tabs, DeleteOld(t)
  PROVE  /\ TypeOK' /\ DOMAIN records' = DOMAIN records \ {sent[t]}
         /\ \A x \in DOMAIN records' : records'[x] = records[x]
<1>1. DOMAIN records' = DOMAIN records \ {sent[t]}
      /\ \A x \in DOMAIN records' : records'[x] = records[x]
  BY DEF DeleteOld, Without
<1>2. /\ pc' \in [Tabs -> Labels]
      /\ \A u \in Tabs : answer[u] # Nothing <=> pc'[u] \notin {"idle", "asked"}
  BY DEF DeleteOld, Goto, TypeOK, Labels
<1>3. UNCHANGED <<clock, minted, nextSessionID, by, lastPlayed, sent, now, answer, jar, playing,
                  faults, plays, cut, identity, played>>
  BY DEF DeleteOld, teams, bounds, history
<1>4. /\ DOMAIN records' \subseteq 1 .. minted
      /\ \A x \in DOMAIN records' : records'[x] \in [id : SessionIds, issued : 0 .. clock]
  BY <1>1 DEF TypeOK
<1>5. TypeOK'
  BY <1>2, <1>3, <1>4 DEF TypeOK, Held, SessionIds, Labels
<1> QED BY <1>1, <1>5

(* The step that gives the session of an answer its colour.                 *)
LEMMA TabAssignType ==
  ASSUME TypeOK, PlayedOK, NEW t \in Tabs, Assign(t)
  PROVE  /\ TypeOK' /\ DOMAIN lastPlayed' \subseteq DOMAIN lastPlayed
         /\ \A x \in DOMAIN lastPlayed' : lastPlayed'[x] = lastPlayed[x]
         /\ \A x \in DOMAIN lastPlayed \ DOMAIN lastPlayed' :
              lastPlayed[x] < clock - 2 * Window
<1>1. PICK s, time : s = answer[t].id /\ time = now[t]
  OBVIOUS
<1>2. s \in SessionIds /\ time \in 0 .. clock /\ assign(s, time) /\ clock \in Nat
  BY <1>1, NothingIsNone DEF Assign, TypeOK
<1>3. /\ DOMAIN by' = DOMAIN by \cup {s}
      /\ \A x \in DOMAIN by' : x \in SessionIds /\ by'[x] \in {1, 2}
      /\ DOMAIN lastPlayed' \subseteq DOMAIN lastPlayed
      /\ \A x \in DOMAIN lastPlayed' : lastPlayed'[x] = lastPlayed[x]
      /\ \A x \in DOMAIN lastPlayed \ DOMAIN lastPlayed' : lastPlayed[x] < time - 2 * Window
  BY <1>2, AssignType
<1>4. /\ pc' \in [Tabs -> Labels] /\ now' \in [Tabs -> 0 .. clock]
      /\ \A u \in Tabs : answer[u] # Nothing <=> pc'[u] \notin {"idle", "asked"}
  BY <1>2 DEF Assign, Goto, TypeOK, Labels
<1>5. UNCHANGED <<clock, minted, records, nextSessionID, sent, answer, jar, playing,
                  faults, plays, cut, identity, played>>
  BY DEF Assign, tokens, bounds, history
<1>6. playing \in [Browsers -> DOMAIN by' \cup {Nothing}]
  BY <1>3 DEF TypeOK
<1>7. DOMAIN lastPlayed' \subseteq DOMAIN played /\ DOMAIN played \subseteq DOMAIN by'
  BY <1>3 DEF TypeOK
<1>8. TypeOK'
  BY <1>3, <1>4, <1>5, <1>6, <1>7 DEF TypeOK, Held, SessionIds, Labels
<1>9. \A x \in DOMAIN lastPlayed \ DOMAIN lastPlayed' : lastPlayed[x] < clock - 2 * Window
  <2>1. ASSUME NEW x \in DOMAIN lastPlayed \ DOMAIN lastPlayed'
        PROVE  lastPlayed[x] < clock - 2 * Window
    <3>1. lastPlayed[x] \in Nat
      BY <1>2 DEF TypeOK, PlayedOK
    <3> QED BY <1>2, <1>3, <3>1, SessionsAssumption
  <2> QED BY <2>1
<1> QED BY <1>3, <1>8, <1>9

(* An answer that arrives, or is lost, is over.                             *)
LEMMA OverType ==
  ASSUME TypeOK, NEW t \in Tabs, Receive(t) \/ LoseAnswer(t)
  PROVE  /\ TypeOK' /\ pc[t] = "answered" /\ answer[t] # Nothing
         /\ sent' = [sent EXCEPT ![t] = Nothing]
         /\ answer' = [answer EXCEPT ![t] = Nothing]
         /\ pc' = [pc EXCEPT ![t] = "idle"]
         /\ UNCHANGED <<clock, minted, records, nextSessionID, by, lastPlayed, now, playing,
                        plays, played>>
<1>1. /\ pc[t] = "answered" /\ sent' = [sent EXCEPT ![t] = Nothing]
      /\ answer' = [answer EXCEPT ![t] = Nothing] /\ pc' = [pc EXCEPT ![t] = "idle"]
  BY DEF Receive, LoseAnswer, Over, Goto
<1>2. answer[t] # Nothing /\ answer[t] \in [token : Held, id : SessionIds]
      /\ BrowserOf[t] \in Browsers
  BY <1>1, SessionsAssumption DEF TypeOK
<1>3. UNCHANGED <<clock, minted, records, nextSessionID, by, lastPlayed, now, playing,
                  plays, played>>
  BY DEF Receive, LoseAnswer, tokens, teams, bounds
<1>4. /\ pc' \in [Tabs -> Labels] /\ sent' \in [Tabs -> Held]
      /\ answer' \in [Tabs -> [token : Held, id : SessionIds] \cup {Nothing}]
      /\ \A u \in Tabs : answer'[u] # Nothing <=> pc'[u] \notin {"idle", "asked"}
  BY <1>1 DEF TypeOK, Labels, Held
<1>5. SessionIds \subseteq Nat
  BY DEF SessionIds, TypeOK
<1>6. CASE Receive(t)
  <2>1. faults' = faults /\ jar' = [jar EXCEPT ![BrowserOf[t]] = answer[t].token]
        /\ identity' = [identity EXCEPT ![BrowserOf[t]] = answer[t].id]
    BY <1>6 DEF Receive, Answered, bounds
  <2>2. jar' \in [Browsers -> Held] /\ identity' \in [Browsers -> Nat \cup {Nothing}]
    BY <1>2, <1>5, <2>1 DEF TypeOK
  <2>3. cut' \in [Browsers -> SUBSET {"overtaken", "lost", "restart"}]
    <3>1. cut' = [cut EXCEPT ![BrowserOf[t]] =
                    IF answer[t].token # sent[t] THEN {}
                    ELSE IF jar[BrowserOf[t]] # sent[t] THEN {"overtaken"}
                    ELSE cut[BrowserOf[t]]]
      BY <1>6 DEF Receive
    <3>2. PICK marks \in SUBSET {"overtaken", "lost", "restart"} :
            cut' = [cut EXCEPT ![BrowserOf[t]] = marks]
      BY <1>2, <3>1 DEF TypeOK
    <3> QED BY <3>2 DEF TypeOK
  <2> QED BY <1>1, <1>2, <1>3, <1>4, <2>1, <2>2, <2>3 DEF TypeOK, Held, SessionIds, Labels
<1>7. CASE LoseAnswer(t)
  <2>1. faults' \in 0 .. MaxFaults /\ UNCHANGED <<jar, identity>>
    BY <1>7, SessionsAssumption DEF LoseAnswer, TypeOK
  <2>2. cut' \in [Browsers -> SUBSET {"overtaken", "lost", "restart"}]
    <3>1. PICK marks \in SUBSET {"overtaken", "lost", "restart"} :
            cut' = [cut EXCEPT ![BrowserOf[t]] = marks]
      <4>1. cut[BrowserOf[t]] \in SUBSET {"overtaken", "lost", "restart"}
        BY <1>2 DEF TypeOK
      <4>2. cut' = [cut EXCEPT ![BrowserOf[t]] = cut[BrowserOf[t]] \cup {"lost"}]
        BY <1>7 DEF LoseAnswer
      <4> QED BY <4>1, <4>2
    <3> QED BY <3>1 DEF TypeOK
  <2> QED BY <1>1, <1>2, <1>3, <1>4, <2>1, <2>2 DEF TypeOK, Held, SessionIds, Labels
<1> QED BY <1>6, <1>7

(* The websocket of a browser takes the colour of its session.              *)
LEMMA ConnectType ==
  ASSUME TypeOK, PlayedOK, NEW b \in Browsers, Connect(b)
  PROVE  /\ TypeOK' /\ DOMAIN lastPlayed' \subseteq DOMAIN lastPlayed
         /\ \A x \in DOMAIN lastPlayed' : lastPlayed'[x] = lastPlayed[x]
         /\ \A x \in DOMAIN lastPlayed \ DOMAIN lastPlayed' :
              lastPlayed[x] < clock - 2 * Window
<1>1. PICK s : s = records[jar[b]].id
  OBVIOUS
<1>2. s \in SessionIds /\ assign(s, clock) /\ clock \in 0 .. clock
  BY <1>1, NothingIsNone DEF Connect, TypeOK
<1>3. /\ DOMAIN by' = DOMAIN by \cup {s}
      /\ \A x \in DOMAIN by' : x \in SessionIds /\ by'[x] \in {1, 2}
      /\ DOMAIN lastPlayed' \subseteq DOMAIN lastPlayed
      /\ \A x \in DOMAIN lastPlayed' : lastPlayed'[x] = lastPlayed[x]
      /\ \A x \in DOMAIN lastPlayed \ DOMAIN lastPlayed' : lastPlayed[x] < clock - 2 * Window
  BY <1>2, AssignType
<1>4. UNCHANGED <<clock, minted, records, nextSessionID, pc, sent, now, answer, jar,
                  faults, plays, cut, identity, played>>
  BY DEF Connect, tokens, handler, bounds
<1>5. playing' \in [Browsers -> DOMAIN by' \cup {Nothing}]
  <2>1. playing' = [playing EXCEPT ![b] = s]
    BY <1>1 DEF Connect
  <2> QED BY <1>3, <2>1 DEF TypeOK
<1>6. DOMAIN lastPlayed' \subseteq DOMAIN played /\ DOMAIN played \subseteq DOMAIN by'
  BY <1>3 DEF TypeOK
<1>7. TypeOK'
  BY <1>3, <1>4, <1>5, <1>6 DEF TypeOK, Held, SessionIds
<1> QED BY <1>3, <1>7

(* What pruning leaves is as it was, what it takes away is old.             *)
LEMMA StatsType ==
  ASSUME TypeOK, PlayedOK, Stats
  PROVE  /\ TypeOK' /\ DOMAIN lastPlayed' \subseteq DOMAIN lastPlayed
         /\ \A x \in DOMAIN lastPlayed' : lastPlayed'[x] = lastPlayed[x]
         /\ \A x \in DOMAIN lastPlayed \ DOMAIN lastPlayed' :
              lastPlayed[x] < clock - 2 * Window
<1>1. (\A x \in DOMAIN lastPlayed : lastPlayed[x] \in Int) /\ clock \in Int
  BY DEF TypeOK, PlayedOK
<1>2. lastPlayed' = Pruned(clock)
  BY DEF Stats
<1>3. /\ DOMAIN lastPlayed' \subseteq DOMAIN lastPlayed
      /\ \A x \in DOMAIN lastPlayed' : lastPlayed'[x] = lastPlayed[x]
      /\ \A x \in DOMAIN lastPlayed \ DOMAIN lastPlayed' : lastPlayed[x] < clock - 2 * Window
  BY <1>1, <1>2, PrunedType
<1>4. TypeOK'
  BY <1>3 DEF Stats, TypeOK, Held, SessionIds, tokens, handler, bounds, history
<1> QED BY <1>3, <1>4

(* A placement is remembered by the teamPicker, which prunes as it does so. *)
LEMMA PlayType ==
  ASSUME TypeOK, PlayedOK, NEW b \in Browsers, Play(b)
  PROVE  /\ TypeOK'
         /\ \E s \in DOMAIN by :
              /\ DOMAIN played' = DOMAIN played \cup {s} /\ played'[s] = clock
              /\ \A x \in DOMAIN played \ {s} : played'[x] = played[x]
              /\ DOMAIN lastPlayed' \subseteq DOMAIN lastPlayed \cup {s}
              /\ s \in DOMAIN lastPlayed' /\ lastPlayed'[s] = clock
              /\ \A x \in DOMAIN lastPlayed' \ {s} : lastPlayed'[x] = lastPlayed[x]
              /\ \A x \in DOMAIN lastPlayed \ DOMAIN lastPlayed' :
                   lastPlayed[x] < clock - 2 * Window
<1>1. PICK s : s = playing[b]
  OBVIOUS
<1>2. s \in DOMAIN by /\ clock \in Nat /\ plays' \in 0 .. MaxPlays
  BY <1>1, SessionsAssumption DEF Play, TypeOK
<1>3. PICK seen : seen = With(lastPlayed, s, clock)
  OBVIOUS
<1>4. PICK gone : gone = DOMAIN lastPlayed \ (DOMAIN Pruned(clock) \cup {s})
  OBVIOUS
<1>5. lastPlayed' = Without(seen, gone) /\ played' = With(played, s, clock)
  BY <1>1, <1>3, <1>4 DEF Play
<1>6. /\ DOMAIN seen = DOMAIN lastPlayed \cup {s} /\ seen[s] = clock
      /\ \A x \in DOMAIN lastPlayed \ {s} : seen[x] = lastPlayed[x]
  BY <1>3 DEF With
<1>7. /\ DOMAIN lastPlayed' = DOMAIN seen \ gone
      /\ \A x \in DOMAIN lastPlayed' : lastPlayed'[x] = seen[x]
  BY <1>5 DEF Without
<1>8. /\ DOMAIN played' = DOMAIN played \cup {s} /\ played'[s] = clock
      /\ \A x \in DOMAIN played \ {s} : played'[x] = played[x]
  BY <1>5 DEF With
<1>9. \A x \in DOMAIN lastPlayed \ DOMAIN Pruned(clock) : lastPlayed[x] < clock - 2 * Window
  <2>1. (\A x \in DOMAIN lastPlayed : lastPlayed[x] \in Int) /\ clock \in Int
    BY <1>2 DEF TypeOK, PlayedOK
  <2> QED BY <2>1, PrunedType
<1>10. UNCHANGED <<clock, minted, records, nextSessionID, by, pc, sent, now, answer, jar, playing,
                   faults, cut, identity>>
  BY DEF Play, tokens, handler
<1>11. DOMAIN lastPlayed' \subseteq DOMAIN played' /\ DOMAIN played' \subseteq DOMAIN by
  BY <1>2, <1>6, <1>7, <1>8 DEF TypeOK
<1>12. \A x \in DOMAIN played' : played'[x] \in 0 .. clock
  BY <1>2, <1>8 DEF TypeOK
<1>13. TypeOK'
  BY <1>2, <1>10, <1>11, <1>12 DEF TypeOK, Held, SessionIds
<1>14. /\ DOMAIN lastPlayed' \subseteq DOMAIN lastPlayed \cup {s}
       /\ s \in DOMAIN lastPlayed' /\ lastPlayed'[s] = clock
       /\ \A x \in DOMAIN lastPlayed' \ {s} : lastPlayed'[x] = lastPlayed[x]
       /\ DOMAIN lastPlayed \ DOMAIN lastPlayed' \subseteq DOMAIN lastPlayed \ DOMAIN Pruned(clock)
  BY <1>4, <1>6, <1>7
<1> QED BY <1>2, <1>8, <1>9, <1>13, <1>14

(* A server that is started anew remembers nothing.                         *)
LEMMA RestartType ==
  ASSUME TypeOK, Restart
  PROVE  /\ TypeOK' /\ DOMAIN records' = {} /\ DOMAIN by' = {}
         /\ DOMAIN lastPlayed' = {} /\ DOMAIN played' = {}
<1>1. DOMAIN None = {}
  BY DEF None
<1>2. /\ DOMAIN records' = {} /\ DOMAIN by' = {} /\ nextSessionID' = 0
      /\ DOMAIN lastPlayed' = {} /\ DOMAIN played' = {}
  BY <1>1 DEF Restart
<1>3. faults' \in 0 .. MaxFaults /\ 0 \in 0 .. clock
  BY NothingIsNone, SessionsAssumption DEF Restart, TypeOK
<1>4. cut' \in [Browsers -> SUBSET {"overtaken", "lost", "restart"}]
  BY DEF Restart
<1>5. /\ pc' \in [Tabs -> Labels] /\ sent' \in [Tabs -> Held] /\ now' \in [Tabs -> 0 .. clock]
      /\ answer' \in [Tabs -> [token : Held, id : {}] \cup {Nothing}]
      /\ \A t \in Tabs : answer'[t] # Nothing <=> pc'[t] \notin {"idle", "asked"}
      /\ playing' \in [Browsers -> {Nothing}]
  BY <1>3 DEF Restart, Labels, Held
<1>6. UNCHANGED <<clock, minted, jar, plays, identity>>
  BY DEF Restart
<1>7. answer' \in [Tabs -> [token : Held, id : 1 .. 0] \cup {Nothing}]
  BY <1>5
<1>8. TypeOK'
  BY <1>2, <1>3, <1>4, <1>5, <1>6, <1>7 DEF TypeOK, Held, SessionIds, Labels
<1> QED BY <1>2, <1>8

(* Every step keeps every variable in its type.                             *)
LEMMA TypeNext ==
  ASSUME TypeOK, PlayedOK, [Next]_vars
  PROVE  TypeOK'
<1>1. CASE Tick
  <2>1. clock' \in 0 .. MaxClock /\ 0 .. clock \subseteq 0 .. clock'
    BY <1>1, SessionsAssumption DEF Tick, TypeOK
  <2>2. UNCHANGED <<minted, records, nextSessionID, by, lastPlayed, pc, sent, now, answer, jar,
                    playing, faults, plays, cut, identity, played>>
    BY <1>1 DEF Tick, tokens, teams, handler, bounds, history
  <2>3. now \in [Tabs -> 0 .. clock']
    BY <2>1 DEF TypeOK
  <2>4. \A x \in DOMAIN records : records[x] \in [id : SessionIds, issued : 0 .. clock']
    BY <2>1 DEF TypeOK
  <2>5. \A s \in DOMAIN played : played[s] \in 0 .. clock'
    BY <2>1 DEF TypeOK
  <2> QED BY <2>1, <2>2, <2>3, <2>4, <2>5 DEF TypeOK, Held, SessionIds
<1>2. CASE Stats
  BY <1>2, StatsType
<1>3. CASE Restart
  BY <1>3, RestartType
<1>4. ASSUME NEW t \in Tabs, Fetch(t) \/ Serve(t) \/ Receive(t) \/ LoseAnswer(t)
      PROVE  TypeOK'
  <2>1. CASE Reuse(t) \/ FindExpired(t) \/ NewSession(t)
    BY <2>1, LookType
  <2>2. CASE Receive(t) \/ LoseAnswer(t)
    BY <2>2, OverType
  <2>3. CASE Fetch(t) \/ Generate(t) \/ DeleteOld(t) \/ Assign(t)
    BY <2>3, FetchType, GenerateType, DeleteType, TabAssignType
  <2> QED BY <1>4, <2>1, <2>2, <2>3 DEF Serve
<1>5. ASSUME NEW b \in Browsers, Connect(b) \/ Disconnect(b) \/ Play(b)
      PROVE  TypeOK'
  <2>1. CASE Connect(b)
    BY <2>1, ConnectType
  <2>2. CASE Disconnect(b)
    BY <2>2 DEF Disconnect, TypeOK, Held, SessionIds, tokens, teams, handler, bounds, history
  <2>3. CASE Play(b)
    BY <2>3, PlayType
  <2> QED BY <1>5, <2>1, <2>2, <2>3
<1>6. CASE UNCHANGED vars
  BY <1>6 DEF vars, tokens, teams, handler, bounds, history, TypeOK, Held, SessionIds
<1> QED BY <1>1, <1>2, <1>3, <1>4, <1>5, <1>6 DEF Next

-----------------------------------------------------------------------------
(* Who placed lately                                                         *)

(* What the teamPicker forgets in a step is long ago, and stays so.         *)
LEMMA ForgetsOld ==
  ASSUME TypeOK, PlayedOK, UNCHANGED <<clock, played>>,
         DOMAIN lastPlayed' \subseteq DOMAIN lastPlayed,
         \A x \in DOMAIN lastPlayed' : lastPlayed'[x] = lastPlayed[x],
         \A x \in DOMAIN lastPlayed \ DOMAIN lastPlayed' : lastPlayed[x] < clock - 2 * Window
  PROVE  PlayedOK'
<1>1. \A s \in DOMAIN lastPlayed' : lastPlayed'[s] = played'[s]
  BY DEF PlayedOK
<1>2. ASSUME NEW s \in DOMAIN played' \ DOMAIN lastPlayed'
      PROVE  played'[s] < clock' - Window
  <2>1. played[s] \in Nat /\ clock \in Nat
    BY <1>2, NothingIsNone DEF TypeOK
  <2>2. CASE s \in DOMAIN lastPlayed
    <3>1. lastPlayed[s] < clock - 2 * Window /\ lastPlayed[s] = played[s]
      BY <1>2, <2>2 DEF PlayedOK
    <3> QED BY <2>1, <3>1, SessionsAssumption
  <2>3. CASE s \notin DOMAIN lastPlayed
    BY <1>2, <2>3 DEF PlayedOK
  <2> QED BY <2>2, <2>3
<1> QED BY <1>1, <1>2 DEF PlayedOK

(* Every step keeps the teamPicker's memory right.                          *)
LEMMA PlayedNext ==
  ASSUME TypeOK, PlayedOK, [Next]_vars
  PROVE  PlayedOK'
<1>1. CASE Tick
  <2>1. clock' = clock + 1 /\ clock \in Nat /\ UNCHANGED <<lastPlayed, played>>
    BY <1>1, NothingIsNone DEF Tick, teams, history
  <2>2. ASSUME NEW s \in DOMAIN played \ DOMAIN lastPlayed
        PROVE  played[s] < clock' - Window
    <3>1. played[s] \in Nat /\ played[s] < clock - Window
      BY <2>1, <2>2 DEF TypeOK, PlayedOK
    <3> QED BY <2>1, <3>1, SessionsAssumption
  <2> QED BY <2>1, <2>2 DEF PlayedOK
<1>2. CASE Stats
  <2>1. UNCHANGED <<clock, played>>
    BY <1>2 DEF Stats, history
  <2> QED BY <1>2, <2>1, StatsType, ForgetsOld
<1>3. CASE Restart
  BY <1>3, RestartType DEF PlayedOK
<1>4. ASSUME NEW t \in Tabs, Fetch(t) \/ Serve(t) \/ Receive(t) \/ LoseAnswer(t)
      PROVE  PlayedOK'
  <2>1. CASE Assign(t)
    <3>1. UNCHANGED <<clock, played>>
      BY <2>1 DEF Assign, history
    <3> QED BY <2>1, <3>1, TabAssignType, ForgetsOld
  <2>2. CASE Receive(t) \/ LoseAnswer(t)
    BY <2>2, OverType DEF PlayedOK
  <2>3. CASE Fetch(t) \/ Reuse(t) \/ FindExpired(t) \/ NewSession(t) \/ Generate(t) \/ DeleteOld(t)
    <3>1. UNCHANGED <<clock, lastPlayed, played>>
      BY <2>3 DEF Fetch, Reuse, FindExpired, NewSession, Looks, Generate, DeleteOld, teams, history
    <3> QED BY <3>1 DEF PlayedOK
  <2> QED BY <1>4, <2>1, <2>2, <2>3 DEF Serve
<1>5. ASSUME NEW b \in Browsers, Connect(b) \/ Disconnect(b) \/ Play(b)
      PROVE  PlayedOK'
  <2>1. CASE Connect(b)
    <3>1. UNCHANGED <<clock, played>>
      BY <2>1 DEF Connect
    <3> QED BY <2>1, <3>1, ConnectType, ForgetsOld
  <2>2. CASE Disconnect(b)
    BY <2>2 DEF Disconnect, PlayedOK, teams, history
  <2>3. CASE Play(b)
    <3>1. PICK s \in DOMAIN by :
            /\ DOMAIN played' = DOMAIN played \cup {s} /\ played'[s] = clock
            /\ \A x \in DOMAIN played \ {s} : played'[x] = played[x]
            /\ DOMAIN lastPlayed' \subseteq DOMAIN lastPlayed \cup {s}
            /\ s \in DOMAIN lastPlayed' /\ lastPlayed'[s] = clock
            /\ \A x \in DOMAIN lastPlayed' \ {s} : lastPlayed'[x] = lastPlayed[x]
            /\ \A x \in DOMAIN lastPlayed \ DOMAIN lastPlayed' :
                 lastPlayed[x] < clock - 2 * Window
      BY <2>3, PlayType
    <3>2. clock' = clock /\ clock \in Nat
      BY <2>3, NothingIsNone DEF Play
    <3>3. \A x \in DOMAIN lastPlayed' : lastPlayed'[x] = played'[x]
      BY <3>1 DEF PlayedOK, TypeOK
    <3>4. ASSUME NEW x \in DOMAIN played' \ DOMAIN lastPlayed'
          PROVE  played'[x] < clock - Window
      <4>1. x \in DOMAIN played \ {s} /\ played'[x] = played[x]
        BY <3>1, <3>4
      <4>2. played[x] \in Nat
        BY <3>2, <4>1 DEF TypeOK
      <4>3. CASE x \in DOMAIN lastPlayed
        <5>1. lastPlayed[x] < clock - 2 * Window /\ lastPlayed[x] = played[x]
          BY <3>1, <3>4, <4>3 DEF PlayedOK
        <5> QED BY <3>2, <4>1, <4>2, <5>1, SessionsAssumption
      <4>4. CASE x \notin DOMAIN lastPlayed
        BY <4>1, <4>4 DEF PlayedOK
      <4> QED BY <4>3, <4>4
    <3> QED BY <3>2, <3>3, <3>4 DEF PlayedOK
  <2> QED BY <1>5, <2>1, <2>2, <2>3
<1>6. CASE UNCHANGED vars
  BY <1>6 DEF vars, teams, history, PlayedOK
<1> QED BY <1>1, <1>2, <1>3, <1>4, <1>5, <1>6 DEF Next

(* So the count of who placed lately is exact.                              *)
LEMMA PlayedLive == TypeOK /\ PlayedOK => LiveExact
<1> SUFFICES ASSUME TypeOK, PlayedOK, NEW team \in {1, 2}
             PROVE  Live(clock, team)
                      = Cardinality({s \in Young(played, clock, Window) : by[s] = team})
  BY DEF LiveExact
<1>1. clock \in Nat /\ Window \in Nat
  BY NothingIsNone, SessionsAssumption
<1>2. ASSUME NEW s PROVE  s \in Young(lastPlayed, clock, Window) \cap DOMAIN by
                            <=> s \in Young(played, clock, Window)
  <2>1. s \in DOMAIN lastPlayed => s \in DOMAIN played /\ lastPlayed[s] = played[s]
    BY DEF TypeOK, PlayedOK
  <2>2. s \in DOMAIN played => s \in DOMAIN by
    BY DEF TypeOK
  <2>3. ASSUME s \in DOMAIN played, s \notin DOMAIN lastPlayed
        PROVE  ~(played[s] >= clock - Window)
    <3>1. played[s] \in Nat /\ played[s] < clock - Window
      BY <1>1, <2>3 DEF TypeOK, PlayedOK
    <3> QED BY <1>1, <3>1
  <2> QED BY <2>1, <2>2, <2>3 DEF Young
<1>3. Young(lastPlayed, clock, Window) \cap DOMAIN by = Young(played, clock, Window)
  BY <1>2
<1> QED BY <1>3 DEF Live

-----------------------------------------------------------------------------
(* Tokens                                                                    *)

(* Browsers that get no token they did not have keep theirs to themselves.  *)
LEMMA OwnSame ==
  ASSUME OwnTokens, minted' = minted,
         \A b \in Browsers, x \in 1 .. minted : Has(b, x)' => Has(b, x)
  PROVE  OwnTokens'
<1> SUFFICES ASSUME NEW b \in Browsers, NEW b2 \in Browsers, NEW x \in 1 .. minted,
                    Has(b, x)', Has(b2, x)'
             PROVE  b = b2
  BY DEF OwnTokens
<1>1. Has(b, x) /\ Has(b2, x)
  OBVIOUS
<1> QED BY <1>1 DEF OwnTokens

(* No step gives a browser a token of another one.                          *)
LEMMA OwnNext ==
  ASSUME TypeOK, OwnTokens, [Next]_vars
  PROVE  OwnTokens'
<1>0. Nothing \notin 1 .. minted
  BY NothingIsNone
<1>1. ASSUME UNCHANGED <<minted, jar, sent, answer>>
      PROVE  OwnTokens'
  BY <1>1, OwnSame DEF Has, Answers
<1>2. CASE Tick \/ Stats
  BY <1>1, <1>2 DEF Tick, Stats, tokens, handler
<1>3. CASE Restart
  <2>1. UNCHANGED <<minted, jar>> /\ \A t \in Tabs : sent'[t] = Nothing /\ answer'[t] = Nothing
    BY <1>3 DEF Restart
  <2>2. ASSUME NEW b \in Browsers, NEW x \in 1 .. minted, Has(b, x)'
        PROVE  Has(b, x)
    BY <1>0, <2>1, <2>2 DEF Has, Answers
  <2> QED BY <2>1, <2>2, OwnSame
<1>4. ASSUME NEW t \in Tabs, Fetch(t)
      PROVE  OwnTokens'
  <2>1. UNCHANGED <<minted, jar, answer>> /\ sent' = [sent EXCEPT ![t] = jar[BrowserOf[t]]]
    BY <1>4 DEF Fetch, tokens
  <2>2. ASSUME NEW b \in Browsers, NEW x \in 1 .. minted, Has(b, x)'
        PROVE  Has(b, x)
    BY <2>1, <2>2 DEF Has, Answers, TypeOK
  <2> QED BY <2>1, <2>2, OwnSame
<1>5. ASSUME NEW t \in Tabs, Reuse(t) \/ FindExpired(t) \/ NewSession(t)
      PROVE  OwnTokens'
  <2>1. UNCHANGED <<minted, jar, sent>>
    BY <1>5 DEF Reuse, FindExpired, NewSession, Looks, tokens
  <2>2. answer'[t].token \in {sent[t], Nothing} /\ \A u \in Tabs \ {t} : answer'[u] = answer[u]
    BY <1>5, LookType DEF TypeOK
  <2>3. ASSUME NEW b \in Browsers, NEW x \in 1 .. minted, Has(b, x)'
        PROVE  Has(b, x)
    BY <1>0, <2>1, <2>2, <2>3 DEF Has, Answers
  <2> QED BY <2>1, <2>3, OwnSame
<1>6. ASSUME NEW t \in Tabs, Generate(t)
      PROVE  OwnTokens'
  <2>0. /\ minted' = minted + 1 /\ minted \in Nat
        /\ answer'[t] = [token |-> minted', id |-> answer[t].id]
        /\ \A u \in Tabs \ {t} : answer'[u] = answer[u]
    BY <1>6, GenerateType
  <2>1. /\ minted' = minted + 1 /\ minted \in Nat /\ answer'[t].token = minted'
        /\ \A u \in Tabs \ {t} : answer'[u] = answer[u]
    BY <2>0
  <2>2. UNCHANGED <<jar, sent>>
    BY <1>6 DEF Generate
  <2>3. ASSUME NEW b \in Browsers, NEW x \in 1 .. minted, Has(b, x)'
        PROVE  Has(b, x)
    <3>1. x # minted'
      BY <2>1
    <3> QED BY <2>1, <2>2, <2>3, <3>1 DEF Has, Answers
  <2>4. minted' \notin Held
    BY <2>1, SessionsAssumption DEF Held
  <2>5. ASSUME NEW b \in Browsers, NEW x, x = minted', jar'[b] = x \/ \E u \in Tabs :
                 BrowserOf[u] = b /\ (sent'[u] = x \/ (answer'[u] # Nothing /\ answer'[u].token = x))
        PROVE  b = BrowserOf[t]
    <3>1. jar[b] \in Held /\ \A u \in Tabs : sent[u] \in Held
      BY DEF TypeOK
    <3>2. \A u \in Tabs \ {t} : answer[u] # Nothing => answer[u].token \in Held
      BY DEF TypeOK
    <3> QED BY <2>1, <2>2, <2>4, <2>5, <3>1, <3>2
  <2>6. ASSUME NEW b \in Browsers, NEW b2 \in Browsers, NEW x \in 1 .. minted',
               Has(b, x)', Has(b2, x)'
        PROVE  b = b2
    <3>1. CASE x = minted'
      BY <2>5, <2>6, <3>1 DEF Has, Answers
    <3>2. CASE x # minted'
      <4>1. x \in 1 .. minted
        BY <2>1, <3>2
      <4> QED BY <2>3, <2>6, <4>1 DEF OwnTokens
    <3> QED BY <3>1, <3>2
  <2> QED BY <2>6 DEF OwnTokens
<1>7. ASSUME NEW t \in Tabs, DeleteOld(t) \/ Assign(t)
      PROVE  OwnTokens'
  BY <1>1, <1>7 DEF DeleteOld, Assign, tokens
<1>8. ASSUME NEW t \in Tabs, Receive(t) \/ LoseAnswer(t)
      PROVE  OwnTokens'
  <2>1. /\ minted' = minted /\ answer[t] # Nothing
        /\ sent' = [sent EXCEPT ![t] = Nothing] /\ answer' = [answer EXCEPT ![t] = Nothing]
    BY <1>8, OverType
  <2>2. \A b \in Browsers : jar'[b] = jar[b] \/ (b = BrowserOf[t] /\ jar'[b] = answer[t].token)
    BY <1>8 DEF Receive, LoseAnswer, Answered, TypeOK
  <2>3. ASSUME NEW b \in Browsers, NEW x \in 1 .. minted, Has(b, x)'
        PROVE  Has(b, x)
    <3>1. CASE jar'[b] = x
      BY <2>1, <2>2, <3>1 DEF Has, Answers
    <3>2. CASE jar'[b] # x
      <4>1. PICK u \in Tabs : BrowserOf[u] = b /\ (sent'[u] = x \/ Answers(u, x)')
        BY <2>3, <3>2 DEF Has
      <4>2. u # t
        BY <1>0, <2>1, <4>1 DEF Answers, TypeOK
      <4>3. sent'[u] = sent[u] /\ answer'[u] = answer[u]
        BY <2>1, <4>2
      <4> QED BY <4>1, <4>3 DEF Has, Answers
    <3> QED BY <3>1, <3>2
  <2> QED BY <2>1, <2>3, OwnSame
<1>9. ASSUME NEW b \in Browsers, Connect(b) \/ Disconnect(b) \/ Play(b)
      PROVE  OwnTokens'
  BY <1>1, <1>9 DEF Connect, Disconnect, Play, tokens, handler
<1>10. CASE UNCHANGED vars
  BY <1>1, <1>10 DEF vars, tokens, handler
<1> QED BY <1>2, <1>3, <1>4, <1>5, <1>6, <1>7, <1>8, <1>9, <1>10 DEF Next, Serve

(* A fresh token stays in the table and with the answer it was made for.    *)
LEMMA FreshNext ==
  ASSUME TypeOK, FreshOK, [Next]_vars
  PROVE  FreshOK'
<1>0. Nothing \notin 1 .. minted
  BY NothingIsNone
<1>1. ASSUME UNCHANGED <<minted, records, jar, sent, answer>>
      PROVE  FreshOK'
  BY <1>1 DEF FreshOK, Fresh, Answers
<1>2. CASE Tick \/ Stats
  BY <1>1, <1>2 DEF Tick, Stats, tokens, handler
<1>3. CASE Restart
  BY <1>3 DEF Restart, FreshOK, Fresh
<1>4. ASSUME NEW t \in Tabs, Fetch(t)
      PROVE  FreshOK'
  <2>1. /\ UNCHANGED <<minted, records, jar, answer>> /\ answer[t] = Nothing
        /\ sent' = [sent EXCEPT ![t] = jar[BrowserOf[t]]] /\ BrowserOf[t] \in Browsers
    BY <1>4, SessionsAssumption DEF Fetch, tokens, TypeOK
  <2>2. sent'[t] = jar[BrowserOf[t]] /\ \A u \in Tabs \ {t} : sent'[u] = sent[u]
    BY <2>1 DEF TypeOK
  <2>3. ASSUME NEW u \in Tabs, Fresh(u)'
        PROVE  u # t /\ Fresh(u)
    BY <2>1, <2>2, <2>3 DEF Fresh
  <2> QED BY <2>1, <2>2, <2>3 DEF FreshOK, Fresh, Answers
<1>5. ASSUME NEW t \in Tabs, Reuse(t) \/ FindExpired(t) \/ NewSession(t)
      PROVE  FreshOK'
  <2>1. UNCHANGED <<minted, records, jar, sent>>
    BY <1>5 DEF Reuse, FindExpired, NewSession, Looks, tokens
  <2>2. answer'[t].token \in {sent[t], Nothing} /\ \A u \in Tabs \ {t} : answer'[u] = answer[u]
    BY <1>5, LookType DEF TypeOK
  <2>3. ASSUME NEW u \in Tabs, Fresh(u)'
        PROVE  u # t /\ Fresh(u) /\ answer'[u] = answer[u]
    BY <1>0, <2>1, <2>2, <2>3 DEF Fresh
  <2>4. ASSUME NEW u \in Tabs, Fresh(u)', NEW v \in Tabs \ {u}
        PROVE  ~Answers(v, answer[u].token)'
    <3>1. Fresh(u) /\ answer'[u] = answer[u]
      BY <2>3, <2>4
    <3>2. answer[u].token \in 1 .. minted /\ sent[v] # answer[u].token
      BY <3>1 DEF Fresh, FreshOK
    <3>3. CASE v = t
      BY <1>0, <2>2, <3>1, <3>2, <3>3 DEF Answers
    <3>4. CASE v # t
      BY <2>2, <2>4, <3>1, <3>4 DEF FreshOK, Answers
    <3> QED BY <3>3, <3>4
  <2> QED BY <2>1, <2>3, <2>4 DEF FreshOK
<1>6. ASSUME NEW t \in Tabs, Generate(t)
      PROVE  FreshOK'
  <2>0. /\ minted' = minted + 1 /\ minted \in Nat
        /\ DOMAIN records' = DOMAIN records \cup {minted'}
        /\ \A x \in DOMAIN records : records'[x] = records[x]
        /\ records'[minted'].id = answer[t].id
        /\ answer'[t] = [token |-> minted', id |-> answer[t].id]
        /\ \A u \in Tabs \ {t} : answer'[u] = answer[u]
    BY <1>6, GenerateType
  <2>1. minted' \in 1 .. minted'
    BY <2>0
  <2>2. answer'[t].token = minted' /\ answer'[t].id = answer[t].id
    BY <2>0
  <2>3. UNCHANGED <<jar, sent>>
    BY <1>6 DEF Generate
  <2>4. minted' \notin Held
    BY <2>0, <2>1, SessionsAssumption DEF Held
  <2>5. ASSUME NEW u \in Tabs \ {t}, Fresh(u)'
        PROVE  Fresh(u) /\ answer'[u] = answer[u] /\ answer[u].token # minted'
    <3>1. answer[u] # Nothing /\ answer'[u] = answer[u] /\ answer[u].token \in 1 .. minted'
          /\ sent[u] # answer[u].token
      BY <2>0, <2>1, <2>3, <2>5 DEF Fresh
    <3>2. answer[u].token \in Held
      BY <3>1 DEF TypeOK
    <3>3. answer[u].token \in 1 .. minted
      BY <2>0, <2>1, <2>4, <3>1, <3>2
    <3> QED BY <2>0, <2>1, <3>1, <3>3 DEF Fresh
  <2>6. ASSUME NEW u \in Tabs \ {t}, Fresh(u)'
        PROVE  /\ answer'[u].token \in DOMAIN records'
               /\ records'[answer'[u].token].id = answer'[u].id
               /\ \A b \in Browsers : jar'[b] # answer'[u].token
               /\ \A v \in Tabs : sent'[v] # answer'[u].token
               /\ \A v \in Tabs \ {u} : ~(answer'[v] # Nothing
                                           /\ answer'[v].token = answer'[u].token)
    <3>1. Fresh(u) /\ answer'[u] = answer[u] /\ answer[u].token # minted'
      BY <2>5, <2>6
    <3>2. /\ answer[u].token \in DOMAIN records
          /\ records[answer[u].token].id = answer[u].id
          /\ \A b \in Browsers : jar[b] # answer[u].token
          /\ \A v \in Tabs : sent[v] # answer[u].token
          /\ \A v \in Tabs \ {u} : ~(answer[v] # Nothing /\ answer[v].token = answer[u].token)
      BY <3>1 DEF FreshOK, Answers
    <3>3. \A v \in Tabs \ {u} : ~(answer'[v] # Nothing /\ answer'[v].token = answer[u].token)
      BY <2>0, <2>1, <2>2, <3>1, <3>2
    <3> QED BY <2>0, <2>1, <2>3, <3>1, <3>2, <3>3
  <2>7. /\ answer'[t].token \in DOMAIN records'
        /\ records'[answer'[t].token].id = answer'[t].id
        /\ \A b \in Browsers : jar'[b] # answer'[t].token
        /\ \A v \in Tabs : sent'[v] # answer'[t].token
        /\ \A v \in Tabs \ {t} : ~(answer'[v] # Nothing /\ answer'[v].token = answer'[t].token)
    <3>1. (\A b \in Browsers : jar[b] \in Held) /\ \A v \in Tabs : sent[v] \in Held
      BY DEF TypeOK
    <3>2. \A v \in Tabs \ {t} : answer[v] # Nothing => answer[v].token \in Held
      BY DEF TypeOK
    <3> QED BY <2>0, <2>1, <2>2, <2>3, <2>4, <3>1, <3>2
  <2>8. ASSUME NEW u \in Tabs, Fresh(u)'
        PROVE  /\ answer'[u].token \in DOMAIN records'
               /\ records'[answer'[u].token].id = answer'[u].id
               /\ \A b \in Browsers : jar'[b] # answer'[u].token
               /\ \A v \in Tabs : sent'[v] # answer'[u].token
               /\ \A v \in Tabs \ {u} : ~Answers(v, answer[u].token)'
    <3>1. CASE u = t
      BY <2>7, <3>1 DEF Answers
    <3>2. CASE u # t
      BY <2>6, <2>8, <3>2 DEF Answers
    <3> QED BY <3>1, <3>2
  <2> QED BY <2>8 DEF FreshOK
<1>7. ASSUME NEW t \in Tabs, DeleteOld(t)
      PROVE  FreshOK'
  <2>1. UNCHANGED <<minted, jar, sent, answer>>
    BY <1>7 DEF DeleteOld
  <2>2. DOMAIN records' = DOMAIN records \ {sent[t]}
        /\ \A x \in DOMAIN records' : records'[x] = records[x]
    BY <1>7, DeleteType
  <2>3. ASSUME NEW u \in Tabs, Fresh(u)
        PROVE  answer[u].token \in DOMAIN records'
               /\ records'[answer[u].token].id = answer[u].id
    BY <2>2, <2>3 DEF FreshOK
  <2> QED BY <2>1, <2>3 DEF FreshOK, Fresh, Answers
<1>8. ASSUME NEW t \in Tabs, Assign(t)
      PROVE  FreshOK'
  BY <1>1, <1>8 DEF Assign, tokens
<1>9. ASSUME NEW t \in Tabs, Receive(t) \/ LoseAnswer(t)
      PROVE  FreshOK'
  <2>1. /\ UNCHANGED <<minted, records>> /\ answer[t] # Nothing
        /\ sent' = [sent EXCEPT ![t] = Nothing] /\ answer' = [answer EXCEPT ![t] = Nothing]
    BY <1>9, OverType
  <2>2. /\ sent'[t] = Nothing /\ answer'[t] = Nothing
        /\ \A u \in Tabs \ {t} : sent'[u] = sent[u] /\ answer'[u] = answer[u]
    BY <2>1 DEF TypeOK
  <2>3. \A b \in Browsers : jar'[b] = jar[b] \/ jar'[b] = answer[t].token
    BY <1>9 DEF Receive, LoseAnswer, Answered, TypeOK
  <2>4. ASSUME NEW u \in Tabs, Fresh(u)'
        PROVE  u # t /\ Fresh(u) /\ answer'[u] = answer[u]
    BY <2>1, <2>2, <2>4 DEF Fresh
  <2>5. ASSUME NEW u \in Tabs, Fresh(u)'
        PROVE  /\ answer[u].token \in DOMAIN records
               /\ records[answer[u].token].id = answer[u].id
               /\ \A b \in Browsers : jar'[b] # answer[u].token
               /\ \A v \in Tabs : sent'[v] # answer[u].token
               /\ \A v \in Tabs \ {u} : ~Answers(v, answer[u].token)'
    <3>1. u # t /\ Fresh(u) /\ answer'[u] = answer[u] /\ answer[u].token # Nothing
      BY <1>0, <2>4, <2>5 DEF Fresh
    <3>2. ~Answers(t, answer[u].token) /\ \A b \in Browsers : jar[b] # answer[u].token
      BY <3>1 DEF FreshOK
    <3>3. \A b \in Browsers : jar'[b] # answer[u].token
      BY <2>1, <2>3, <3>2 DEF Answers
    <3> QED BY <2>2, <3>1, <3>3 DEF FreshOK, Answers
  <2> QED BY <2>1, <2>4, <2>5 DEF FreshOK
<1>10. ASSUME NEW b \in Browsers, Connect(b) \/ Disconnect(b) \/ Play(b)
      PROVE  FreshOK'
  BY <1>1, <1>10 DEF Connect, Disconnect, Play, tokens, handler
<1>11. CASE UNCHANGED vars
  BY <1>1, <1>11 DEF vars, tokens, handler
<1> QED BY <1>2, <1>3, <1>4, <1>5, <1>6, <1>7, <1>8, <1>9, <1>10, <1>11 DEF Next, Serve

(* A step for one tab leaves the requests of the others alone.              *)
LEMMA OthersKeep ==
  ASSUME TypeOK, NEW t \in Tabs, Fetch(t) \/ Serve(t) \/ Receive(t) \/ LoseAnswer(t)
  PROVE  \A u \in Tabs \ {t} : pc'[u] = pc[u] /\ sent'[u] = sent[u] /\ answer'[u] = answer[u]
<1>1. CASE Fetch(t) \/ Receive(t) \/ LoseAnswer(t)
  BY <1>1 DEF Fetch, Receive, LoseAnswer, Over, Goto, TypeOK
<1>2. CASE Reuse(t) \/ FindExpired(t) \/ NewSession(t)
  BY <1>2 DEF Reuse, FindExpired, NewSession, Looks, Goto, TypeOK
<1>3. CASE Generate(t)
  <2>1. \A u \in Tabs \ {t} : answer'[u] = answer[u]
    BY <1>3, GenerateType
  <2> QED BY <1>3, <2>1 DEF Generate, Goto, TypeOK
<1>4. CASE DeleteOld(t) \/ Assign(t)
  BY <1>4 DEF DeleteOld, Assign, Goto, TypeOK
<1> QED BY <1>1, <1>2, <1>3, <1>4 DEF Serve

(* A tab's answer has its token as far as the handler has come.             *)
LEMMA AnswersNext ==
  ASSUME TypeOK, AnswersOK, [Next]_vars
  PROVE  AnswersOK'
<1>1. ASSUME UNCHANGED <<minted, pc, sent, answer>>
      PROVE  AnswersOK'
  BY <1>1 DEF AnswersOK, Fresh
<1>2. CASE Tick \/ Stats
  BY <1>1, <1>2 DEF Tick, Stats, tokens, handler
<1>3. CASE Restart
  BY <1>3 DEF Restart, AnswersOK
<1>4. ASSUME NEW t \in Tabs, Fetch(t) \/ Serve(t) \/ Receive(t) \/ LoseAnswer(t)
      PROVE  AnswersOK'
  <2>1. \A u \in Tabs \ {t} : pc'[u] = pc[u] /\ sent'[u] = sent[u] /\ answer'[u] = answer[u]
    BY <1>4, OthersKeep
  <2>2. minted \in Nat /\ minted' \in {minted, minted + 1}
    BY <1>4, NothingIsNone
       DEF Fetch, Serve, Receive, LoseAnswer, Reuse, FindExpired, NewSession, Looks, Generate,
           DeleteOld, Assign, tokens
  <2>3. 1 .. minted \subseteq 1 .. minted'
    BY <2>2
  <2>4. ASSUME NEW u \in Tabs \ {t}
        PROVE  /\ pc'[u] \in {"issue", "rotate"} => answer'[u].token = Nothing
               /\ pc'[u] = "delete" => Fresh(u)'
               /\ pc'[u] \in {"assign", "answered"} => answer'[u].token \in 1 .. minted'
    BY <2>1, <2>3 DEF AnswersOK, Fresh
  <2>5. /\ pc'[t] \in {"issue", "rotate"} => answer'[t].token = Nothing
        /\ pc'[t] = "delete" => Fresh(t)'
        /\ pc'[t] \in {"assign", "answered"} => answer'[t].token \in 1 .. minted'
    <3>1. CASE Fetch(t) \/ Receive(t) \/ LoseAnswer(t)
      <4>1. pc'[t] \in {"asked", "idle"}
        BY <3>1 DEF Fetch, Receive, LoseAnswer, Over, Goto, TypeOK
      <4> QED BY <4>1
    <3>2. CASE Reuse(t)
      <4>1. pc'[t] = "assign" /\ answer'[t].token = sent[t]
        BY <3>2 DEF Reuse, Goto, TypeOK
      <4> QED BY <2>3, <3>2, <4>1 DEF Reuse, TypeOK
    <3>3. CASE FindExpired(t) \/ NewSession(t)
      <4>1. pc'[t] \in {"rotate", "issue"} /\ answer'[t].token = Nothing
        BY <3>3 DEF FindExpired, NewSession, Goto, TypeOK
      <4> QED BY <4>1
    <3>4. CASE Generate(t)
      <4>1. minted' = minted + 1 /\ answer'[t] = [token |-> minted', id |-> answer[t].id]
            /\ answer'[t] # Nothing
        BY <3>4, GenerateType
      <4>2. answer'[t].token = minted'
        BY <4>1
      <4>3. minted' \in 1 .. minted' /\ minted' \notin Held
        BY <2>2, <4>1, SessionsAssumption DEF Held
      <4>4. sent'[t] \in Held
        BY <3>4 DEF Generate, TypeOK
      <4>5. pc'[t] \in {"assign", "delete"}
        BY <3>4 DEF Generate, Goto, TypeOK
      <4> QED BY <4>1, <4>2, <4>3, <4>4, <4>5 DEF Fresh
    <3>5. CASE DeleteOld(t)
      <4>1. pc[t] = "delete" /\ pc'[t] = "assign" /\ UNCHANGED <<minted, answer>>
        BY <3>5 DEF DeleteOld, Goto, TypeOK
      <4> QED BY <4>1 DEF AnswersOK, Fresh
    <3>6. CASE Assign(t)
      <4>1. pc[t] = "assign" /\ pc'[t] = "answered" /\ UNCHANGED <<minted, answer>>
        BY <3>6 DEF Assign, Goto, TypeOK, tokens
      <4> QED BY <4>1 DEF AnswersOK
    <3> QED BY <1>4, <3>1, <3>2, <3>3, <3>4, <3>5, <3>6 DEF Serve
  <2>6. ASSUME NEW u \in Tabs
        PROVE  /\ pc'[u] \in {"issue", "rotate"} => answer'[u].token = Nothing
               /\ pc'[u] = "delete" => Fresh(u)'
               /\ pc'[u] \in {"assign", "answered"} => answer'[u].token \in 1 .. minted'
    BY <2>4, <2>5
  <2> QED BY <2>6 DEF AnswersOK
<1>5. ASSUME NEW b \in Browsers, Connect(b) \/ Disconnect(b) \/ Play(b)
      PROVE  AnswersOK'
  BY <1>1, <1>5 DEF Connect, Disconnect, Play, tokens, handler
<1>6. CASE UNCHANGED vars
  BY <1>1, <1>6 DEF vars, tokens, handler
<1> QED BY <1>2, <1>3, <1>4, <1>5, <1>6 DEF Next

(* The cookie of a browser stays good, or its successor is under way.       *)
LEMMA CookieNext ==
  ASSUME TypeOK, OwnTokens, FreshOK, AnswersOK, CookieHolds, [Next]_vars
  PROVE  CookieHolds'
<1>0. Nothing \notin 1 .. minted /\ DOMAIN records \subseteq 1 .. minted
  BY NothingIsNone DEF TypeOK
<1>1. ASSUME UNCHANGED <<records, pc, sent, answer, jar, cut>>
      PROVE  CookieHolds'
  BY <1>1 DEF CookieHolds, Known, Rotating
<1>2. CASE Tick \/ Stats
  BY <1>1, <1>2 DEF Tick, Stats, tokens, handler, history
<1>3. CASE Restart
  BY <1>3 DEF Restart, CookieHolds
<1>4. ASSUME NEW t \in Tabs, Fetch(t) \/ Serve(t)
      PROVE  CookieHolds'
  <2>1. \A u \in Tabs \ {t} : pc'[u] = pc[u] /\ sent'[u] = sent[u] /\ answer'[u] = answer[u]
    BY <1>4, OthersKeep
  <2>2. UNCHANGED <<jar, cut>>
    BY <1>4 DEF Fetch, Serve, Reuse, FindExpired, NewSession, Looks, Generate, DeleteOld, Assign,
               history
  <2>3. Rotating(t) => pc'[t] = "answered" /\ sent'[t] = sent[t] /\ answer'[t] = answer[t]
    <3>1. CASE Assign(t)
      BY <3>1 DEF Assign, Goto, TypeOK
    <3>2. CASE ~Assign(t)
      <4>1. pc[t] \in {"idle", "asked", "issue", "rotate", "delete"}
        BY <1>4, <3>2 DEF Fetch, Serve, Reuse, FindExpired, NewSession, Looks, Generate, DeleteOld
      <4> QED BY <4>1 DEF Rotating
    <3> QED BY <3>1, <3>2
  <2>4. \A u \in Tabs : Rotating(u) => Rotating(u)' /\ sent'[u] = sent[u]
    BY <2>1, <2>3 DEF Rotating
  <2>5. SUFFICES ASSUME NEW b \in Browsers, jar[b] # Nothing, jar[b] \notin DOMAIN records', cut[b] = {}
                 PROVE  \E u \in Tabs : BrowserOf[u] = b /\ sent'[u] = jar[b] /\ Rotating(u)'
    BY <2>2 DEF CookieHolds, Known
  <2>6. CASE jar[b] \notin DOMAIN records
    <3>1. PICK u \in Tabs : BrowserOf[u] = b /\ sent[u] = jar[b] /\ Rotating(u)
      BY <2>5, <2>6 DEF CookieHolds, Known
    <3> QED BY <2>4, <3>1
  <2>7. CASE jar[b] \in DOMAIN records
    <3>1. DeleteOld(t)
      <4>1. CASE Generate(t)
        BY <2>5, <2>7, <4>1, GenerateType
      <4>2. CASE ~Generate(t) /\ ~DeleteOld(t)
        <5>1. records' = records
          BY <1>4, <4>2 DEF Fetch, Serve, Reuse, FindExpired, NewSession, Looks, Assign, tokens
        <5> QED BY <2>5, <2>7, <5>1
      <4> QED BY <4>1, <4>2
    <3>2. jar[b] = sent[t] /\ jar[b] \in 1 .. minted
      BY <1>0, <2>5, <2>7, <3>1, DeleteType
    <3>3. BrowserOf[t] = b
      <4>1. Has(b, jar[b]) /\ Has(BrowserOf[t], jar[b]) /\ BrowserOf[t] \in Browsers
        BY <3>2, SessionsAssumption DEF Has
      <4> QED BY <3>2, <4>1 DEF OwnTokens
    <3>4. Rotating(t)' /\ sent'[t] = sent[t]
      <4>1. pc[t] = "delete" /\ pc'[t] = "assign" /\ UNCHANGED <<sent, answer>>
        BY <3>1 DEF DeleteOld, Goto, TypeOK
      <4>2. Fresh(t)
        BY <4>1 DEF AnswersOK
      <4> QED BY <4>1, <4>2 DEF Fresh, Rotating
    <3> QED BY <3>2, <3>3, <3>4
  <2> QED BY <2>6, <2>7
<1>5. ASSUME NEW t \in Tabs, Receive(t) \/ LoseAnswer(t)
      PROVE  CookieHolds'
  <2>1. \A u \in Tabs \ {t} : pc'[u] = pc[u] /\ sent'[u] = sent[u] /\ answer'[u] = answer[u]
    BY <1>5, OthersKeep
  <2>2. \A u \in Tabs \ {t} : Rotating(u) => Rotating(u)' /\ sent'[u] = sent[u]
    BY <2>1 DEF Rotating
  <2>3. records' = records /\ pc[t] = "answered" /\ answer[t] # Nothing /\ BrowserOf[t] \in Browsers
    BY <1>5, OverType, SessionsAssumption
  <2>4. ASSUME NEW b \in Browsers \ {BrowserOf[t]}
        PROVE  jar'[b] = jar[b] /\ cut'[b] = cut[b]
    BY <1>5 DEF Receive, LoseAnswer, TypeOK
  <2>5. ASSUME NEW b \in Browsers \ {BrowserOf[t]}, jar'[b] # Nothing, jar'[b] \notin DOMAIN records',
               cut'[b] = {}
        PROVE  \E u \in Tabs : BrowserOf[u] = b /\ sent'[u] = jar'[b] /\ Rotating(u)'
    <3>1. jar'[b] = jar[b] /\ cut[b] = {}
      BY <2>4, <2>5
    <3>2. PICK u \in Tabs : BrowserOf[u] = b /\ sent[u] = jar[b] /\ Rotating(u)
      BY <2>3, <2>5, <3>1 DEF CookieHolds, Known
    <3> QED BY <2>2, <2>5, <3>1, <3>2
  <2>6. ASSUME NEW b, b = BrowserOf[t], jar'[b] # Nothing, jar'[b] \notin DOMAIN records', cut'[b] = {}
        PROVE  \E u \in Tabs : BrowserOf[u] = b /\ sent'[u] = jar'[b] /\ Rotating(u)'
    <3>1. Receive(t)
      <4>1. ASSUME LoseAnswer(t) PROVE FALSE
        <5>1. cut' = [cut EXCEPT ![b] = cut[b] \cup {"lost"}]
          BY <2>6, <4>1 DEF LoseAnswer
        <5>2. b \in DOMAIN cut
          BY <2>3, <2>6 DEF TypeOK
        <5>3. cut'[b] = cut[b] \cup {"lost"}
          BY <5>1, <5>2
        <5> QED BY <2>6, <5>3
      <4> QED BY <1>5, <4>1
    <3>2. jar'[b] = answer[t].token
          /\ cut'[b] = IF answer[t].token # sent[t] THEN {}
                       ELSE IF jar[b] # sent[t] THEN {"overtaken"} ELSE cut[b]
      BY <2>3, <2>6, <3>1 DEF Receive, Answered, TypeOK
    <3>3. answer[t].token = sent[t]
      <4>1. answer[t].token \in 1 .. minted
        BY <2>3 DEF AnswersOK
      <4> QED BY <2>3, <2>6, <3>2, <4>1 DEF Fresh, FreshOK
    <3>4. jar[b] = sent[t] /\ cut[b] = {}
      BY <2>6, <3>2, <3>3
    <3>5. PICK u \in Tabs : BrowserOf[u] = b /\ sent[u] = jar[b] /\ Rotating(u)
      BY <2>3, <2>6, <3>2, <3>3, <3>4 DEF CookieHolds, Known
    <3>6. u # t
      BY <3>3, <3>5 DEF Rotating
    <3> QED BY <2>2, <3>2, <3>3, <3>4, <3>5, <3>6
  <2> QED BY <2>5, <2>6 DEF CookieHolds, Known
<1>6. ASSUME NEW b \in Browsers, Connect(b) \/ Disconnect(b) \/ Play(b)
      PROVE  CookieHolds'
  BY <1>1, <1>6 DEF Connect, Disconnect, Play, tokens, handler, history
<1>7. CASE UNCHANGED vars
  BY <1>1, <1>7 DEF vars, tokens, handler, history
<1> QED BY <1>2, <1>3, <1>4, <1>5, <1>6, <1>7 DEF Next

(* Every step keeps the cookie, its record and the answers on the session   *)
(* of the browser.                                                         *)
LEMMA IdentityNext ==
  ASSUME TypeOK, OwnTokens, FreshOK, AnswersOK, CookieHolds, IdentityOK, TypeOK', [Next]_vars
  PROVE  IdentityOK'
<1>0. Nothing \notin 1 .. minted /\ DOMAIN records \subseteq 1 .. minted
      /\ BrowserOf \in [Tabs -> Browsers]
  BY NothingIsNone, SessionsAssumption DEF TypeOK
<1>1. ASSUME UNCHANGED <<records, pc, sent, answer, jar, cut, identity>>
      PROVE  IdentityOK'
  BY <1>1 DEF IdentityOK, Crossed, Rotating
<1>2. CASE Tick \/ Stats
  BY <1>1, <1>2 DEF Tick, Stats, tokens, handler, history
<1>3. CASE Restart
  <2>1. UNCHANGED <<jar, identity>> /\ DOMAIN records' = {}
        /\ \A t \in Tabs : answer'[t] = Nothing
    BY <1>3, RestartType DEF Restart
  <2> QED BY <2>1 DEF IdentityOK
<1>4. ASSUME NEW t \in Tabs, Fetch(t) \/ Serve(t)
      PROVE  IdentityOK'
  <2>1. \A u \in Tabs \ {t} : pc'[u] = pc[u] /\ sent'[u] = sent[u] /\ answer'[u] = answer[u]
    BY <1>4, OthersKeep
  <2>2. UNCHANGED <<jar, cut, identity>>
    BY <1>4 DEF Fetch, Serve, Reuse, FindExpired, NewSession, Looks, Generate, DeleteOld, Assign,
               history
  <2>3. Rotating(t) => pc'[t] = "answered" /\ sent'[t] = sent[t] /\ answer'[t] = answer[t]
    <3>1. CASE Assign(t)
      BY <3>1 DEF Assign, Goto, TypeOK
    <3>2. CASE ~Assign(t)
      <4>1. pc[t] \in {"idle", "asked", "issue", "rotate", "delete"}
        BY <1>4, <3>2 DEF Fetch, Serve, Reuse, FindExpired, NewSession, Looks, Generate, DeleteOld
      <4> QED BY <4>1 DEF Rotating
    <3> QED BY <3>1, <3>2
  <2>4. \A u \in Tabs : Rotating(u) => Rotating(u)' /\ sent'[u] = sent[u]
    BY <2>1, <2>3 DEF Rotating
  <2>5. \A x \in DOMAIN records' : x \in 1 .. minted => x \in DOMAIN records
                                                       /\ records'[x] = records[x]
    <3>1. CASE Generate(t)
      <4>1. /\ minted' = minted + 1 /\ minted \in Nat
            /\ DOMAIN records' = DOMAIN records \cup {minted'}
            /\ \A x \in DOMAIN records : records'[x] = records[x]
        BY <3>1, GenerateType
      <4>2. minted' \notin 1 .. minted
        BY <4>1
      <4> QED BY <4>1, <4>2
    <3>2. CASE DeleteOld(t)
      BY <3>2, DeleteType
    <3>3. CASE ~Generate(t) /\ ~DeleteOld(t)
      <4>1. records' = records
        BY <1>4, <3>3 DEF Fetch, Serve, Reuse, FindExpired, NewSession, Looks, Assign, tokens
      <4> QED BY <1>0, <4>1
    <3> QED BY <3>1, <3>2, <3>3
  <2>6. ASSUME NEW b \in Browsers, cut'[b] = {}, jar'[b] \in DOMAIN records'
        PROVE  records'[jar'[b]].id = identity'[b]
    <3>1. jar[b] \in 1 .. minted
      <4>1. DOMAIN records' \subseteq Nat /\ Nothing \notin Nat
        BY SessionsAssumption DEF TypeOK
      <4> QED BY <2>2, <2>6, <4>1 DEF TypeOK, Held
    <3> QED BY <2>2, <2>5, <2>6, <3>1 DEF IdentityOK
  <2>7. ASSUME NEW u \in Tabs \ {t}, answer'[u] # Nothing, sent'[u] # Nothing,
               jar'[BrowserOf[u]] = sent'[u], cut'[BrowserOf[u]] = {}
        PROVE  \/ answer'[u].id = identity'[BrowserOf[u]]
               \/ answer'[u].token # sent'[u] /\ Crossed(u)'
    <3>1. \/ answer[u].id = identity[BrowserOf[u]]
          \/ answer[u].token # sent[u] /\ Crossed(u)
      BY <2>1, <2>2, <2>7 DEF IdentityOK
    <3>2. Crossed(u) => Crossed(u)'
      BY <2>1, <2>4 DEF Crossed
    <3> QED BY <2>1, <2>2, <3>1, <3>2
  <2>8. ASSUME answer'[t] # Nothing, sent'[t] # Nothing,
               jar'[BrowserOf[t]] = sent'[t], cut'[BrowserOf[t]] = {}
        PROVE  \/ answer'[t].id = identity'[BrowserOf[t]]
               \/ answer'[t].token # sent'[t] /\ Crossed(t)'
    <3>1. BrowserOf[t] \in Browsers
      BY <1>0
    <3>2. ASSUME Crossed(t), sent'[t] = sent[t]
          PROVE  Crossed(t)'
      BY <2>4, <3>2 DEF Crossed
    <3>3. CASE Fetch(t)
      BY <2>8, <3>3 DEF Fetch, TypeOK
    <3>4. CASE Reuse(t) \/ FindExpired(t)
      <4>1. sent[t] \in DOMAIN records /\ answer'[t].id = records[sent[t]].id /\ sent' = sent
        BY <3>4 DEF Reuse, FindExpired, Looks, OldId, TypeOK
      <4> QED BY <2>2, <2>8, <3>1, <4>1 DEF IdentityOK
    <3>5. CASE NewSession(t)
      <4>1. /\ pc[t] = "asked" /\ sent[t] \notin DOMAIN records /\ sent' = sent
            /\ answer'[t].token = Nothing
        BY <3>5 DEF NewSession, Looks, TypeOK
      <4>2. PICK u \in Tabs : sent[u] = sent[t] /\ Rotating(u)
        BY <2>2, <2>8, <3>1, <4>1 DEF CookieHolds, Known
      <4>3. u # t
        BY <4>1, <4>2 DEF Rotating
      <4> QED BY <2>8, <3>2, <4>1, <4>2, <4>3 DEF Crossed
    <3>6. CASE Generate(t) \/ DeleteOld(t) \/ Assign(t)
      <4>1. sent' = sent /\ answer[t] # Nothing
        BY <3>6 DEF Generate, DeleteOld, Assign, TypeOK
      <4>2. answer'[t].id = answer[t].id
        <5>1. CASE Generate(t)
          <6>1. answer'[t] = [token |-> minted', id |-> answer[t].id]
            BY <5>1, GenerateType
          <6> QED BY <6>1
        <5>2. CASE DeleteOld(t) \/ Assign(t)
          BY <5>2 DEF DeleteOld, Assign
        <5> QED BY <3>6, <5>1, <5>2
      <4>3. answer[t].token # sent[t] => answer'[t].token # sent'[t]
        <5>1. CASE Generate(t)
          <6>1. answer'[t] = [token |-> minted', id |-> answer[t].id]
                /\ minted' = minted + 1 /\ minted \in Nat
            BY <5>1, GenerateType
          <6>2. answer'[t].token = minted' /\ minted' \notin Held
            BY <6>1, SessionsAssumption DEF Held
          <6> QED BY <4>1, <6>2 DEF TypeOK
        <5>2. CASE DeleteOld(t) \/ Assign(t)
          BY <4>1, <5>2 DEF DeleteOld, Assign
        <5> QED BY <3>6, <5>1, <5>2
      <4>4. \/ answer[t].id = identity[BrowserOf[t]]
            \/ answer[t].token # sent[t] /\ Crossed(t)
        BY <2>2, <2>8, <4>1 DEF IdentityOK
      <4>5. Crossed(t) => Crossed(t)'
        BY <3>2, <4>1
      <4> QED BY <2>2, <4>2, <4>3, <4>4, <4>5
    <3> QED BY <1>4, <3>3, <3>4, <3>5, <3>6 DEF Serve
  <2>9. ASSUME NEW u \in Tabs, answer'[u] # Nothing, sent'[u] # Nothing,
               jar'[BrowserOf[u]] = sent'[u], cut'[BrowserOf[u]] = {}
        PROVE  \/ answer'[u].id = identity'[BrowserOf[u]]
               \/ answer'[u].token # sent'[u] /\ Crossed(u)'
    <3>1. CASE u = t
      BY <2>8, <2>9, <3>1
    <3>2. CASE u # t
      BY <2>7, <2>9, <3>2
    <3> QED BY <3>1, <3>2
  <2>10. \A b \in Browsers : identity'[b] # Nothing => jar'[b] # Nothing
    BY <2>2 DEF IdentityOK
  <2> QED BY <2>6, <2>9, <2>10 DEF IdentityOK
<1>5. ASSUME NEW t \in Tabs, Receive(t) \/ LoseAnswer(t)
      PROVE  IdentityOK'
  <2>1. /\ \A u \in Tabs \ {t} : pc'[u] = pc[u] /\ sent'[u] = sent[u] /\ answer'[u] = answer[u]
        /\ answer'[t] = Nothing /\ records' = records /\ answer[t] # Nothing /\ pc[t] = "answered"
        /\ BrowserOf[t] \in Browsers
    BY <1>0, <1>5, OthersKeep, OverType DEF TypeOK
  <2>2. \A u \in Tabs \ {t} : Rotating(u) => Rotating(u)' /\ sent'[u] = sent[u]
    BY <2>1 DEF Rotating
  <2>3. \A b \in Browsers \ {BrowserOf[t]} :
          jar'[b] = jar[b] /\ cut'[b] = cut[b] /\ identity'[b] = identity[b]
    BY <1>5 DEF Receive, LoseAnswer, TypeOK
  <2>4. LoseAnswer(t) => cut'[BrowserOf[t]] # {} /\ UNCHANGED <<jar, identity>>
    <3>1. ASSUME LoseAnswer(t) PROVE cut'[BrowserOf[t]] # {} /\ UNCHANGED <<jar, identity>>
      <4>1. cut' = [cut EXCEPT ![BrowserOf[t]] = cut[BrowserOf[t]] \cup {"lost"}]
            /\ UNCHANGED <<jar, identity>>
        BY <3>1 DEF LoseAnswer
      <4>2. BrowserOf[t] \in DOMAIN cut
        BY <2>1 DEF TypeOK
      <4>3. cut'[BrowserOf[t]] = cut[BrowserOf[t]] \cup {"lost"}
        BY <4>1, <4>2
      <4> QED BY <4>1, <4>3
    <3> QED BY <3>1
  <2>5. Receive(t) =>
          /\ jar'[BrowserOf[t]] = answer[t].token /\ identity'[BrowserOf[t]] = answer[t].id
          /\ cut'[BrowserOf[t]] = IF answer[t].token # sent[t] THEN {}
                                  ELSE IF jar[BrowserOf[t]] # sent[t] THEN {"overtaken"}
                                  ELSE cut[BrowserOf[t]]
    BY <2>1 DEF Receive, Answered, TypeOK
  <2>6. answer[t].token \in 1 .. minted /\ answer[t].token # Nothing
    BY <1>0, <2>1 DEF AnswersOK
  <2>7. ASSUME Receive(t), answer[t].token = sent[t], cut'[BrowserOf[t]] = {}
        PROVE  /\ jar'[BrowserOf[t]] = jar[BrowserOf[t]] /\ jar[BrowserOf[t]] = sent[t]
               /\ cut[BrowserOf[t]] = {} /\ identity'[BrowserOf[t]] = identity[BrowserOf[t]]
    <3>1. jar[BrowserOf[t]] = sent[t] /\ cut[BrowserOf[t]] = {}
      BY <2>5, <2>7
    <3>2. answer[t].id = identity[BrowserOf[t]]
      BY <2>1, <2>6, <2>7, <3>1 DEF IdentityOK
    <3> QED BY <2>5, <2>7, <3>1, <3>2
  <2>8. ASSUME NEW b \in Browsers, identity'[b] # Nothing
        PROVE  jar'[b] # Nothing
    <3>1. CASE b # BrowserOf[t]
      BY <2>3, <2>8, <3>1 DEF IdentityOK
    <3>2. CASE b = BrowserOf[t]
      BY <1>5, <2>4, <2>5, <2>6, <2>8, <3>2 DEF IdentityOK
    <3> QED BY <3>1, <3>2
  <2>9. ASSUME NEW b \in Browsers, cut'[b] = {}, jar'[b] \in DOMAIN records
        PROVE  records[jar'[b]].id = identity'[b]
    <3>1. CASE b # BrowserOf[t]
      BY <2>3, <2>9, <3>1 DEF IdentityOK
    <3>2. CASE b = BrowserOf[t]
      <4>1. Receive(t)
        BY <1>5, <2>4, <2>9, <3>2
      <4>2. CASE answer[t].token = sent[t]
        BY <2>7, <2>9, <3>2, <4>1, <4>2 DEF IdentityOK
      <4>3. CASE answer[t].token # sent[t]
        <5>1. Fresh(t)
          BY <2>1, <2>6, <4>3 DEF Fresh
        <5> QED BY <2>5, <3>2, <4>1, <5>1 DEF FreshOK
      <4> QED BY <4>2, <4>3
    <3> QED BY <3>1, <3>2
  <2>10. ASSUME NEW u \in Tabs, answer'[u] # Nothing, sent'[u] # Nothing,
                jar'[BrowserOf[u]] = sent'[u], cut'[BrowserOf[u]] = {}
         PROVE  \/ answer'[u].id = identity'[BrowserOf[u]]
                \/ answer'[u].token # sent'[u] /\ Crossed(u)'
    <3>1. /\ u # t /\ sent'[u] = sent[u] /\ answer'[u] = answer[u] /\ BrowserOf[u] \in Browsers
      BY <1>0, <2>1, <2>10
    <3>2. ASSUME NEW v \in Tabs \ {u}, sent[v] = sent[u], Rotating(v), v # t
          PROVE  Crossed(u)'
      BY <2>2, <3>1, <3>2 DEF Crossed
    <3>3. CASE BrowserOf[u] # BrowserOf[t]
      <4>1. \/ answer[u].id = identity[BrowserOf[u]]
            \/ answer[u].token # sent[u] /\ Crossed(u)
        BY <2>3, <2>10, <3>1, <3>3 DEF IdentityOK
      <4>2. ASSUME Crossed(u) PROVE Crossed(u)'
        <5>1. PICK v \in Tabs \ {u} : sent[v] = sent[u] /\ Rotating(v)
          BY <4>2 DEF Crossed
        <5>2. sent[u] \in 1 .. minted
          BY <2>10, <3>1 DEF TypeOK, Held
        <5>3. v # t
          <6>1. Has(BrowserOf[u], sent[u]) /\ Has(BrowserOf[v], sent[u])
            BY <5>1 DEF Has
          <6>2. BrowserOf[v] \in Browsers
            BY <1>0
          <6> QED BY <3>1, <3>3, <5>2, <6>1, <6>2 DEF OwnTokens
        <5> QED BY <3>2, <5>1, <5>3
      <4> QED BY <2>3, <3>1, <3>3, <4>1, <4>2
    <3>4. CASE BrowserOf[u] = BrowserOf[t]
      <4>1. Receive(t)
        BY <1>5, <2>4, <2>10, <3>4
      <4>2. answer[t].token = sent[t]
        <5>1. answer[t].token # sent[t] => Fresh(t)
          BY <2>1, <2>6 DEF Fresh
        <5>2. jar'[BrowserOf[u]] = answer[t].token
          BY <2>5, <3>4, <4>1
        <5> QED BY <2>10, <3>1, <5>1, <5>2 DEF FreshOK
      <4>3. /\ jar[BrowserOf[u]] = sent[u] /\ cut[BrowserOf[u]] = {}
            /\ identity'[BrowserOf[u]] = identity[BrowserOf[u]]
        BY <2>7, <2>10, <3>1, <3>4, <4>1, <4>2
      <4>4. \/ answer[u].id = identity[BrowserOf[u]]
            \/ answer[u].token # sent[u] /\ Crossed(u)
        BY <2>10, <3>1, <4>3 DEF IdentityOK
      <4>5. ASSUME Crossed(u) PROVE Crossed(u)'
        <5>1. PICK v \in Tabs \ {u} : sent[v] = sent[u] /\ Rotating(v)
          BY <4>5 DEF Crossed
        <5>2. v # t
          BY <4>2, <5>1 DEF Rotating
        <5> QED BY <3>2, <5>1, <5>2
      <4> QED BY <3>1, <4>3, <4>4, <4>5
    <3> QED BY <3>3, <3>4
  <2> QED BY <2>1, <2>8, <2>9, <2>10 DEF IdentityOK
<1>6. ASSUME NEW b \in Browsers, Connect(b) \/ Disconnect(b) \/ Play(b)
      PROVE  IdentityOK'
  BY <1>1, <1>6 DEF Connect, Disconnect, Play, tokens, handler, history
<1>7. CASE UNCHANGED vars
  BY <1>1, <1>7 DEF vars, tokens, handler, history
<1> QED BY <1>2, <1>3, <1>4, <1>5, <1>6, <1>7 DEF Next

-----------------------------------------------------------------------------
(* What a browser keeps                                                      *)

(* The invariant holds at the beginning: nobody has a token yet.            *)
LEMMA InvInit == Init => SessionsInv
<1> SUFFICES ASSUME Init PROVE SessionsInv
  OBVIOUS
<1>1. TypeOK
  BY InitType
<1>2. Nothing \notin 1 .. minted /\ DOMAIN records = {} /\ DOMAIN played = {}
      /\ DOMAIN lastPlayed = {}
  BY <1>1, NothingIsNone DEF Init, None
<1>3. /\ \A t \in Tabs : answer[t] = Nothing /\ sent[t] = Nothing /\ pc[t] = "idle"
      /\ \A b \in Browsers : jar[b] = Nothing /\ identity[b] = Nothing
  BY DEF Init
<1>4. OwnTokens
  BY <1>2, <1>3 DEF OwnTokens, Has, Answers
<1>5. FreshOK /\ AnswersOK /\ CookieHolds /\ IdentityOK /\ PlayedOK
  BY <1>2, <1>3 DEF FreshOK, Fresh, AnswersOK, CookieHolds, IdentityOK, PlayedOK
<1> QED BY <1>1, <1>4, <1>5 DEF SessionsInv

(* Every step keeps the invariant.                                          *)
LEMMA InvNext == SessionsInv /\ [Next]_vars => SessionsInv'
<1> SUFFICES ASSUME SessionsInv, [Next]_vars PROVE SessionsInv'
  OBVIOUS
<1>1. TypeOK /\ OwnTokens /\ FreshOK /\ AnswersOK /\ CookieHolds /\ IdentityOK /\ PlayedOK
  BY DEF SessionsInv
<1>2. TypeOK' /\ PlayedOK'
  BY <1>1, TypeNext, PlayedNext
<1>3. OwnTokens' /\ FreshOK' /\ AnswersOK' /\ CookieHolds'
  BY <1>1, OwnNext, FreshNext, AnswersNext, CookieNext
<1>4. IdentityOK'
  BY <1>1, <1>2, IdentityNext
<1> QED BY <1>2, <1>3, <1>4 DEF SessionsInv

(* The tokens of the browsers, of the handlers and of the TokenManager, and *)
(* the two memories of the teamPicker, always agree.                        *)
THEOREM SessionsConsistent == Spec => []SessionsInv
<1>1. Init => SessionsInv
  BY InvInit
<1>2. SessionsInv /\ [Next]_vars => SessionsInv'
  BY InvNext
<1> QED BY <1>1, <1>2, PTL DEF Spec

(* Tokens in use were minted, session ids were given, and only a session    *)
(* with a colour plays.                                                     *)
THEOREM TypeOKCorrect == Spec => []TypeOK
<1>1. SessionsInv => TypeOK
  BY DEF SessionsInv
<1> QED BY <1>1, SessionsConsistent, PTL

(* The cookie of a browser opens the websocket through the three steps of   *)
(* a rotation, but for a lost or late answer and a restart.                 *)
THEOREM CookieHoldsCorrect == Spec => []CookieHolds
<1>1. SessionsInv => CookieHolds
  BY DEF SessionsInv
<1> QED BY <1>1, SessionsConsistent, PTL

(* The count that balances the teams misses nobody who placed within the    *)
(* window, however often the teamPicker pruned.                             *)
THEOREM LiveExactCorrect == Spec => []LiveExact
<1>1. SessionsInv => LiveExact
  BY PlayedLive DEF SessionsInv
<1> QED BY <1>1, SessionsConsistent, PTL

(* A session keeps its colour while the server runs.                        *)
THEOREM ColourSticksCorrect == Spec => ColourSticks
<1>1. ASSUME SessionsInv, [Next]_vars
      PROVE  [\A s \in DOMAIN by \cap DOMAIN by' : by'[s] = by[s]]_vars
  <2>1. TypeOK /\ PlayedOK
    BY <1>1 DEF SessionsInv
  <2>2. \A s \in DOMAIN by \cap DOMAIN by' : by'[s] = by[s]
    <3>1. CASE UNCHANGED by
      BY <3>1
    <3>2. CASE Restart
      BY <2>1, <3>2, RestartType
    <3>3. ASSUME NEW t \in Tabs, Assign(t)
          PROVE  \A s \in DOMAIN by : by'[s] = by[s]
      <4>1. PICK s, time : s = answer[t].id /\ time = now[t]
        OBVIOUS
      <4>2. s \in SessionIds /\ time \in 0 .. clock /\ assign(s, time)
        BY <2>1, <3>3, <4>1 DEF Assign, TypeOK
      <4> QED BY <2>1, <4>2, AssignType
    <3>4. ASSUME NEW b \in Browsers, Connect(b)
          PROVE  \A s \in DOMAIN by : by'[s] = by[s]
      <4>1. PICK s : s = records[jar[b]].id
        OBVIOUS
      <4>2. s \in SessionIds /\ assign(s, clock) /\ clock \in 0 .. clock
        BY <2>1, <3>4, <4>1, NothingIsNone DEF Connect, TypeOK
      <4> QED BY <2>1, <4>2, AssignType
    <3>5. CASE ~UNCHANGED by
      <4>1. Restart \/ (\E t \in Tabs : Assign(t)) \/ (\E b \in Browsers : Connect(b))
        BY <1>1, <3>5
           DEF Next, vars, teams, Tick, Stats, Fetch, Serve, Receive, LoseAnswer, Reuse,
               FindExpired, NewSession, Looks, Generate, DeleteOld, Disconnect, Play
      <4> QED BY <3>2, <3>3, <3>4, <4>1
    <3> QED BY <3>1, <3>5
  <2> QED BY <2>2
<1> QED BY <1>1, SessionsConsistent, PTL DEF Spec, ColourSticks

(* A browser keeps its session through reuse and rotation of its token, but *)
(* for lost and late answers, a restart and answers to its tabs that cross. *)
THEOREM KeepsSessionCorrect == Spec => KeepsSession
<1>1. ASSUME SessionsInv, [Next]_vars,
             NEW t \in Tabs, pc[t] = "answered", identity[BrowserOf[t]] # Nothing,
             identity'[BrowserOf[t]] # identity[BrowserOf[t]],
             cut[BrowserOf[t]] = {}, jar[BrowserOf[t]] = sent[t], pc'[t] # "answered"
      PROVE  Crossed(t)
  <2>1. TypeOK /\ IdentityOK /\ AnswersOK /\ BrowserOf[t] \in Browsers
    BY <1>1, SessionsAssumption DEF SessionsInv
  <2>2. PICK u \in Tabs : Receive(u)
    <3>1. identity' # identity
      BY <1>1
    <3> QED BY <1>1, <3>1
       DEF Next, vars, history, Tick, Stats, Restart, Fetch, Serve, LoseAnswer, Reuse,
           FindExpired, NewSession, Looks, Generate, DeleteOld, Assign, Connect, Disconnect, Play
  <2>3. u = t
    BY <1>1, <2>1, <2>2, OthersKeep
  <2>4. identity'[BrowserOf[t]] = answer[t].id
    BY <2>1, <2>2, <2>3 DEF Receive, TypeOK
  <2>5. answer[t] # Nothing /\ sent[t] # Nothing
    BY <1>1, <2>1 DEF IdentityOK, TypeOK
  <2> QED BY <1>1, <2>1, <2>4, <2>5 DEF IdentityOK
<1>2. ASSUME SessionsInv, [Next]_vars
      PROVE  [\A t \in Tabs :
                LET b == BrowserOf[t]
                    crossed == \/ jar[b] # sent[t]
                               \/ \E u \in Tabs \ {t} : sent[u] = sent[t] /\ Rotating(u) IN
                pc[t] = "answered" /\ identity[b] # Nothing /\ identity'[b] # identity[b]
                  => cut[b] # {} \/ crossed \/ pc'[t] = "answered"]_vars
  BY <1>1, <1>2 DEF Crossed
<1> QED BY <1>2, SessionsConsistent, PTL DEF Spec, KeepsSession
=============================================================================
