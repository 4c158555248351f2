-------------------- MODULE WifiConnectionManagerProofs --------------------
(* The invariants of WifiConnectionManager, for any number of satellites,   *)
(* keys, tokens, requests and timers and any budget of outside events.      *)
(*                                                                          *)
(* None of them is inductive alone.  What they need of each other: a        *)
(* connection that does not exist is as if new, an approval is only awaited *)
(* for one that exists, a satellite without a connection that still pairs   *)
(* was forgotten and has no key, and a grant carries a key or a token       *)
(* according to the request it answers.                                     *)
EXTENDS WifiConnectionManager, TLAPS

(* A grant's value is a key or a token according to its request.            *)
Granted(r) ==
  r.ans = "ok" =>
    /\ r.kind \in PairKinds \cup {"poll"} => r.val \in Keys
    /\ r.kind \in {"put", "rekey"} => r.val \in Tokens
GrantsCarry == \A r \in net : Granted(r)

(* One satellite's connection: absent is new, and a client goes with the    *)
(* two steady states.                                                       *)
ConnSound(c) ==
  /\ ~c.here => c = NoConn
  /\ (c.state \in Steady) <=> (c.token # 0)

(* One satellite's record beside its connection.  rev: an approval request  *)
(* awaits it.  gone: forgotten, and not asked for since.                    *)
BookSound(c, b, rev, gone) ==
  /\ rev => c.here
  /\ gone => ~c.here /\ b.key = 0 /\ ~b.remembered
  /\ b.pairing /\ ~c.here => b.key = 0

(* What one satellite has in flight, for the state and flags that wait.     *)
Awaits(s, ks, own, N) == \E r \in N : r.sat = s /\ r.kind \in ks /\ (own => r.mine)
LinkKinds == {"pairPin", "pairConnect", "put"}
Backed(s, c, b, N) ==
  /\ c.state = "Linking" => Awaits(s, LinkKinds, TRUE, N)
  /\ b.pairing => Awaits(s, PairKinds, c.here, N)
  /\ b.reconciling => Awaits(s, {"get"}, FALSE, N)

SatSound(s) ==
  /\ ConnSound(conn[s])
  /\ BookSound(conn[s], book[s], reverse = s, forgotten[s])
  /\ Backed(s, conn[s], book[s], net)

WifiInv == TypeOK /\ GrantsCarry /\ \A s \in Sats : SatSound(s)

----------------------------------------------------------------------------
(* Requests.                                                                *)

(* A fresh request is a request, its connection's own, and unanswered.      *)
LEMMA RequestMade ==
  ASSUME NEW s \in Sats, NEW k \in Kinds, NEW intent \in {"user", "silent"},
         NEW key \in Keys \cup {0}, CanSend(s, k)
  PROVE  /\ Request(s, k, intent, key) \in Requests
         /\ Request(s, k, intent, key).sat = s /\ Request(s, k, intent, key).kind = k
         /\ Request(s, k, intent, key).mine
         /\ Granted(Request(s, k, intent, key))
  <1>1. PICK i \in Ids : i = CHOOSE j \in FreeIds(s, k) : TRUE
    BY DEF CanSend, FreeIds
  <1>2. "out" \in Answers /\ 0 \in Keys \cup Tokens \cup {0}
    BY DEF Answers
  <1>3. Request(s, k, intent, key) =
          [id |-> i, kind |-> k, sat |-> s, intent |-> intent, key |-> key,
           mine |-> TRUE, live |-> TRUE, ans |-> "out", val |-> 0]
    BY <1>1 DEF Request
  <1>4. Request(s, k, intent, key) \in Requests
    BY <1>2, <1>3 DEF Requests
  <1>. QED
    BY <1>3, <1>4 DEF Granted

(* What is in flight after a handler stems from what it left, and a request *)
(* of a connection that exists stays that connection's.                     *)
LEMMA FlightFacts ==
  ASSUME NEW N \in SUBSET Requests, conn' \in [Sats -> Conns], InFlight(N)
  PROVE  /\ net' \in SUBSET Requests
         /\ \A q \in N : \E p \in net' :
              /\ p.sat = q.sat /\ p.kind = q.kind
              /\ q.mine /\ conn'[q.sat].here => p.mine
         /\ \A p \in net' : \E q \in N : p.kind = q.kind /\ p.ans = q.ans /\ p.val = q.val
  <1>. DEFINE M(q) == q.mine /\ conn'[q.sat].here
              L(q) == q.live /\ (q.kind # "rekey" \/ conn'[q.sat].token # 0)
              After(q) == [q EXCEPT !.mine = M(q), !.live = L(q)]
  <1>1. net' = {After(q) : q \in N}
    BY Zenon DEF InFlight
  <1>2. ASSUME NEW q \in N
        PROVE  /\ After(q) \in Requests /\ After(q).sat = q.sat /\ After(q).kind = q.kind
               /\ After(q).mine = M(q) /\ After(q).ans = q.ans /\ After(q).val = q.val
    <2>1. PICK m \in BOOLEAN, l \in BOOLEAN : m = M(q) /\ l = L(q)
      BY Zenon
    <2>2. PICK p : p = After(q) /\ p = [q EXCEPT !.mine = m, !.live = l]
      BY <2>1, Zenon
    <2>. HIDE DEF M, L, After
    <2>3. q \in Requests
      OBVIOUS
    <2>4. /\ p \in Requests /\ p.sat = q.sat /\ p.kind = q.kind /\ p.mine = m
          /\ p.ans = q.ans /\ p.val = q.val
      BY <2>2, <2>3, Zenon DEF Requests
    <2>. QED
      BY <2>1, <2>2, <2>4, Zenon
  <1>. HIDE DEF After
  <1>3. net' \in SUBSET Requests
    BY <1>1, <1>2
  <1>4. ASSUME NEW q \in N
        PROVE  \E p \in net' : /\ p.sat = q.sat /\ p.kind = q.kind
                               /\ q.mine /\ conn'[q.sat].here => p.mine
    <2>1. After(q) \in net'
      BY <1>1
    <2>. QED
      BY <2>1, <1>2, Zenon
  <1>5. ASSUME NEW p \in net'
        PROVE  \E q \in N : p.kind = q.kind /\ p.ans = q.ans /\ p.val = q.val
    <2>1. PICK q \in N : p = After(q)
      BY <1>1
    <2>. QED
      BY <2>1, <1>2
  <1>. QED
    BY <1>3, <1>4, <1>5

(* What backs a satellite's state and flags still does in any set that has  *)
(* the same requests of that satellite, a DELETE or an unpair apart.        *)
LEMMA BackedCarried ==
  ASSUME NEW s, NEW c, NEW b, NEW M, NEW N, Backed(s, c, b, M),
         \A q \in M : q.sat = s /\ q.kind \notin {"delete", "unpair"} =>
           \E p \in N : p.sat = q.sat /\ p.kind = q.kind /\ (q.mine => p.mine)
  PROVE  Backed(s, c, b, N)
  <1>1. ASSUME NEW ks, NEW own, Awaits(s, ks, own, M), ks \cap {"delete", "unpair"} = {}
        PROVE  Awaits(s, ks, own, N)
    BY <1>1 DEF Awaits
  <1>2. /\ LinkKinds \cap {"delete", "unpair"} = {} /\ PairKinds \cap {"delete", "unpair"} = {}
        /\ {"get"} \cap {"delete", "unpair"} = {}
    BY DEF LinkKinds, PairKinds
  <1>. QED
    BY <1>1, <1>2, Zenon DEF Backed

----------------------------------------------------------------------------
(* The end of a handler.                                                    *)
TypeRest ==
  /\ scanning \in BOOLEAN /\ asleep \in BOOLEAN
  /\ srv \in [Sats -> [key : Keys \cup {0}, token : Tokens \cup {0}]]
  /\ notice \in [Sats -> {"none", "unpaired", "replaced", "gone"}]
  /\ left \in [Events -> Nat]

(* The invariant holds after a handler whose satellites are each sound with *)
(* what it leaves in flight.                                                *)
LEMMA HandlerSound ==
  ASSUME conn' \in [Sats -> Conns], book' \in [Sats -> Books],
         reverse' \in Sats \cup {"none"}, forgotten' \in [Sats -> BOOLEAN], TypeRest',
         NEW N \in SUBSET Requests, InFlight(N), \A q \in N : Granted(q),
         \A s \in Sats : /\ ConnSound(conn'[s])
                         /\ BookSound(conn'[s], book'[s], reverse' = s, forgotten'[s])
                         /\ Backed(s, conn'[s], book'[s], N)
  PROVE  WifiInv'
  <1>1. /\ net' \in SUBSET Requests
        /\ \A q \in N : \E p \in net' :
              /\ p.sat = q.sat /\ p.kind = q.kind
              /\ q.mine /\ conn'[q.sat].here => p.mine
        /\ \A p \in net' : \E q \in N : p.kind = q.kind /\ p.ans = q.ans /\ p.val = q.val
    BY FlightFacts
  <1>2. TypeOK'
    BY <1>1, Zenon DEF TypeOK, TypeRest
  <1>3. GrantsCarry'
    BY <1>1 DEF GrantsCarry, Granted
  <1>4. ASSUME NEW s \in Sats PROVE SatSound(s)'
    <2>1. conn'[s].state = "Linking" => conn'[s].here
      BY DEF ConnSound, NoConn
    <2>2. ASSUME NEW ks, Awaits(s, ks, TRUE, N), conn'[s].here
          PROVE  Awaits(s, ks, TRUE, net')
      BY <1>1, <2>2 DEF Awaits
    <2>3. ASSUME NEW ks, Awaits(s, ks, FALSE, N) PROVE Awaits(s, ks, FALSE, net')
      BY <1>1, <2>3 DEF Awaits
    <2>4. Backed(s, conn'[s], book'[s], net')
      <3>1. conn'[s].state = "Linking" => Awaits(s, LinkKinds, TRUE, net')
        BY <2>1, <2>2, Zenon DEF Backed
      <3>2. book'[s].pairing => Awaits(s, PairKinds, conn'[s].here, net')
        BY <1>1 DEF Backed, Awaits
      <3>3. book'[s].reconciling => Awaits(s, {"get"}, FALSE, net')
        BY <2>3, Zenon DEF Backed
      <3>. QED
        BY <3>1, <3>2, <3>3, Zenon DEF Backed
    <2>. QED
      BY <2>4, Zenon DEF SatSound
  <1>. QED
    BY <1>2, <1>3, <1>4 DEF WifiInv

(* A handler that changes one satellite's connection and record.            *)
LEMMA OneSatellite ==
  ASSUME WifiInv, NEW s \in Sats, NEW c \in Conns, NEW b \in Books,
         conn' = [conn EXCEPT ![s] = c], book' = [book EXCEPT ![s] = b],
         reverse' \in Sats \cup {"none"}, \A t \in Sats \ {s} : reverse' = t => reverse = t,
         forgotten' \in [Sats -> BOOLEAN],
         \A t \in Sats \ {s} : forgotten'[t] = forgotten[t],
         TypeRest', NEW N \in SUBSET Requests, InFlight(N), \A q \in N : Granted(q),
         \A q \in net : q.sat # s =>
           \E p \in N : p.sat = q.sat /\ p.kind = q.kind /\ (q.mine => p.mine),
         ConnSound(c), BookSound(c, b, reverse' = s, forgotten'[s]), Backed(s, c, b, N)
  PROVE  WifiInv'
  <1>1. conn \in [Sats -> Conns] /\ book \in [Sats -> Books]
    BY DEF WifiInv, TypeOK
  <1>2. /\ conn' \in [Sats -> Conns] /\ book' \in [Sats -> Books]
        /\ conn'[s] = c /\ book'[s] = b
        /\ \A t \in Sats \ {s} : conn'[t] = conn[t] /\ book'[t] = book[t]
    BY <1>1
  <1>3. ASSUME NEW t \in Sats \ {s}
        PROVE  /\ ConnSound(conn'[t])
               /\ BookSound(conn'[t], book'[t], reverse' = t, forgotten'[t])
               /\ Backed(t, conn'[t], book'[t], N)
    <2>1. SatSound(t)
      BY DEF WifiInv
    <2>2. conn'[t] = conn[t] /\ book'[t] = book[t] /\ forgotten'[t] = forgotten[t]
      BY <1>2
    <2>3. Backed(t, conn[t], book[t], N)
      BY <2>1, BackedCarried DEF SatSound
    <2>4. BookSound(conn[t], book[t], reverse' = t, forgotten[t])
      BY <2>1 DEF SatSound, BookSound
    <2>. QED
      BY <2>1, <2>2, <2>3, <2>4, Zenon DEF SatSound
  <1>4. ASSUME NEW t \in Sats
        PROVE  /\ ConnSound(conn'[t])
               /\ BookSound(conn'[t], book'[t], reverse' = t, forgotten'[t])
               /\ Backed(t, conn'[t], book'[t], N)
    <2>1. CASE t = s
      BY <2>1, <1>2, Zenon
    <2>2. CASE t # s
      BY <2>2, <1>3
    <2>. QED
      BY <2>1, <2>2
  <1>. QED
    BY <1>2, <1>4, HandlerSound

(* What the invariant says of one satellite.                                *)
LEMMA SatFacts ==
  ASSUME WifiInv, NEW s \in Sats
  PROVE  /\ conn[s] \in Conns /\ book[s] \in Books
         /\ ConnSound(conn[s]) /\ Backed(s, conn[s], book[s], net)
         /\ BookSound(conn[s], book[s], reverse = s, forgotten[s])
         /\ conn[s].state # "Idle" => conn[s].here
         /\ conn[s].token # 0 => conn[s].here
  <1>1. conn[s] \in Conns /\ book[s] \in Books /\ SatSound(s)
    BY DEF WifiInv, TypeOK
  <1>2. conn[s].state # "Idle" => conn[s].here
    BY <1>1 DEF SatSound, ConnSound, NoConn
  <1>3. conn[s].token # 0 => conn[s].here
    BY <1>1 DEF SatSound, ConnSound, NoConn
  <1>. QED
    BY <1>1, <1>2, <1>3, Zenon DEF SatSound

(* A request just sent backs what awaits its kind.                          *)
LEMMA BackedBySent ==
  ASSUME NEW s, NEW N, NEW p \in N, p.sat = s, p.mine, NEW ks, p.kind \in ks
  PROVE  Awaits(s, ks, TRUE, N)
  BY DEF Awaits

----------------------------------------------------------------------------
(* WifiConnection's transitions keep a connection sound.                    *)

(* markDisconnected and markStale end with no client.                       *)
LEMMA Ended ==
  ASSUME NEW c \in Conns, NEW d, d = MarkDisconnected(c) \/ d = MarkStale(c)
  PROVE  /\ d \in Conns /\ d.here = c.here /\ d.state \in {"Idle", "Stale"} /\ d.token = 0
         /\ c.here => ConnSound(d)
  <1>1. /\ Teardown(c) \in Conns /\ Teardown(c).here = c.here /\ Teardown(c).token = 0
    BY Zenon DEF Teardown, Conns
  <1>2. /\ d \in Conns /\ d.here = c.here /\ d.state \in {"Idle", "Stale"} /\ d.token = 0
    BY <1>1 DEF MarkDisconnected, MarkStale, Conns, States
  <1>. QED
    BY <1>2 DEF ConnSound, Steady

(* ensureConnection makes the object and leaves its session.                *)
LEMMA Ensured ==
  ASSUME NEW c \in Conns, ConnSound(c)
  PROVE  /\ EnsureConnection(c) \in Conns /\ EnsureConnection(c).here
         /\ EnsureConnection(c).state = c.state /\ EnsureConnection(c).token = c.token
         /\ ConnSound(EnsureConnection(c))
  <1>1. /\ EnsureConnection(c) \in Conns /\ EnsureConnection(c).here
        /\ EnsureConnection(c).state = c.state /\ EnsureConnection(c).token = c.token
    BY Zenon DEF EnsureConnection, Conns
  <1>. QED
    BY <1>1 DEF ConnSound

(* markConnecting leaves a live session and otherwise links without a       *)
(* client, a faltering one's torn down.                                     *)
LEMMA Dialling ==
  ASSUME NEW c \in Conns, ConnSound(c), c.here
  PROVE  /\ MarkConnecting(c) \in Conns /\ MarkConnecting(c).here
         /\ MarkConnecting(c).state = IF c.state = "Live" THEN "Live" ELSE "Linking"
         /\ ConnSound(MarkConnecting(c))
  <1>1. CASE c.state = "Live"
    BY <1>1 DEF MarkConnecting
  <1>2. CASE c.state = "Faltering"
    <2>1. MarkConnecting(c) = [Teardown(c) EXCEPT !.state = "Linking"]
      BY <1>2 DEF MarkConnecting
    <2>2. /\ Teardown(c) \in Conns /\ Teardown(c).here /\ Teardown(c).token = 0
      BY Zenon DEF Teardown, Conns
    <2>3. /\ MarkConnecting(c) \in Conns /\ MarkConnecting(c).here
          /\ MarkConnecting(c).state = "Linking" /\ MarkConnecting(c).token = 0
      BY <2>1, <2>2 DEF Conns, States
    <2>. QED
      BY <2>3, <1>2 DEF ConnSound, Steady
  <1>3. CASE c.state \notin Steady
    <2>1. MarkConnecting(c) = [c EXCEPT !.state = "Linking"] /\ c.token = 0
      BY <1>3 DEF MarkConnecting, Steady, ConnSound
    <2>2. /\ MarkConnecting(c) \in Conns /\ MarkConnecting(c).here
          /\ MarkConnecting(c).state = "Linking" /\ MarkConnecting(c).token = 0
      BY <2>1 DEF Conns, States
    <2>. QED
      BY <2>2, <1>3 DEF ConnSound, Steady
  <1>. QED
    BY <1>1, <1>2, <1>3 DEF Steady

(* markConnected turns a link into a live session with a client.            *)
LEMMA Connected ==
  ASSUME NEW c \in Conns, c.here, ConnSound(c), c.state = "Linking", NEW t \in Tokens
  PROVE  /\ MarkConnected(c, t) \in Conns /\ MarkConnected(c, t).here
         /\ MarkConnected(c, t).state = "Live" /\ ConnSound(MarkConnected(c, t))
  <1>1. MarkConnected(c, t) = [c EXCEPT !.state = "Live", !.token = t, !.rekeyed = FALSE]
    BY DEF MarkConnected
  <1>2. /\ MarkConnected(c, t) \in Conns /\ MarkConnected(c, t).here
        /\ MarkConnected(c, t).state = "Live" /\ MarkConnected(c, t).token = t
    BY <1>1, Zenon DEF Conns, States
  <1>. QED
    BY <1>2, TokenAssumption DEF ConnSound, Steady

----------------------------------------------------------------------------
(* ClearNotices and Spend keep the types.                                   *)
LEMMA RestTypes ==
  ASSUME TypeOK, scanning' \in BOOLEAN, asleep' \in BOOLEAN, srv' = srv,
         notice' = notice \/ ClearNotices, left' = left \/ \E e \in Events : Spend(e)
  PROVE  TypeRest'
  <1>1. /\ notice \in [Sats -> {"none", "unpaired", "replaced", "gone"}]
        /\ left \in [Events -> Nat]
        /\ srv \in [Sats -> [key : Keys \cup {0}, token : Tokens \cup {0}]]
    BY DEF TypeOK
  <1>2. notice' \in [Sats -> {"none", "unpaired", "replaced", "gone"}]
    BY <1>1 DEF ClearNotices
  <1>3. left' \in [Events -> Nat]
    BY <1>1 DEF Spend
  <1>. QED
    BY <1>1, <1>2, <1>3, Zenon DEF TypeRest

(* OneSatellite for a handler that takes R off and adds X.                  *)
LEMMA OneStep ==
  ASSUME WifiInv, NEW s \in Sats, NEW c \in Conns, NEW b \in Books,
         conn' = [conn EXCEPT ![s] = c], book' = [book EXCEPT ![s] = b],
         reverse' \in Sats \cup {"none"}, \A t \in Sats \ {s} : reverse' = t => reverse = t,
         forgotten' \in [Sats -> BOOLEAN],
         \A t \in Sats \ {s} : forgotten'[t] = forgotten[t],
         TypeRest', NEW R, \A q \in R : q.sat = s,
         NEW X, \A x \in X : x \in Requests /\ Granted(x),
         NEW N, N = (net \ R) \cup X, InFlight(N),
         ConnSound(c), BookSound(c, b, reverse' = s, forgotten'[s]), Backed(s, c, b, N)
  PROVE  WifiInv'
  <1>1. /\ N \in SUBSET Requests /\ \A q \in N : Granted(q)
        /\ \A q \in net : q.sat # s =>
             \E p \in N : p.sat = q.sat /\ p.kind = q.kind /\ (q.mine => p.mine)
    <2>1. net \in SUBSET Requests /\ \A q \in net : Granted(q)
      BY DEF WifiInv, TypeOK, GrantsCarry
    <2>. QED
      BY <2>1, Zenon
  <1>. QED
    BY <1>1, OneSatellite, Zenon

(* The same, by what the handler does to each wait of the satellite: a wait *)
(* that goes on loses no request that backs it, a new one comes with its    *)
(* request.                                                                 *)
LEMMA StepSound ==
  ASSUME WifiInv, NEW s \in Sats, NEW c \in Conns, NEW b \in Books,
         conn' = [conn EXCEPT ![s] = c], book' = [book EXCEPT ![s] = b],
         reverse' \in {reverse, "none"}, forgotten' \in [Sats -> BOOLEAN],
         \A t \in Sats \ {s} : forgotten'[t] = forgotten[t],
         TypeRest', NEW R, \A q \in R : q.sat = s,
         NEW X, \A x \in X : x \in Requests /\ Granted(x),
         InFlight((net \ R) \cup X),
         ConnSound(c), BookSound(c, b, reverse' = s, forgotten'[s]),
         c.state = "Linking" =>
           \/ conn[s].state = "Linking" /\ \A q \in R : q.kind \notin LinkKinds \/ ~q.mine
           \/ \E x \in X : x.sat = s /\ x.kind \in LinkKinds /\ x.mine,
         b.pairing =>
           \/ /\ book[s].pairing /\ (c.here => conn[s].here)
              /\ \A q \in R : q.kind \notin PairKinds \/ (conn[s].here /\ ~q.mine)
           \/ \E x \in X : x.sat = s /\ x.kind \in PairKinds /\ x.mine,
         b.reconciling =>
           \/ book[s].reconciling /\ \A q \in R : q.kind # "get"
           \/ \E x \in X : x.sat = s /\ x.kind = "get"
  PROVE  WifiInv'
  <1>1. PICK N : N = (net \ R) \cup X
    BY SMTT(30)
  <1>2. Backed(s, conn[s], book[s], net)
    BY SatFacts
  <1>3. c.state = "Linking" => Awaits(s, LinkKinds, TRUE, N)
    BY <1>1, <1>2 DEF Backed, Awaits
  <1>4. b.pairing => Awaits(s, PairKinds, c.here, N)
    BY <1>1, <1>2 DEF Backed, Awaits
  <1>5. b.reconciling => Awaits(s, {"get"}, FALSE, N)
    BY <1>1, <1>2 DEF Backed, Awaits
  <1>6. Backed(s, c, b, N)
    BY <1>3, <1>4, <1>5, Zenon DEF Backed
  <1>7. /\ reverse' \in Sats \cup {"none"}
        /\ \A t \in Sats \ {s} : reverse' = t => reverse = t
    BY NoneAssumption DEF WifiInv, TypeOK
  <1>. QED
    BY <1>1, <1>6, <1>7, OneStep, Zenon

(* What the invariant says of one request.                                  *)
LEMMA NetFacts ==
  ASSUME WifiInv, NEW r \in net
  PROVE  /\ r \in Requests /\ Granted(r) /\ r.sat \in Sats /\ r.mine \in BOOLEAN
         /\ r.kind \in Kinds /\ r.intent \in {"user", "silent"} /\ r.key \in Keys \cup {0}
         /\ r.val \in Keys \cup Tokens \cup {0}
         /\ net \in SUBSET Requests /\ \A q \in net : Granted(q)
  BY DEF WifiInv, TypeOK, GrantsCarry, Requests

(* A step of the network or the satellite, or one that only ends an         *)
(* approval: the connections and records stay, and so does every request    *)
(* but a DELETE or an unpair, whatever its answer.                          *)
LEMMA NetworkStep ==
  ASSUME WifiInv, UNCHANGED <<conn, book, forgotten>>, reverse' \in {reverse, "none"},
         TypeRest', net' \in SUBSET Requests, \A p \in net' : Granted(p),
         \A q \in net : q.kind \notin {"delete", "unpair"} =>
           \E p \in net' : p.sat = q.sat /\ p.kind = q.kind /\ (q.mine => p.mine)
  PROVE  WifiInv'
  <1>1. TypeOK'
    <2>1. TypeOK /\ reverse' \in Sats \cup {"none"}
      BY DEF WifiInv, TypeOK
    <2>. QED
      BY <2>1, Zenon DEF TypeOK, TypeRest
  <1>2. GrantsCarry'
    BY DEF GrantsCarry
  <1>3. ASSUME NEW s \in Sats PROVE SatSound(s)'
    <2>1. /\ ConnSound(conn[s]) /\ Backed(s, conn[s], book[s], net)
          /\ BookSound(conn[s], book[s], reverse = s, forgotten[s])
      BY SatFacts
    <2>2. Backed(s, conn[s], book[s], net')
      BY <2>1, BackedCarried
    <2>3. BookSound(conn[s], book[s], reverse' = s, forgotten[s])
      BY <2>1, NoneAssumption DEF BookSound
    <2>4. conn'[s] = conn[s] /\ book'[s] = book[s] /\ forgotten'[s] = forgotten[s]
      OBVIOUS
    <2>. QED
      BY <2>1, <2>2, <2>3, <2>4, Zenon DEF SatSound
  <1>. QED
    BY <1>1, <1>2, <1>3 DEF WifiInv

----------------------------------------------------------------------------
(* connectTo.                                                               *)

(* What connectTo writes down of one satellite.                             *)
LEMMA ConnectingFields ==
  ASSUME NEW b \in Books, NEW s, NEW S, NEW intent
  PROVE  /\ Connecting(b, s, S, intent) \in Books
         /\ Connecting(b, s, S, intent).key = b.key
         /\ Connecting(b, s, S, intent).remembered = b.remembered
         /\ Connecting(b, s, S, intent).reconciling = b.reconciling
         /\ Connecting(b, s, S, intent).armed = b.armed
         /\ Connecting(b, s, S, intent).pairing =>
              b.pairing \/ (s \in Dialled(S, intent) /\ b.key = 0)
         /\ Connecting(b, s, S, intent).held => b.held /\ ~(intent = "user" /\ s \in S)
  <1>1. PICK h \in BOOLEAN, p \in BOOLEAN :
          /\ h = (b.held /\ ~(intent = "user" /\ s \in S))
          /\ p = (b.pairing \/ (s \in Dialled(S, intent) /\ b.key = 0))
    BY Zenon
  <1>2. Connecting(b, s, S, intent) = [b EXCEPT !.held = h, !.pairing = p]
    BY <1>1, Zenon DEF Connecting
  <1>3. /\ Connecting(b, s, S, intent) \in Books
        /\ Connecting(b, s, S, intent).key = b.key
        /\ Connecting(b, s, S, intent).remembered = b.remembered
        /\ Connecting(b, s, S, intent).reconciling = b.reconciling
        /\ Connecting(b, s, S, intent).armed = b.armed
        /\ Connecting(b, s, S, intent).pairing = p /\ Connecting(b, s, S, intent).held = h
    BY <1>2, Zenon DEF Books
  <1>. QED
    BY <1>1, <1>3, Zenon

(* connectTo for a set of satellites: each that is dialled is Linking with  *)
(* its own request out, or pairs first if it has no key.                    *)
LEMMA ConnectToSound ==
  ASSUME WifiInv, NEW S \in SUBSET Sats, NEW intent \in {"user", "silent"},
         ConnectTo(S, intent), TypeRest', reverse' = reverse,
         forgotten' \in [Sats -> BOOLEAN],
         \A s \in Sats : forgotten'[s] => forgotten[s] /\ s \notin Dialled(S, intent),
         book' \in [Sats -> Books],
         \A s \in Sats :
           /\ book'[s].key = book[s].key /\ book'[s].remembered = book[s].remembered
           /\ book'[s].reconciling = book[s].reconciling
           /\ book'[s].pairing => book[s].pairing \/ (s \in Dialled(S, intent) /\ book[s].key = 0)
  PROVE  WifiInv'
  <1>. DEFINE D == Dialled(S, intent)
              Sent(s) == Request(s, FirstKind(s), intent, book[s].key)
              N == net \cup {Sent(s) : s \in D}
              c(s) == MarkConnecting(EnsureConnection(conn[s]))
  <1>1. /\ \A s \in D : CanSend(s, FirstKind(s))
        /\ conn' = [s \in Sats |-> IF s \in D THEN c(s) ELSE conn[s]]
        /\ InFlight(N)
    BY DEF ConnectTo
  <1>2. ASSUME NEW s \in D
        PROVE  /\ s \in Sats /\ conn[s].state # "Live"
               /\ c(s) \in Conns /\ c(s).here /\ c(s).state = "Linking" /\ ConnSound(c(s))
    <2>1. s \in Sats /\ conn[s].state # "Live"
      BY DEF Dialled, Reached
    <2>2. conn[s] \in Conns /\ ConnSound(conn[s])
      BY <2>1, SatFacts
    <2>. QED
      BY <2>1, <2>2, Ensured, Dialling
  <1>3. ASSUME NEW s \in D
        PROVE  /\ Sent(s) \in Requests /\ Sent(s).sat = s /\ Sent(s).mine /\ Granted(Sent(s))
               /\ Sent(s).kind = FirstKind(s) /\ Sent(s) \in N
    <2>1. book[s].key \in Keys \cup {0}
      BY <1>2, SatFacts DEF Books
    <2>2. FirstKind(s) \in Kinds
      BY DEF FirstKind, Kinds, PairKinds
    <2>. QED
      BY <1>1, <1>2, <2>1, <2>2, RequestMade
  <1>. HIDE DEF c, Sent
  <1>4. N \in SUBSET Requests /\ \A q \in N : Granted(q)
    BY <1>3 DEF WifiInv, TypeOK, GrantsCarry
  <1>5. conn' \in [Sats -> Conns] /\ \A s \in Sats : conn'[s] = IF s \in D THEN c(s) ELSE conn[s]
    BY <1>1, <1>2, SatFacts
  <1>. HIDE DEF D
  <1>6. ASSUME NEW s \in Sats
        PROVE  /\ ConnSound(conn'[s])
               /\ BookSound(conn'[s], book'[s], reverse' = s, forgotten'[s])
               /\ Backed(s, conn'[s], book'[s], N)
    <2>1. /\ conn[s] \in Conns /\ ConnSound(conn[s]) /\ Backed(s, conn[s], book[s], net)
          /\ BookSound(conn[s], book[s], reverse = s, forgotten[s])
      BY SatFacts
    <2>2. Backed(s, conn[s], book[s], N)
      BY <2>1, BackedCarried
    <2>3. CASE s \notin D
      <3>1. conn'[s] = conn[s] /\ (book'[s].pairing => book[s].pairing)
        BY <2>3, <1>5 DEF D
      <3>2. BookSound(conn[s], book'[s], reverse' = s, forgotten'[s])
        BY <2>1, <3>1 DEF BookSound
      <3>3. Backed(s, conn[s], book'[s], N)
        BY <2>2, <3>1, Zenon DEF Backed
      <3>. QED
        BY <2>1, <3>1, <3>2, <3>3, Zenon
    <2>4. CASE s \in D
      <3>1. /\ conn'[s] = c(s) /\ c(s).here /\ c(s).state = "Linking" /\ ConnSound(c(s))
            /\ ~forgotten'[s]
        BY <2>4, <1>2, <1>5 DEF D
      <3>2. /\ Sent(s) \in N /\ Sent(s).sat = s /\ Sent(s).mine /\ Sent(s).kind = FirstKind(s)
        BY <2>4, <1>3
      <3>3. Awaits(s, LinkKinds, TRUE, N)
        BY <3>2, BackedBySent, Zenon DEF FirstKind, LinkKinds
      <3>4. ASSUME book'[s].pairing PROVE Awaits(s, PairKinds, c(s).here, N)
        <4>1. CASE book[s].key = 0
          <5>1. FirstKind(s) \in PairKinds
            BY <4>1 DEF FirstKind, PairKinds
          <5>2. Awaits(s, PairKinds, TRUE, N)
            <6>. HIDE DEF N
            <6>. QED
              BY <5>1, <3>2 DEF Awaits
          <5>. QED
            BY <5>2 DEF Awaits
        <4>2. CASE book[s].key # 0
          <5>1. book[s].pairing /\ conn[s].here
            BY <3>4, <4>2, <2>1 DEF BookSound
          <5>. QED
            BY <5>1, <2>2, <3>1 DEF Backed, Awaits
        <4>. QED
          BY <4>1, <4>2
      <3>5. Backed(s, c(s), book'[s], N)
        BY <3>3, <3>4, <2>2, Zenon DEF Backed
      <3>6. BookSound(c(s), book'[s], reverse' = s, forgotten'[s])
        BY <3>1 DEF BookSound
      <3>. QED
        BY <3>1, <3>5, <3>6, Zenon
    <2>. QED
      BY <2>3, <2>4
  <1>7. reverse' \in Sats \cup {"none"}
    BY DEF WifiInv, TypeOK
  <1>. HIDE DEF N
  <1>. QED
    BY <1>1, <1>4, <1>5, <1>6, <1>7, HandlerSound

(* The sweeps of autoReconnectAll, of a finished scan and of a resume.      *)
LEMMA SweepSound ==
  ASSUME WifiInv, AutoReconnectAll \/ ScanFinished \/ ResumeFromSleep
  PROVE  WifiInv'
  <1>1. /\ ConnectTo(AutoTargets, "silent") /\ UNCHANGED <<reverse, srv, forgotten, left>>
        /\ book' = [s \in Sats |-> Connecting(book[s], s, AutoTargets, "silent")]
    BY DEF AutoReconnectAll, ScanFinished, ResumeFromSleep
  <1>2. TypeOK /\ ClearNotices
    BY <1>1 DEF WifiInv, ConnectTo
  <1>3. scanning' \in BOOLEAN /\ asleep' \in BOOLEAN
    BY <1>2, Zenon DEF AutoReconnectAll, ScanFinished, ResumeFromSleep, TypeOK
  <1>4. TypeRest'
    BY <1>1, <1>2, <1>3, RestTypes
  <1>5. \A s \in Sats : book[s] \in Books
    BY SatFacts
  <1>6. book' \in [Sats -> Books]
    BY <1>1, <1>5, ConnectingFields
  <1>7. ASSUME NEW s \in Sats
        PROVE  /\ book'[s].key = book[s].key /\ book'[s].remembered = book[s].remembered
               /\ book'[s].reconciling = book[s].reconciling
               /\ book'[s].pairing =>
                    book[s].pairing \/ (s \in Dialled(AutoTargets, "silent") /\ book[s].key = 0)
    <2>1. book'[s] = Connecting(book[s], s, AutoTargets, "silent")
      BY <1>1
    <2>. QED
      BY <2>1, <1>5, ConnectingFields
  <1>8. AutoTargets \in SUBSET Sats
    BY DEF AutoTargets
  <1>9. ASSUME NEW s \in Sats
        PROVE  forgotten'[s] => forgotten[s] /\ s \notin Dialled(AutoTargets, "silent")
    <2>1. forgotten[s] => ~book[s].remembered
      BY SatFacts DEF BookSound
    <2>. QED
      BY <2>1, <1>1 DEF Dialled, Reached, AutoTargets
  <1>10. forgotten' \in [Sats -> BOOLEAN]
    BY <1>1, <1>2 DEF TypeOK
  <1>. QED
    BY <1>1, <1>4, <1>6, <1>7, <1>8, <1>9, <1>10, ConnectToSound

(* onRetryDue.                                                              *)
LEMMA RetryDueSound ==
  ASSUME WifiInv, NEW s \in Sats, RetryDue(s)
  PROVE  WifiInv'
  <1>. DEFINE dials == conn[s].here /\ conn[s].state \in {"Idle", "Stale"}
  <1>1. PICK S \in SUBSET Sats : S = IF dials THEN {s} ELSE {}
    BY Zenon
  <1>2. /\ ConnectTo(S, "silent") /\ UNCHANGED <<reverse, srv, asleep, left, forgotten>>
        /\ scanning' = (scanning \/ dials) /\ book[s].armed > 0
        /\ book' = [book EXCEPT ![s] = [Connecting(book[s], s, S, "silent") EXCEPT !.armed = @ - 1]]
    BY <1>1 DEF RetryDue
  <1>3. TypeOK /\ ClearNotices
    BY <1>2 DEF WifiInv, ConnectTo
  <1>4. scanning' \in BOOLEAN /\ asleep' \in BOOLEAN
    BY <1>2, <1>3, Zenon DEF TypeOK
  <1>5. TypeRest'
    BY <1>2, <1>3, <1>4, RestTypes
  <1>6. book \in [Sats -> Books] /\ book[s] \in Books
    BY <1>3 DEF TypeOK
  <1>b. PICK b : b = Connecting(book[s], s, S, "silent")
    OBVIOUS
  <1>7. /\ b \in Books /\ b.key = book[s].key /\ b.remembered = book[s].remembered
        /\ b.reconciling = book[s].reconciling /\ b.armed = book[s].armed
        /\ b.pairing => book[s].pairing \/ (s \in Dialled(S, "silent") /\ book[s].key = 0)
    BY <1>6, <1>b, ConnectingFields
  <1>8. PICK n \in 0 .. MaxTimers : n = b.armed - 1
    BY <1>2, <1>6, <1>7, TimerAssumption DEF Books
  <1>9. book' = [book EXCEPT ![s] = [b EXCEPT !.armed = n]]
    <2>1. book' = [book EXCEPT ![s] = [b EXCEPT !.armed = b.armed - 1]]
      BY <1>2, <1>b
    <2>. QED
      BY <2>1, <1>8
  <1>10. /\ [b EXCEPT !.armed = n] \in Books
         /\ [b EXCEPT !.armed = n].key = b.key
         /\ [b EXCEPT !.armed = n].remembered = b.remembered
         /\ [b EXCEPT !.armed = n].reconciling = b.reconciling
         /\ [b EXCEPT !.armed = n].pairing = b.pairing
    BY <1>7 DEF Books
  <1>11. book' \in [Sats -> Books]
    BY <1>6, <1>9, <1>10
  <1>12. ASSUME NEW t \in Sats
         PROVE  /\ book'[t].key = book[t].key /\ book'[t].remembered = book[t].remembered
                /\ book'[t].reconciling = book[t].reconciling
                /\ book'[t].pairing =>
                     book[t].pairing \/ (t \in Dialled(S, "silent") /\ book[t].key = 0)
    <2>1. CASE t = s
      BY <2>1, <1>6, <1>7, <1>9, <1>10
    <2>2. CASE t # s
      BY <2>2, <1>6, <1>9
    <2>. QED
      BY <2>1, <2>2
  <1>13. ASSUME NEW t \in Sats
         PROVE  forgotten'[t] => forgotten[t] /\ t \notin Dialled(S, "silent")
    <2>1. forgotten[t] => ~conn[t].here
      BY SatFacts DEF BookSound
    <2>. QED
      BY <2>1, <1>1, <1>2 DEF Dialled, Reached
  <1>14. forgotten' \in [Sats -> BOOLEAN]
    BY <1>2, <1>3 DEF TypeOK
  <1>. QED
    BY <1>2, <1>5, <1>11, <1>12, <1>13, <1>14, ConnectToSound

(* A user's connect, which also lifts the hold and ends the forgetting.     *)
LEMMA UserConnectSound ==
  ASSUME WifiInv, NEW s \in Sats, UserConnect(s)
  PROVE  WifiInv'
  <1>1. /\ ConnectTo({s}, "user") /\ Spend("user") /\ UNCHANGED <<scanning, reverse, srv, asleep>>
        /\ book' = [book EXCEPT ![s] = Connecting(@, s, {s}, "user")]
        /\ forgotten' = [forgotten EXCEPT ![s] = FALSE]
    BY DEF UserConnect, Asked
  <1>2. TypeOK /\ ClearNotices
    BY <1>1 DEF WifiInv, ConnectTo
  <1>3. TypeRest'
    BY <1>1, <1>2, RestTypes DEF TypeOK, Events
  <1>4. book \in [Sats -> Books] /\ forgotten \in [Sats -> BOOLEAN]
    BY <1>2 DEF TypeOK
  <1>5. PICK b : b = Connecting(book[s], s, {s}, "user")
    OBVIOUS
  <1>6. /\ b \in Books /\ b.key = book[s].key /\ b.remembered = book[s].remembered
        /\ b.reconciling = book[s].reconciling
        /\ b.pairing => book[s].pairing \/ (s \in Dialled({s}, "user") /\ book[s].key = 0)
    BY <1>4, <1>5, ConnectingFields
  <1>7. book' = [book EXCEPT ![s] = b]
    BY <1>1, <1>4, <1>5
  <1>8. book' \in [Sats -> Books]
    BY <1>4, <1>6, <1>7
  <1>9. ASSUME NEW t \in Sats
        PROVE  /\ book'[t].key = book[t].key /\ book'[t].remembered = book[t].remembered
               /\ book'[t].reconciling = book[t].reconciling
               /\ book'[t].pairing =>
                    book[t].pairing \/ (t \in Dialled({s}, "user") /\ book[t].key = 0)
    <2>1. CASE t = s
      BY <2>1, <1>4, <1>6, <1>7
    <2>2. CASE t # s
      BY <2>2, <1>4, <1>7
    <2>. QED
      BY <2>1, <2>2
  <1>10. forgotten' \in [Sats -> BOOLEAN]
    BY <1>1, <1>4, Zenon
  <1>11. ASSUME NEW t \in Sats
         PROVE  forgotten'[t] => forgotten[t] /\ t \notin Dialled({s}, "user")
    BY <1>1, <1>4 DEF Dialled, Reached
  <1>12. {s} \in SUBSET Sats
    OBVIOUS
  <1>. QED
    BY <1>12, <1>1, <1>3, <1>8, <1>9, <1>10, <1>11, ConnectToSound, Zenon

----------------------------------------------------------------------------
(* The satellite and the network.                                           *)

(* A scan started, an approval cancelled, or a slot changed.                *)
LEMMA AsideSound ==
  ASSUME WifiInv, StartDiscovery \/ CancelReversePairing \/ \E s \in Sats : SlotChanged(s)
  PROVE  WifiInv'
  <1>1. TypeOK /\ net \in SUBSET Requests /\ \A q \in net : Granted(q)
    BY DEF WifiInv, TypeOK, GrantsCarry
  <1>2. CASE StartDiscovery \/ CancelReversePairing
    <2>1. /\ UNCHANGED <<conn, book, forgotten, net, srv, notice, asleep>> /\ Spend("user")
          /\ reverse' \in {reverse, "none"}
      BY <1>2 DEF StartDiscovery, CancelReversePairing
    <2>2. scanning' \in BOOLEAN /\ asleep' \in BOOLEAN
      BY <1>1, <1>2, Zenon DEF StartDiscovery, CancelReversePairing, TypeOK
    <2>3. TypeRest'
      BY <1>1, <2>1, <2>2, RestTypes DEF Events
    <2>. QED
      BY <1>1, <2>1, <2>3, NetworkStep
  <1>3. ASSUME NEW s \in Sats, SlotChanged(s) PROVE WifiInv'
    <2>1. /\ UNCHANGED <<conn, book, forgotten, reverse, srv, notice, asleep, scanning>>
          /\ Spend("slot") /\ CanSend(s, "ctl")
          /\ net' = net \cup {Request(s, "ctl", "silent", book[s].key)}
      BY <1>3 DEF SlotChanged
    <2>2. scanning' \in BOOLEAN /\ asleep' \in BOOLEAN
      BY <1>1, <2>1 DEF TypeOK
    <2>3. TypeRest'
      BY <1>1, <2>1, <2>2, RestTypes DEF Events
    <2>4. book[s].key \in Keys \cup {0}
      BY SatFacts DEF Books
    <2>5. /\ Request(s, "ctl", "silent", book[s].key) \in Requests
          /\ Granted(Request(s, "ctl", "silent", book[s].key))
      BY <2>1, <2>4, RequestMade DEF Kinds
    <2>. QED
      BY <1>1, <2>1, <2>3, <2>5, NetworkStep
  <1>. QED
    BY <1>2, <1>3

(* The satellite ends a session, or its operator approves.                  *)
LEMMA SatelliteSound ==
  ASSUME WifiInv, NEW s \in Sats, CloseSession(s) \/ OperatorApproves(s)
  PROVE  WifiInv'
  <1>1. /\ TypeOK /\ net \in SUBSET Requests /\ \A q \in net : Granted(q)
        /\ srv \in [Sats -> [key : Keys \cup {0}, token : Tokens \cup {0}]]
        /\ notice \in [Sats -> {"none", "unpaired", "replaced", "gone"}]
        /\ left \in [Events -> Nat]
    BY DEF WifiInv, TypeOK, GrantsCarry
  <1>2. CASE CloseSession(s)
    <2>1. PICK why \in {"unpaired", "replaced", "gone"}, heard \in BOOLEAN :
            /\ srv' = [srv EXCEPT ![s] = [key |-> IF why = "unpaired" THEN 0 ELSE @.key, token |-> 0]]
            /\ notice' = [notice EXCEPT ![s] = IF heard /\ InForce(s) THEN why ELSE @]
      BY <1>2, Zenon DEF CloseSession
    <2>2. /\ UNCHANGED <<conn, book, scanning, reverse, net, asleep, forgotten>> /\ Spend("close")
      BY <1>2 DEF CloseSession
    <2>3. srv' \in [Sats -> [key : Keys \cup {0}, token : Tokens \cup {0}]]
      BY <1>1, <2>1
    <2>4. notice' \in [Sats -> {"none", "unpaired", "replaced", "gone"}]
      BY <1>1, <2>1
    <2>5. left' \in [Events -> Nat]
      BY <1>1, <2>2 DEF Spend, Events
    <2>6. TypeRest'
      BY <1>1, <2>2, <2>3, <2>4, <2>5, Zenon DEF TypeRest, TypeOK
    <2>. QED
      BY <1>1, <2>2, <2>6, NetworkStep
  <1>3. CASE OperatorApproves(s)
    <2>1. PICK q : q = Request(s, "poll", "user", 0)
      OBVIOUS
    <2>2. PICK k, a, p :
            /\ k \in Keys \cup {0} /\ a \in {"ok", "badkey"}
            /\ srv' = [srv EXCEPT ![s].key = k] /\ (a = "ok" => k \in Keys)
            /\ net' = net \cup {p}
            /\ \/ p = [q EXCEPT !.ans = a, !.val = k]
               \/ p = [q EXCEPT !.ans = a] /\ a = "badkey"
      <3>1. CASE \E k \in Keys : /\ srv' = [srv EXCEPT ![s].key = k]
                                 /\ net' = net \cup {[q EXCEPT !.ans = "ok", !.val = k]}
        <4>1. \A k \in Keys : k \in Keys \cup {0}
          OBVIOUS
        <4>. QED
          BY <3>1, <4>1, Zenon
      <3>2. CASE /\ srv' = [srv EXCEPT ![s].key = 0]
                 /\ net' = net \cup {[q EXCEPT !.ans = "badkey"]}
        <4>1. 0 \in Keys \cup {0} /\ "badkey" \in {"ok", "badkey"} /\ "badkey" # "ok"
          OBVIOUS
        <4>. QED
          BY <3>2, <4>1, Zenon
      <3>. QED
        BY <1>3, <2>1, <3>1, <3>2, Zenon DEF OperatorApproves, FreshKeys
    <2>3. /\ UNCHANGED <<conn, book, scanning, reverse, notice, asleep, forgotten>>
          /\ CanSend(s, "poll") /\ (UNCHANGED left \/ Spend("fault"))
      BY <1>3, Zenon DEF OperatorApproves
    <2>4. srv' \in [Sats -> [key : Keys \cup {0}, token : Tokens \cup {0}]]
      BY <1>1, <2>2
    <2>5. left' \in [Events -> Nat]
      BY <1>1, <2>3 DEF Spend, Events
    <2>6. TypeRest'
      BY <1>1, <2>3, <2>4, <2>5, Zenon DEF TypeRest, TypeOK
    <2>7. q \in Requests /\ q.kind = "poll"
      BY <2>1, <2>3, RequestMade DEF Kinds
    <2>8. p \in Requests /\ p.kind = "poll" /\ p.ans = a /\ (a = "ok" => p.val \in Keys)
      <3>1. a \in Answers
        BY <2>2 DEF Answers
      <3>2. CASE p = [q EXCEPT !.ans = a, !.val = k]
        BY <2>2, <2>7, <3>1, <3>2, Zenon DEF Requests
      <3>3. CASE p = [q EXCEPT !.ans = a] /\ a = "badkey"
        BY <2>7, <3>1, <3>3 DEF Requests
      <3>. QED
        BY <2>2, <3>2, <3>3
    <2>9. Granted(p)
      BY <2>8 DEF Granted
    <2>. QED
      BY <1>1, <2>2, <2>3, <2>6, <2>8, <2>9, NetworkStep
  <1>. QED
    BY <1>2, <1>3

(* A request is served or lost: one with a reader keeps its place, answered.*)
LEMMA ServedSound ==
  ASSUME WifiInv, NEW r \in net, Serve(r) \/ Lose(r)
  PROVE  WifiInv'
  <1>1. /\ TypeOK /\ net \in SUBSET Requests /\ \A q \in net : Granted(q)
        /\ srv \in [Sats -> [key : Keys \cup {0}, token : Tokens \cup {0}]]
        /\ left \in [Events -> Nat] /\ r \in Requests /\ r.sat \in Sats
    BY DEF WifiInv, TypeOK, GrantsCarry, Requests
  <1>2. UNCHANGED <<conn, book, scanning, reverse, notice, asleep, forgotten>>
    BY DEF Serve, Lose
  <1>3. left' \in [Events -> Nat]
    <2>1. UNCHANGED left \/ \E e \in Events : Spend(e)
      BY DEF Serve, ServePair, ServePut, ServeView, ServeEnd, Lose, Events
    <2>. QED
      BY <1>1, <2>1 DEF Spend
  <1>4. srv' \in [Sats -> [key : Keys \cup {0}, token : Tokens \cup {0}]]
    <2>1. \/ UNCHANGED srv
          \/ \E k \in Keys \cup {0} : srv' = [srv EXCEPT ![r.sat].key = k]
          \/ \E t \in Tokens : srv' = [srv EXCEPT ![r.sat].token = t]
          \/ srv' = [srv EXCEPT ![r.sat] = [key |-> IF r.kind = "unpair" THEN 0 ELSE @.key,
                                             token |-> 0]]
      BY DEF Serve, ServePair, ServePut, ServeView, ServeEnd, Lose, FreshKeys, FreshTokens
    <2>2. ASSUME NEW k \in Keys \cup {0}, srv' = [srv EXCEPT ![r.sat].key = k]
          PROVE  srv' \in [Sats -> [key : Keys \cup {0}, token : Tokens \cup {0}]]
      BY <1>1, <2>2
    <2>3. ASSUME NEW t \in Tokens, srv' = [srv EXCEPT ![r.sat].token = t]
          PROVE  srv' \in [Sats -> [key : Keys \cup {0}, token : Tokens \cup {0}]]
      BY <1>1, <2>3
    <2>4. CASE srv' = [srv EXCEPT ![r.sat] = [key |-> IF r.kind = "unpair" THEN 0 ELSE @.key,
                                              token |-> 0]]
      BY <1>1, <2>4
    <2>. QED
      BY <1>1, <2>1, <2>2, <2>3, <2>4, Zenon
  <1>5. TypeRest'
    BY <1>1, <1>2, <1>3, <1>4, Zenon DEF TypeRest, TypeOK
  <1>6. \/ net' = net \ {r} /\ r.kind \in {"delete", "unpair"}
        \/ \E a \in Answers, v \in Keys \cup Tokens \cup {0} :
             /\ Answer(r, a, v)
             /\ a = "ok" =>
                  /\ r.kind \in PairKinds \cup {"poll"} => v \in Keys
                  /\ r.kind \in {"put", "rekey"} => v \in Tokens
    <2>1. CASE Lose(r)
      BY <2>1 DEF Lose, Answers
    <2>2. CASE Serve(r) /\ ServePair(r)
      <3>1. FreshKeys \subseteq Keys
        BY DEF FreshKeys
      <3>. QED
        BY <2>2, <3>1 DEF ServePair, Answers, PairKinds
    <2>3. CASE Serve(r) /\ ServePut(r)
      <3>1. FreshTokens \subseteq Tokens
        BY DEF FreshTokens
      <3>. QED
        BY <2>3, <3>1 DEF ServePut, Answers, PairKinds
    <2>4. CASE Serve(r) /\ ServeView(r)
      BY <2>4 DEF ServeView, Answers, PairKinds
    <2>5. CASE Serve(r) /\ ServeEnd(r)
      BY <2>5 DEF ServeEnd
    <2>. QED
      BY <2>1, <2>2, <2>3, <2>4, <2>5 DEF Serve
  <1>7. CASE net' = net \ {r} /\ r.kind \in {"delete", "unpair"}
    BY <1>1, <1>2, <1>5, <1>7, NetworkStep, SMTT(30)
  <1>8. ASSUME NEW a \in Answers, NEW v \in Keys \cup Tokens \cup {0}, Answer(r, a, v),
               a = "ok" => /\ r.kind \in PairKinds \cup {"poll"} => v \in Keys
                           /\ r.kind \in {"put", "rekey"} => v \in Tokens
        PROVE  WifiInv'
    <2>1. PICK p : p = [r EXCEPT !.ans = a, !.val = v]
      OBVIOUS
    <2>2. /\ p \in Requests /\ p.sat = r.sat /\ p.kind = r.kind /\ p.mine = r.mine
          /\ p.ans = a /\ p.val = v
      BY <1>1, <2>1, Zenon DEF Requests
    <2>3. net' = (net \ {r}) \cup {p}
      BY <1>8, <2>1 DEF Answer
    <2>4. Granted(p)
      BY <1>8, <2>2 DEF Granted
    <2>5. net' \in SUBSET Requests /\ \A q \in net' : Granted(q)
      BY <1>1, <2>2, <2>3, <2>4
    <2>6. \A q \in net : \E x \in net' : x.sat = q.sat /\ x.kind = q.kind /\ (q.mine => x.mine)
      BY <2>2, <2>3
    <2>. QED
      BY <1>2, <1>5, <2>5, <2>6, NetworkStep
  <1>. QED
    BY <1>6, <1>7, <1>8

----------------------------------------------------------------------------
(* The user and sleep.                                                      *)

(* What releaseSession sends.                                               *)
LEMMA ReleaseFacts ==
  ASSUME WifiInv, NEW s \in Sats, CanSend(s, "delete")
  PROVE  /\ \A x \in Release(s, book[s].key) : x \in Requests /\ Granted(x)
         /\ \A x \in ReleaseOnDisconnect(s) : x \in Requests /\ Granted(x)
  <1>1. book[s].key \in Keys \cup {0}
    BY SatFacts DEF Books
  <1>2. \A x \in Release(s, book[s].key) : x \in Requests /\ Granted(x)
    BY <1>1, RequestMade DEF Release, Kinds
  <1>. QED
    BY <1>2 DEF ReleaseOnDisconnect

(* What disconnect leaves of a connection.                                  *)
LEMMA DisconnectFacts ==
  ASSUME WifiInv, NEW s \in Sats
  PROVE  /\ Disconnected(conn[s]) \in Conns /\ Disconnected(conn[s]).here = conn[s].here
         /\ Disconnected(conn[s]).state \in {"Idle", "Stale"} /\ ConnSound(Disconnected(conn[s]))
  <1>1. conn[s] \in Conns /\ ConnSound(conn[s])
    BY SatFacts
  <1>2. CASE conn[s].here
    BY <1>1, <1>2, Ended, Zenon DEF Disconnected
  <1>3. CASE ~conn[s].here
    <2>1. Disconnected(conn[s]) = conn[s] /\ conn[s] = NoConn
      BY <1>1, <1>3 DEF Disconnected, ConnSound
    <2>. QED
      BY <1>1, <2>1 DEF NoConn
  <1>. QED
    BY <1>2, <1>3

(* What disconnect leaves of a record.                                      *)
LEMMA GenerationFacts ==
  ASSUME NEW b \in Books
  PROVE  /\ NextGeneration(b) \in Books /\ NextGeneration(b).key = b.key
         /\ NextGeneration(b).remembered = b.remembered /\ NextGeneration(b).held = b.held
         /\ NextGeneration(b).pairing = b.pairing
         /\ NextGeneration(b).reconciling = b.reconciling
  <1>1. 0 \in 0 .. MaxTimers
    BY TimerAssumption
  <1>. QED
    BY <1>1 DEF NextGeneration, Books

(* A user's disconnect.                                                     *)
LEMMA DisconnectSound ==
  ASSUME WifiInv, NEW s \in Sats, DisconnectByUser(s)
  PROVE  WifiInv'
  <1>1. PICK c, b, g, X : /\ c = Disconnected(conn[s]) /\ g = NextGeneration(book[s])
                          /\ b = [g EXCEPT !.held = TRUE] /\ X = ReleaseOnDisconnect(s)
    BY Zenon
  <1>2. /\ conn' = [conn EXCEPT ![s] = c] /\ book' = [book EXCEPT ![s] = b]
        /\ InFlight(net \cup X) /\ ClearNotices /\ Spend("user") /\ CanSend(s, "delete")
        /\ UNCHANGED <<scanning, reverse, srv, asleep, forgotten>>
    BY <1>1 DEF DisconnectByUser
  <1>3. TypeOK /\ forgotten \in [Sats -> BOOLEAN]
    BY DEF WifiInv, TypeOK
  <1>4. TypeRest'
    BY <1>2, <1>3, RestTypes, Zenon DEF TypeOK, Events
  <1>5. /\ book[s] \in Books /\ BookSound(conn[s], book[s], reverse = s, forgotten[s])
    BY SatFacts
  <1>6. /\ c \in Conns /\ c.here = conn[s].here /\ c.state # "Linking" /\ ConnSound(c)
    BY <1>1, DisconnectFacts
  <1>7. /\ g \in Books /\ g.key = book[s].key /\ g.remembered = book[s].remembered
        /\ g.pairing = book[s].pairing /\ g.reconciling = book[s].reconciling
    BY <1>1, <1>5, GenerationFacts
  <1>8. /\ b \in Books /\ b.key = book[s].key /\ b.remembered = book[s].remembered
        /\ b.pairing = book[s].pairing /\ b.reconciling = book[s].reconciling
    BY <1>1, <1>7, Zenon DEF Books
  <1>9. \A x \in X : x \in Requests /\ Granted(x)
    BY <1>1, <1>2, ReleaseFacts
  <1>10. InFlight((net \ {}) \cup X)
    BY <1>2
  <1>11. BookSound(c, b, reverse' = s, forgotten'[s])
    BY <1>2, <1>5, <1>6, <1>8 DEF BookSound
  <1>12. /\ reverse' \in {reverse, "none"} /\ forgotten' \in [Sats -> BOOLEAN]
         /\ \A t \in Sats \ {s} : forgotten'[t] = forgotten[t]
    BY <1>2, <1>3
  <1>13. /\ c.here => conn[s].here
         /\ b.pairing => book[s].pairing
         /\ b.reconciling => book[s].reconciling
    BY <1>6, <1>8
  <1>. QED
    BY <1>2, <1>4, <1>6, <1>8, <1>9, <1>10, <1>11, <1>12, <1>13, StepSound, Zenon

(* Forget: the connection and the record are as if never made, but for a    *)
(* pairing whose reply is still out.                                        *)
LEMMA ForgetSound ==
  ASSUME WifiInv, NEW s \in Sats, Forget(s)
  PROVE  WifiInv'
  <1>1. PICK b, g, X :
          /\ g = NextGeneration(book[s])
          /\ b = [g EXCEPT !.key = 0, !.remembered = FALSE, !.held = FALSE, !.reconciling = FALSE]
          /\ X = ReleaseOnDisconnect(s) \cup
                   (IF conn[s].here /\ book[s].key # 0
                    THEN {Request(s, "unpair", "user", book[s].key)} ELSE {})
    BY Zenon
  <1>2. /\ conn' = [conn EXCEPT ![s] = NoConn] /\ book' = [book EXCEPT ![s] = b]
        /\ InFlight((net \ {}) \cup X) /\ ClearNotices /\ Spend("user")
        /\ CanSend(s, "delete") /\ CanSend(s, "unpair")
        /\ reverse' = IF reverse = s THEN "none" ELSE reverse
        /\ forgotten' = [forgotten EXCEPT ![s] = TRUE]
        /\ UNCHANGED <<scanning, srv, asleep>>
    <2>1. net \cup ReleaseOnDisconnect(s) \cup
            (IF conn[s].here /\ book[s].key # 0
             THEN {Request(s, "unpair", "user", book[s].key)} ELSE {}) = (net \ {}) \cup X
      BY <1>1
    <2>. QED
      BY <1>1, <2>1, SMTT(30) DEF Forget, ReverseAfterForget
  <1>3. TypeOK /\ forgotten \in [Sats -> BOOLEAN]
    BY DEF WifiInv, TypeOK
  <1>4. TypeRest'
    BY <1>2, <1>3, RestTypes DEF TypeOK, Events
  <1>5. book[s] \in Books /\ book[s].key \in Keys \cup {0}
    BY SatFacts DEF Books
  <1>6. /\ NoConn \in Conns /\ ~NoConn.here /\ NoConn.state = "Idle" /\ ConnSound(NoConn)
    BY DEF NoConn, Conns, States, ConnSound, Steady
  <1>7. g \in Books /\ g.pairing = book[s].pairing
    BY <1>1, <1>5, GenerationFacts
  <1>8. /\ b \in Books /\ b.key = 0 /\ ~b.remembered /\ b.pairing = book[s].pairing
        /\ ~b.reconciling
    BY <1>1, <1>7, Zenon DEF Books
  <1>9. \A x \in X : x \in Requests /\ Granted(x)
    BY <1>1, <1>2, <1>5, ReleaseFacts, RequestMade DEF Kinds
  <1>10. /\ reverse' \in {reverse, "none"} /\ reverse' # s
         /\ forgotten' \in [Sats -> BOOLEAN] /\ \A t \in Sats \ {s} : forgotten'[t] = forgotten[t]
    BY <1>2, <1>3, NoneAssumption
  <1>11. BookSound(NoConn, b, reverse' = s, forgotten'[s])
    BY <1>6, <1>8, <1>10 DEF BookSound
  <1>. QED
    BY <1>2, <1>4, <1>6, <1>8, <1>9, <1>10, <1>11, StepSound, Zenon

(* prepareForSleep disconnects every satellite.                             *)
LEMMA SleepSound ==
  ASSUME WifiInv, PrepareForSleep
  PROVE  WifiInv'
  <1>1. PICK N : N = net \cup UNION {ReleaseOnDisconnect(s) : s \in Sats}
    BY Zenon
  <1>2. /\ conn' = [s \in Sats |-> Disconnected(conn[s])] /\ InFlight(N)
        /\ book' = [s \in Sats |-> IF conn[s].here THEN NextGeneration(book[s]) ELSE book[s]]
        /\ ClearNotices /\ Spend("sleep") /\ \A s \in Sats : CanSend(s, "delete")
        /\ asleep' = TRUE /\ UNCHANGED <<scanning, reverse, srv, forgotten>>
    BY <1>1 DEF PrepareForSleep
  <1>3. TypeOK /\ forgotten \in [Sats -> BOOLEAN] /\ reverse \in Sats \cup {"none"}
    BY DEF WifiInv, TypeOK
  <1>4. TypeRest'
    BY <1>2, <1>3, RestTypes DEF TypeOK, Events
  <1>5. N \in SUBSET Requests /\ \A q \in N : Granted(q)
    <2>1. \A s \in Sats : \A x \in ReleaseOnDisconnect(s) : x \in Requests /\ Granted(x)
      BY <1>2, ReleaseFacts
    <2>2. net \in SUBSET Requests /\ \A q \in net : Granted(q)
      BY Zenon DEF WifiInv, TypeOK, GrantsCarry
    <2>. QED
      BY <1>1, <2>1, <2>2
  <1>6. ASSUME NEW s \in Sats
        PROVE  /\ conn'[s] \in Conns /\ book'[s] \in Books /\ ConnSound(conn'[s])
               /\ BookSound(conn'[s], book'[s], reverse' = s, forgotten'[s])
               /\ Backed(s, conn'[s], book'[s], N)
    <2>1. /\ book[s] \in Books /\ Backed(s, conn[s], book[s], net)
          /\ BookSound(conn[s], book[s], reverse = s, forgotten[s])
      BY SatFacts
    <2>2. /\ conn'[s] \in Conns /\ conn'[s].here = conn[s].here
          /\ conn'[s].state # "Linking" /\ ConnSound(conn'[s])
      BY <1>2, DisconnectFacts, Zenon
    <2>3. /\ book'[s] \in Books /\ book'[s].key = book[s].key
          /\ book'[s].remembered = book[s].remembered /\ book'[s].pairing = book[s].pairing
          /\ book'[s].reconciling = book[s].reconciling
      BY <1>2, <2>1, GenerationFacts, Zenon
    <2>4. BookSound(conn'[s], book'[s], reverse' = s, forgotten'[s])
      BY <1>2, <2>1, <2>2, <2>3, Zenon DEF BookSound
    <2>5. Backed(s, conn[s], book[s], N)
      BY <1>1, <2>1, BackedCarried
    <2>6. Backed(s, conn'[s], book'[s], N)
      BY <2>2, <2>3, <2>5, Zenon DEF Backed
    <2>. QED
      BY <2>2, <2>3, <2>4, <2>6, SMTT(30)
  <1>7. conn' \in [Sats -> Conns] /\ book' \in [Sats -> Books]
    BY <1>2, <1>6
  <1>. QED
    BY <1>2, <1>3, <1>4, <1>5, <1>6, <1>7, HandlerSound

(* The record after a user's pair request.                                  *)
LEMMA PairAskedFacts ==
  ASSUME NEW b \in Books, NEW posts \in BOOLEAN
  PROVE  /\ PairAsked(b, posts) \in Books /\ PairAsked(b, posts).key = b.key
         /\ PairAsked(b, posts).remembered = b.remembered
         /\ PairAsked(b, posts).reconciling = b.reconciling
         /\ PairAsked(b, posts).pairing <=> b.pairing \/ posts
         /\ ~PairAsked(b, posts).held
  <1>1. PICK p \in BOOLEAN : p = (b.pairing \/ posts)
    BY Zenon
  <1>2. PairAsked(b, posts) = [b EXCEPT !.held = FALSE, !.pairing = p]
    BY <1>1, Zenon DEF PairAsked
  <1>3. /\ PairAsked(b, posts) \in Books /\ PairAsked(b, posts).key = b.key
        /\ PairAsked(b, posts).remembered = b.remembered
        /\ PairAsked(b, posts).reconciling = b.reconciling
        /\ PairAsked(b, posts).pairing = p /\ PairAsked(b, posts).held = FALSE
    BY <1>2, Zenon DEF Books
  <1>. QED
    BY <1>1, <1>3, Zenon

(* Pairing with a PIN: the link and the spinner await the request it posts. *)
LEMMA PairWithPinSound ==
  ASSUME WifiInv, NEW s \in Sats, PairWithPin(s)
  PROVE  WifiInv'
  <1>1. PICK e, x : e = EnsureConnection(conn[s]) /\ x = Request(s, "pairPin", "user", 0)
    OBVIOUS
  <1>2. PICK posts \in BOOLEAN : posts = (e.state # "Live")
    BY Zenon
  <1>3. PICK c, b, X : /\ c = IF posts THEN MarkConnecting(e) ELSE e
                       /\ b = PairAsked(book[s], posts)
                       /\ X = IF posts THEN {x} ELSE {}
    BY Zenon
  <1>4. /\ conn' = [conn EXCEPT ![s] = c] /\ book' = [book EXCEPT ![s] = b]
        /\ InFlight(net \cup X)
    BY <1>1, <1>2, <1>3, Zenon DEF PairWithPin
  <1>5. /\ ClearNotices /\ Spend("user") /\ CanSend(s, "pairPin")
        /\ forgotten' = [forgotten EXCEPT ![s] = FALSE]
        /\ UNCHANGED <<scanning, reverse, srv, asleep>>
    BY DEF PairWithPin, Asked
  <1>6. TypeOK /\ forgotten \in [Sats -> BOOLEAN]
    BY DEF WifiInv, TypeOK
  <1>7. TypeRest'
    BY <1>5, <1>6, RestTypes, Zenon DEF TypeOK, Events
  <1>8. conn[s] \in Conns /\ ConnSound(conn[s]) /\ book[s] \in Books
        /\ BookSound(conn[s], book[s], reverse = s, forgotten[s])
    BY SatFacts, Zenon
  <1>9. e \in Conns /\ e.here /\ ConnSound(e) /\ e.state = conn[s].state
    BY <1>1, <1>8, Ensured
  <1>10. c \in Conns /\ c.here /\ ConnSound(c) /\ (c.state = "Linking" => posts)
    BY <1>2, <1>3, <1>9, Dialling, Zenon
  <1>11. /\ b \in Books /\ b.key = book[s].key /\ b.remembered = book[s].remembered
         /\ b.reconciling = book[s].reconciling /\ (b.pairing => book[s].pairing \/ posts)
    BY <1>3, <1>8, PairAskedFacts, Zenon
  <1>12. x \in Requests /\ x.sat = s /\ x.kind = "pairPin" /\ x.mine /\ Granted(x)
    BY <1>1, <1>5, RequestMade, SMTT(30) DEF Kinds, PairKinds
  <1>13. /\ \A q \in X : q \in Requests /\ Granted(q)
         /\ posts => \E q \in X : q.sat = s /\ q.kind \in LinkKinds /\ q.mine
         /\ posts => \E q \in X : q.sat = s /\ q.kind \in PairKinds /\ q.mine
    BY <1>3, <1>12 DEF LinkKinds, PairKinds
  <1>14. ASSUME b.pairing, ~posts PROVE book[s].pairing /\ conn[s].here
    BY <1>14, <1>2, <1>9, <1>11, SatFacts, Zenon
  <1>15. InFlight((net \ {}) \cup X)
    BY <1>4
  <1>16. /\ forgotten' \in [Sats -> BOOLEAN] /\ ~forgotten'[s]
         /\ \A t \in Sats \ {s} : forgotten'[t] = forgotten[t]
    BY <1>5, <1>6, Zenon
  <1>17. BookSound(c, b, reverse' = s, forgotten'[s])
    BY <1>10, <1>16 DEF BookSound
  <1>. QED
    BY <1>4, <1>5, <1>7, <1>10, <1>11, <1>13, <1>14, <1>15, <1>16, <1>17, StepSound, Zenon

(* Asking for an approval: the spinner awaits the new request; the attempt  *)
(* it supersedes keeps its request, no longer the one on screen.            *)
LEMMA ReverseRequestSound ==
  ASSUME WifiInv, NEW s \in Sats, RequestReversePairing(s)
  PROVE  WifiInv'
  <1>. DEFINE Old(q) == [q EXCEPT !.live = @ /\ q.kind # "pairReverse"]
  <1>1. PICK c, b, x : /\ c = EnsureConnection(conn[s]) /\ b = PairAsked(book[s], TRUE)
                       /\ x = Request(s, "pairReverse", "user", 0)
    BY Zenon
  <1>2. PICK N : N = {Old(q) : q \in net} \cup {x}
    BY Zenon
  <1>3. /\ conn' = [conn EXCEPT ![s] = c] /\ book' = [book EXCEPT ![s] = b]
        /\ InFlight(N) /\ reverse' = s /\ Spend("user") /\ CanSend(s, "pairReverse")
        /\ forgotten' = [forgotten EXCEPT ![s] = FALSE]
        /\ UNCHANGED <<scanning, srv, notice, asleep>>
    BY <1>1, <1>2, Zenon DEF RequestReversePairing, Asked
  <1>4. TypeOK /\ forgotten \in [Sats -> BOOLEAN]
    BY DEF WifiInv, TypeOK
  <1>5. TypeRest'
    BY <1>3, <1>4, RestTypes DEF TypeOK, Events
  <1>6. ASSUME NEW q \in net
        PROVE  /\ Old(q) \in Requests /\ Old(q).sat = q.sat /\ Old(q).kind = q.kind
               /\ Old(q).mine = q.mine /\ Granted(Old(q))
    <2>1. q \in Requests /\ Granted(q)
      BY NetFacts
    <2>2. PICK l \in BOOLEAN : l = (q.live /\ q.kind # "pairReverse")
      BY Zenon
    <2>3. PICK p : p = Old(q) /\ p = [q EXCEPT !.live = l]
      BY <2>2, Zenon
    <2>. HIDE DEF Old
    <2>4. /\ p \in Requests /\ p.sat = q.sat /\ p.kind = q.kind /\ p.mine = q.mine
          /\ p.ans = q.ans /\ p.val = q.val
      BY <2>1, <2>3 DEF Requests
    <2>. QED
      BY <2>1, <2>3, <2>4 DEF Granted
  <1>. HIDE DEF Old
  <1>7. x \in Requests /\ x.sat = s /\ x.kind = "pairReverse" /\ x.mine /\ Granted(x)
    BY <1>1, <1>3, RequestMade DEF Kinds, PairKinds
  <1>8. /\ N \in SUBSET Requests /\ \A q \in N : Granted(q)
        /\ \A q \in net : \E p \in N : p.sat = q.sat /\ p.kind = q.kind /\ (q.mine => p.mine)
    BY <1>2, <1>6, <1>7, Zenon
  <1>9. /\ conn[s] \in Conns /\ ConnSound(conn[s]) /\ book[s] \in Books
        /\ Backed(s, conn[s], book[s], net)
    BY SatFacts, Zenon
  <1>10. c \in Conns /\ c.here /\ c.state = conn[s].state /\ ConnSound(c)
    BY <1>1, <1>9, Ensured
  <1>11. b \in Books /\ b.reconciling = book[s].reconciling
    BY <1>1, <1>9, PairAskedFacts, Zenon
  <1>12. Backed(s, conn[s], book[s], N)
    BY <1>8, <1>9, BackedCarried
  <1>13. Awaits(s, PairKinds, c.here, N)
    BY <1>2, <1>7 DEF Awaits, PairKinds
  <1>14. Backed(s, c, b, N)
    BY <1>10, <1>11, <1>12, <1>13, Zenon DEF Backed
  <1>15. /\ forgotten' \in [Sats -> BOOLEAN] /\ ~forgotten'[s]
         /\ \A t \in Sats \ {s} : forgotten'[t] = forgotten[t]
    BY <1>3, <1>4, Zenon
  <1>16. BookSound(c, b, reverse' = s, forgotten'[s])
    BY <1>10, <1>15 DEF BookSound
  <1>17. reverse' \in Sats \cup {"none"} /\ \A t \in Sats \ {s} : reverse' = t => reverse = t
    BY <1>3
  <1>. QED
    BY <1>3, <1>5, <1>8, <1>10, <1>11, <1>14, <1>15, <1>16, <1>17, OneSatellite, Zenon

----------------------------------------------------------------------------
(* Replies and ticks.                                                       *)

(* Such a handler forgets nothing and asks for no approval.                 *)
Frame ==
  /\ reverse' \in {reverse, "none"} /\ UNCHANGED <<scanning, srv, asleep, forgotten>>
  /\ notice' = notice \/ ClearNotices
  /\ left' = left \/ \E e \in Events : Spend(e)

(* It takes the requests R of satellite s off the network and sends X.      *)
Trades(s, R, X) ==
  /\ \A q \in R : q.sat = s
  /\ \A x \in X : x \in Requests /\ Granted(x)
  /\ InFlight((net \ R) \cup X)

(* It leaves connection c and record b: each wait goes on with a request    *)
(* that backs it, or is new and comes with one.                             *)
LinkKept(s, c, R, X) ==
  c.state = "Linking" =>
    \/ conn[s].state = "Linking" /\ \A q \in R : q.kind \notin LinkKinds \/ ~q.mine
    \/ \E x \in X : x.sat = s /\ x.kind \in LinkKinds /\ x.mine
PairKept(s, b, R) ==
  b.pairing => /\ book[s].pairing
               /\ \A q \in R : q.kind \notin PairKinds \/ (conn[s].here /\ ~q.mine)
HealKept(s, b, R, X) ==
  b.reconciling =>
    \/ book[s].reconciling /\ \A q \in R : q.kind # "get"
    \/ \E x \in X : x.sat = s /\ x.kind = "get"

(* StepSound for such a handler, which makes no connection.                 *)
LEMMA ReplySound ==
  ASSUME WifiInv, NEW s \in Sats, NEW c \in Conns, NEW b \in Books, NEW R, NEW X,
         conn' = [conn EXCEPT ![s] = c], book' = [book EXCEPT ![s] = b],
         Frame, Trades(s, R, X), ConnSound(c), c.here => conn[s].here,
         BookSound(c, b, reverse = s, forgotten[s]),
         LinkKept(s, c, R, X), PairKept(s, b, R), HealKept(s, b, R, X)
  PROVE  WifiInv'
  <1>1. TypeOK /\ forgotten \in [Sats -> BOOLEAN]
    BY Zenon DEF WifiInv, TypeOK
  <1>2. TypeRest'
    BY <1>1, RestTypes DEF TypeOK, Frame
  <1>3. /\ forgotten' \in [Sats -> BOOLEAN] /\ \A t \in Sats \ {s} : forgotten'[t] = forgotten[t]
        /\ reverse' \in {reverse, "none"}
    BY <1>1 DEF Frame
  <1>4. BookSound(c, b, reverse' = s, forgotten'[s])
    BY NoneAssumption DEF BookSound, Frame
  <1>. QED
    BY <1>2, <1>3, <1>4, StepSound, Zenon DEF Trades, LinkKept, PairKept, HealKept

(* A reply that leaves the connection and the record alone.                 *)
LEMMA DroppedSound ==
  ASSUME WifiInv, NEW r \in net, NEW X, UNCHANGED <<conn, book>>,
         Frame, Trades(r.sat, {r}, X), r.kind \notin PairKinds, r.kind # "get",
         r.kind \in LinkKinds => ~r.mine \/ conn[r.sat].state # "Linking"
  PROVE  WifiInv'
  <1>1. PICK s \in Sats : s = r.sat
    BY NetFacts
  <1>2. PICK c, b, R : c = conn[s] /\ b = book[s] /\ R = {r}
    BY ZenonT(30)
  <1>3. /\ c \in Conns /\ b \in Books /\ ConnSound(c) /\ (c.here => conn[s].here)
        /\ BookSound(c, b, reverse = s, forgotten[s])
    BY <1>2, SatFacts
  <1>4. conn' = [conn EXCEPT ![s] = c] /\ book' = [book EXCEPT ![s] = b]
    BY <1>2, Zenon DEF WifiInv, TypeOK
  <1>5. Trades(s, R, X)
    BY <1>1, <1>2, Zenon
  <1>6. LinkKept(s, c, R, X) /\ PairKept(s, b, R) /\ HealKept(s, b, R, X)
    BY <1>1, <1>2 DEF LinkKept, PairKept, HealKept
  <1>. QED
    BY <1>3, <1>4, <1>5, <1>6, ReplySound, Zenon

(* A handler that ends the session of a connection that exists.             *)
LEMMA EndedSound ==
  ASSUME WifiInv, NEW s \in Sats, conn[s].here, NEW b \in Books, NEW R, NEW X,
         NEW c, c = MarkDisconnected(conn[s]) \/ c = MarkStale(conn[s]),
         conn' = [conn EXCEPT ![s] = c], book' = [book EXCEPT ![s] = b],
         Frame, Trades(s, R, X), PairKept(s, b, R), HealKept(s, b, R, X)
  PROVE  WifiInv'
  <1>1. /\ conn[s] \in Conns /\ BookSound(conn[s], book[s], reverse = s, forgotten[s])
    BY SatFacts, Zenon
  <1>2. c \in Conns /\ c.here /\ c.state # "Linking" /\ ConnSound(c)
    BY <1>1, Ended, Zenon
  <1>3. BookSound(c, b, reverse = s, forgotten[s])
    BY <1>1, <1>2, Zenon DEF BookSound
  <1>4. LinkKept(s, c, R, X)
    BY <1>2 DEF LinkKept
  <1>. QED
    BY <1>2, <1>3, <1>4, ReplySound, Zenon

(* A reply taken off the network, with nothing sent.                        *)
LEMMA Taken ==
  ASSUME NEW r \in net, InFlight(net \ {r})
  PROVE  Trades(r.sat, {r}, {})
  <1>1. net \ {r} = (net \ {r}) \cup {}
    OBVIOUS
  <1>. QED
    BY <1>1 DEF Trades

(* Edits of a record.                                                       *)
LEMMA ScheduleFacts ==
  ASSUME NEW b \in Books, NEW intent
  PROVE  /\ ScheduleRetry(b, intent) \in Books
         /\ ScheduleRetry(b, intent).pairing = b.pairing
         /\ ScheduleRetry(b, intent).reconciling = b.reconciling
         /\ ScheduleRetry(b, intent).held = b.held
  <1>1. CASE intent = "user"
    BY <1>1 DEF ScheduleRetry
  <1>2. CASE intent # "user"
    <2>1. PICK n \in 0 .. MaxTimers : n = IF b.armed < MaxTimers THEN b.armed + 1 ELSE b.armed
      BY TimerAssumption DEF Books
    <2>2. ScheduleRetry(b, intent) = [b EXCEPT !.armed = n]
      BY <1>2, <2>1 DEF ScheduleRetry
    <2>. QED
      BY <2>2 DEF Books
  <1>. QED
    BY <1>1, <1>2

(* endPairingRequest leaves the flag to a newer connection.                 *)
LEMMA EndPairingFacts ==
  ASSUME NEW b \in Books, NEW r
  PROVE  /\ EndPairing(b, r) \in Books /\ EndPairing(b, r).key = b.key
         /\ EndPairing(b, r).remembered = b.remembered
         /\ EndPairing(b, r).reconciling = b.reconciling /\ EndPairing(b, r).held = b.held
         /\ EndPairing(b, r).pairing => b.pairing /\ conn[r.sat].here /\ ~r.mine
  <1>1. PICK p \in BOOLEAN : p = (b.pairing /\ conn[r.sat].here /\ ~r.mine)
    BY Zenon
  <1>2. EndPairing(b, r) = [b EXCEPT !.pairing = p]
    BY <1>1, Zenon DEF EndPairing
  <1>3. /\ EndPairing(b, r) \in Books /\ EndPairing(b, r).key = b.key
        /\ EndPairing(b, r).remembered = b.remembered
        /\ EndPairing(b, r).reconciling = b.reconciling /\ EndPairing(b, r).held = b.held
        /\ EndPairing(b, r).pairing = p
    BY <1>2 DEF Books
  <1>. QED
    BY <1>1, <1>3, Zenon

(* The reply to a pair request: the spinner ends with it, and the link goes *)
(* on only with the session request it sends.                               *)
LEMMA PairReplySound ==
  ASSUME WifiInv, NEW r \in net, PairReply(r)
  PROVE  WifiInv'
  <1>1. PICK s \in Sats : s = r.sat
    BY NetFacts
  <1>2. PICK b, R : b = EndPairing(book[s], r) /\ R = {r}
    BY Zenon
  <1>3. r.kind \in {"pairPin", "pairConnect"} /\ Frame
    BY Zenon DEF PairReply, Frame
  <1>4. /\ conn[s] \in Conns /\ book[s] \in Books /\ ConnSound(conn[s])
        /\ BookSound(conn[s], book[s], reverse = s, forgotten[s])
        /\ conn[s].state = "Linking" => conn[s].here
    BY SatFacts
  <1>5. /\ b \in Books /\ b.key = book[s].key /\ b.remembered = book[s].remembered
        /\ b.reconciling = book[s].reconciling
        /\ b.pairing => book[s].pairing /\ conn[s].here /\ ~r.mine
    BY <1>1, <1>2, <1>4, EndPairingFacts, Zenon
  <1>6. InFlight(net \ {r}) => Trades(s, R, {})
    BY <1>1, <1>2 DEF Trades
  <1>7. CASE ~Target(r) /\ book' = [book EXCEPT ![s] = b] /\ UNCHANGED conn /\ InFlight(net \ {r})
    <2>1. PICK c : c = conn[s]
      OBVIOUS
    <2>2. conn' = [conn EXCEPT ![s] = c] /\ book' = [book EXCEPT ![s] = b]
      BY <1>7, <2>1 DEF WifiInv, TypeOK
    <2>3. conn[s].here => ~r.mine
      BY <1>1, <1>7, Zenon DEF Target
    <2>4. BookSound(c, b, reverse = s, forgotten[s])
      BY <1>4, <1>5, <2>1, Zenon DEF BookSound
    <2>5. c \in Conns /\ ConnSound(c) /\ (c.here => conn[s].here)
      BY <1>4, <2>1, ZenonT(30)
    <2>6. LinkKept(s, c, R, {}) /\ PairKept(s, b, R) /\ HealKept(s, b, R, {})
      BY <1>2, <1>3, <1>4, <1>5, <2>1, <2>3 DEF LinkKept, PairKept, HealKept
    <2>. QED
      BY <1>3, <1>5, <1>6, <1>7, <2>2, <2>4, <2>5, <2>6, ReplySound, Zenon
  <1>8. CASE /\ Target(r) /\ r.ans = "ok" /\ CanSend(s, "put") /\ UNCHANGED conn
             /\ book' = [book EXCEPT ![s] = [b EXCEPT !.key = r.val]]
             /\ InFlight((net \ {r}) \cup {Request(s, "put", r.intent, r.val)})
    <2>1. PICK c, d, x : /\ c = conn[s] /\ d = [b EXCEPT !.key = r.val]
                         /\ x = Request(s, "put", r.intent, r.val)
      BY Zenon
    <2>2. conn' = [conn EXCEPT ![s] = c] /\ book' = [book EXCEPT ![s] = d]
      BY <1>8, <2>1 DEF WifiInv, TypeOK
    <2>3. conn[s].here /\ r.mine
      BY <1>1, <1>8 DEF Target
    <2>4. r.val \in Keys /\ r.intent \in {"user", "silent"}
      BY <1>3, <1>8, NetFacts DEF Granted, PairKinds
    <2>5. d \in Books /\ ~d.pairing /\ (d.reconciling => book[s].reconciling)
      BY <1>5, <2>1, <2>3, <2>4 DEF Books
    <2>6. x \in Requests /\ x.sat = s /\ x.kind = "put" /\ x.mine /\ Granted(x)
      BY <1>8, <2>1, <2>4, RequestMade DEF Kinds
    <2>7. Trades(s, R, {x})
      BY <1>1, <1>2, <1>8, <2>1, <2>6 DEF Trades
    <2>8. BookSound(c, d, reverse = s, forgotten[s])
      BY <1>4, <2>1, <2>3 DEF BookSound
    <2>9. c \in Conns /\ ConnSound(c) /\ (c.here => conn[s].here)
      BY <1>4, <2>1, ZenonT(30)
    <2>10. LinkKept(s, c, R, {x}) /\ PairKept(s, d, R) /\ HealKept(s, d, R, {x})
      BY <1>2, <1>3, <2>5, <2>6 DEF LinkKept, PairKept, HealKept, LinkKinds
    <2>. QED
      BY <1>3, <2>2, <2>5, <2>7, <2>8, <2>9, <2>10, ReplySound, Zenon
  <1>9. ASSUME Target(r), NEW d \in Books, book' = [book EXCEPT ![s] = d],
               ~d.pairing, d.reconciling => book[s].reconciling,
               NEW c, c = MarkDisconnected(conn[s]) \/ c = MarkStale(conn[s]),
               conn' = [conn EXCEPT ![s] = c], InFlight(net \ {r})
        PROVE  WifiInv'
    <2>1. conn[s].here /\ Trades(s, R, {})
      BY <1>1, <1>6, <1>9, Zenon DEF Target
    <2>2. PairKept(s, d, R) /\ HealKept(s, d, R, {})
      BY <1>2, <1>3, <1>9 DEF PairKept, HealKept
    <2>. QED
      BY <1>3, <1>9, <2>1, <2>2, EndedSound, Zenon
  <1>10. CASE /\ Target(r) /\ book' = [book EXCEPT ![s] = [b EXCEPT !.key = 0]]
              /\ conn' = [conn EXCEPT ![s] = MarkStale(@)] /\ InFlight(net \ {r})
    <2>1. PICK d, c : d = [b EXCEPT !.key = 0] /\ c = MarkStale(conn[s])
      BY Zenon
    <2>2. d \in Books /\ ~d.pairing /\ (d.reconciling => book[s].reconciling)
      BY <1>1, <1>5, <1>10, <2>1 DEF Books, Target
    <2>3. book' = [book EXCEPT ![s] = d] /\ conn' = [conn EXCEPT ![s] = c]
      BY <1>10, <2>1
    <2>. QED
      BY <1>9, <1>10, <2>1, <2>2, <2>3, Zenon
  <1>11. CASE /\ Target(r) /\ book' = [book EXCEPT ![s] = b]
              /\ conn' = [conn EXCEPT ![s] = PairFailed(@, r)] /\ InFlight(net \ {r})
    <2>1. PICK c : c = PairFailed(conn[s], r)
      OBVIOUS
    <2>2. c = MarkDisconnected(conn[s]) \/ c = MarkStale(conn[s])
      BY <2>1 DEF PairFailed
    <2>3. ~b.pairing /\ (b.reconciling => book[s].reconciling)
      BY <1>1, <1>5, <1>11 DEF Target
    <2>4. conn' = [conn EXCEPT ![s] = c]
      BY <1>11, <2>1
    <2>. QED
      BY <1>5, <1>9, <1>11, <2>2, <2>3, <2>4, Zenon
  <1>. QED
    BY <1>1, <1>2, <1>7, <1>8, <1>10, <1>11 DEF PairReply

(* An approved key is adopted: the connection that exists links, with the   *)
(* session request on its way.                                              *)
LEMMA AdoptSound ==
  ASSUME WifiInv, NEW r \in net, reverse = r.sat, r.ans = "ok",
         r.kind \in {"pairReverse", "poll"}, NEW b \in Books, PairKept(r.sat, b, {r}),
         b.reconciling => book[r.sat].reconciling,
         AdoptGrant(r.sat, r.val, net \ {r}, b),
         UNCHANGED <<scanning, srv, asleep, left, forgotten>>
  PROVE  WifiInv'
  <1>1. PICK s \in Sats : s = r.sat
    BY NetFacts
  <1>2. PICK e, c, d, x, R :
          /\ e = EnsureConnection(conn[s]) /\ c = MarkConnecting(e)
          /\ d = [b EXCEPT !.key = r.val] /\ x = Request(s, "put", "user", r.val) /\ R = {r}
    BY Zenon
  <1>3. /\ conn' = [conn EXCEPT ![s] = c] /\ book' = [book EXCEPT ![s] = d]
        /\ InFlight((net \ R) \cup {x}) /\ CanSend(s, "put")
    BY <1>1, <1>2 DEF AdoptGrant
  <1>4. Frame
    BY ZenonT(30) DEF AdoptGrant, Frame
  <1>5. /\ conn[s] \in Conns /\ ConnSound(conn[s]) /\ conn[s].here
        /\ BookSound(conn[s], book[s], reverse = s, forgotten[s])
    BY <1>1, SatFacts DEF BookSound
  <1>6. c \in Conns /\ c.here /\ ConnSound(c)
    BY <1>2, <1>5, Ensured, Dialling, ZenonT(30)
  <1>7. r.val \in Keys
    BY NetFacts DEF Granted, PairKinds
  <1>8. d \in Books /\ d.pairing = b.pairing /\ d.reconciling = b.reconciling
    BY <1>2, <1>7 DEF Books
  <1>9. x \in Requests /\ x.sat = s /\ x.kind = "put" /\ x.mine /\ Granted(x)
    BY <1>2, <1>3, <1>7, RequestMade DEF Kinds
  <1>10. Trades(s, R, {x})
    BY <1>1, <1>2, <1>3, <1>9 DEF Trades
  <1>11. LinkKept(s, c, R, {x}) /\ PairKept(s, d, R) /\ HealKept(s, d, R, {x})
    BY <1>1, <1>2, <1>8, <1>9, Zenon DEF LinkKept, PairKept, HealKept, LinkKinds
  <1>12. BookSound(c, d, reverse = s, forgotten[s])
    BY <1>5, <1>6 DEF BookSound
  <1>. QED
    BY <1>3, <1>4, <1>5, <1>6, <1>8, <1>10, <1>11, <1>12, ReplySound, Zenon

(* An approved key that cannot be used ends the session.                    *)
LEMMA AdoptUnusableSound ==
  ASSUME WifiInv, NEW r \in net, reverse = r.sat,
         r.kind \in {"pairReverse", "poll"}, NEW b \in Books, PairKept(r.sat, b, {r}),
         b.reconciling => book[r.sat].reconciling,
         AdoptUnusable(r.sat, net \ {r}, b),
         UNCHANGED <<scanning, srv, asleep, left, forgotten>>
  PROVE  WifiInv'
  <1>1. PICK s \in Sats : s = r.sat
    BY NetFacts
  <1>2. PICK c, d, R :
          c = MarkStale(conn[s]) /\ d = [b EXCEPT !.key = 0] /\ R = {r}
    BY Zenon
  <1>3. conn[s] \in Conns /\ conn[s].here
    BY <1>1, SatFacts DEF BookSound
  <1>4. EnsureConnection(conn[s]) = conn[s]
    BY <1>3, Zenon DEF EnsureConnection, Conns
  <1>5. /\ conn' = [conn EXCEPT ![s] = c] /\ book' = [book EXCEPT ![s] = d]
        /\ InFlight(net \ {r})
    BY <1>1, <1>2, <1>4 DEF AdoptUnusable
  <1>6. Frame
    BY ZenonT(30) DEF AdoptUnusable, Frame
  <1>7. d \in Books /\ d.pairing = b.pairing /\ d.reconciling = b.reconciling
    BY <1>2 DEF Books
  <1>8. Trades(s, R, {})
    BY <1>1, <1>2, <1>5, Taken, Zenon
  <1>9. PairKept(s, d, R) /\ HealKept(s, d, R, {})
    BY <1>1, <1>2, <1>7, Zenon DEF PairKept, HealKept
  <1>. QED
    BY <1>2, <1>3, <1>5, <1>6, <1>7, <1>8, <1>9, EndedSound, Zenon

(* The replies of the approval flow.                                        *)
LEMMA ApprovalSound ==
  ASSUME WifiInv, NEW r \in net, ReversePairReply(r) \/ PollReply(r)
  PROVE  WifiInv'
  <1>1. PICK s \in Sats : s = r.sat
    BY NetFacts, Zenon
  <1>2. /\ conn[s] \in Conns /\ book[s] \in Books /\ ConnSound(conn[s])
        /\ BookSound(conn[s], book[s], reverse = s, forgotten[s])
    BY SatFacts, Zenon
  <1>3. CASE ReversePairReply(r)
    <2>1. PICK b, R : b = EndPairing(book[s], r) /\ R = {r}
      BY Zenon
    <2>2. r.kind = "pairReverse" /\ UNCHANGED <<scanning, srv, asleep, left, forgotten>>
      BY <1>3 DEF ReversePairReply
    <2>3. /\ b \in Books /\ b.key = book[s].key /\ b.remembered = book[s].remembered
          /\ b.reconciling = book[s].reconciling
          /\ b.pairing => book[s].pairing /\ conn[s].here /\ ~r.mine
      BY <1>1, <1>2, <2>1, EndPairingFacts, ZenonT(30)
    <2>4. PairKept(s, b, R) /\ HealKept(s, b, R, {})
      BY <2>1, <2>2, <2>3, Zenon DEF PairKept, HealKept
    <2>5. CASE reverse = s /\ r.ans = "ok" /\ AdoptGrant(s, r.val, net \ {r}, b)
      BY <1>1, <2>1, <2>2, <2>3, <2>4, <2>5, AdoptSound, Zenon
    <2>6. CASE /\ reverse' \in {reverse, "none"} /\ book' = [book EXCEPT ![s] = b]
               /\ UNCHANGED <<conn, notice>> /\ InFlight(net \ {r})
      <3>1. PICK c : c = conn[s]
        OBVIOUS
      <3>2. conn' = [conn EXCEPT ![s] = c] /\ book' = [book EXCEPT ![s] = b]
        BY <2>6, <3>1 DEF WifiInv, TypeOK
      <3>3. Frame
        BY <2>2, <2>6 DEF Frame
      <3>4. Trades(s, R, {})
        BY <1>1, <2>1, <2>6, Taken, Zenon
      <3>5. c \in Conns /\ ConnSound(c) /\ (c.here => conn[s].here)
        BY <1>2, <3>1, Zenon
      <3>6. BookSound(c, b, reverse = s, forgotten[s])
        BY <1>2, <2>3, <3>1, Zenon DEF BookSound
      <3>7. LinkKept(s, c, R, {})
        BY <2>1, <2>2, <3>1, Zenon DEF LinkKept, LinkKinds
      <3>. QED
        BY <2>3, <2>4, <3>2, <3>3, <3>4, <3>5, <3>6, <3>7, ReplySound, Zenon
    <2>7. CASE reverse = s /\ AdoptUnusable(s, net \ {r}, b)
      BY <1>1, <2>1, <2>2, <2>3, <2>4, <2>7, AdoptUnusableSound, Zenon
    <2>. QED
      BY <1>1, <1>3, <2>1, <2>5, <2>6, <2>7 DEF ReversePairReply
  <1>4. CASE PollReply(r)
    <2>1. r.kind = "poll" /\ UNCHANGED <<scanning, srv, asleep, left, forgotten>>
      BY <1>4 DEF PollReply
    <2>2. PairKept(s, book[s], {r})
      BY <2>1, Zenon DEF PairKept, PairKinds
    <2>3. CASE reverse = s /\ r.ans = "ok" /\ AdoptGrant(s, r.val, net \ {r}, book[s])
      BY <1>1, <1>2, <2>1, <2>2, <2>3, AdoptSound, ZenonT(30)
    <2>4. CASE reverse = s /\ AdoptUnusable(s, net \ {r}, book[s])
      BY <1>1, <1>2, <2>1, <2>2, <2>4, AdoptUnusableSound, ZenonT(30)
    <2>5. CASE /\ reverse' \in {reverse, "none"} /\ UNCHANGED <<conn, book, notice>>
               /\ InFlight(net \ {r})
      <3>1. Frame /\ Trades(r.sat, {r}, {})
        BY <2>1, <2>5, Taken DEF Frame
      <3>. QED
        BY <2>1, <2>5, <3>1, DroppedSound, Zenon DEF PairKinds, LinkKinds
    <2>. QED
      BY <1>1, <1>4, <2>3, <2>4, <2>5 DEF PollReply
  <1>. QED
    BY <1>3, <1>4

(* onTerminalAuthFailure: the session ends and the key is dropped.          *)
LEMMA TerminalSound ==
  ASSUME WifiInv, NEW s \in Sats, conn[s].here, TerminalAuthFailure(s), NEW R, Frame,
         Trades(s, R, {}), \A q \in R : q.kind \notin PairKinds /\ q.kind # "get"
  PROVE  WifiInv'
  <1>1. PICK c, b : c = MarkStale(conn[s]) /\ b = [book[s] EXCEPT !.key = 0]
    BY Zenon
  <1>2. conn' = [conn EXCEPT ![s] = c] /\ book' = [book EXCEPT ![s] = b]
    BY <1>1, Zenon DEF TerminalAuthFailure
  <1>3. book[s] \in Books
    BY SatFacts
  <1>4. b \in Books /\ b.pairing = book[s].pairing /\ b.reconciling = book[s].reconciling
    BY <1>1, <1>3, Zenon DEF Books
  <1>5. PairKept(s, b, R) /\ HealKept(s, b, R, {})
    BY <1>4 DEF PairKept, HealKept
  <1>. QED
    BY <1>1, <1>2, <1>4, <1>5, EndedSound, Zenon

(* A granted session: the link becomes a live session with a client.        *)
LEMMA PutGrantedSound ==
  ASSUME WifiInv, NEW r \in net, r.kind = "put", PutGranted(r), Frame
  PROVE  WifiInv'
  <1>1. PICK s \in Sats : s = r.sat
    BY NetFacts
  <1>2. PICK c, b, R : /\ c = MarkConnected(conn[s], r.val)
                       /\ b = [book[s] EXCEPT !.remembered = TRUE] /\ R = {r}
    BY Zenon
  <1>3. /\ conn[s].here /\ r.mine /\ conn[s].state = "Linking" /\ r.val \in Tokens
        /\ conn' = [conn EXCEPT ![s] = c] /\ book' = [book EXCEPT ![s] = b]
    BY <1>1, <1>2, NetFacts, ZenonT(30) DEF PutGranted, Target, Granted
  <1>4. /\ conn[s] \in Conns /\ book[s] \in Books /\ ConnSound(conn[s])
        /\ BookSound(conn[s], book[s], reverse = s, forgotten[s])
        /\ book[s].key \in Keys \cup {0}
    BY SatFacts DEF Books
  <1>5. c \in Conns /\ c.here /\ c.state = "Live" /\ ConnSound(c)
    BY <1>2, <1>3, <1>4, Connected
  <1>6. b \in Books /\ b.pairing = book[s].pairing /\ b.reconciling = book[s].reconciling
    BY <1>2, <1>4, Zenon DEF Books
  <1>7. BookSound(c, b, reverse = s, forgotten[s])
    BY <1>3, <1>4, <1>5 DEF BookSound
  <1>8. PICK X : Trades(s, R, X)
    <2>1. CASE InFlight(net \ {r})
      BY <1>1, <1>2, <2>1, Taken
    <2>2. CASE /\ CanSend(s, "ctl")
               /\ InFlight((net \ {r}) \cup {Request(s, "ctl", "silent", book[s].key)})
      <3>1. PICK x : x = Request(s, "ctl", "silent", book[s].key)
        BY ZenonT(30)
      <3>2. x \in Requests /\ Granted(x)
        BY <1>4, <2>2, <3>1, RequestMade, Zenon DEF Kinds
      <3>3. Trades(s, R, {x})
        BY <1>1, <1>2, <2>2, <3>1, <3>2 DEF Trades
      <3>. QED
        BY <3>3
    <2>. QED
      BY <1>1, <2>1, <2>2 DEF PutGranted
  <1>9. LinkKept(s, c, R, X) /\ PairKept(s, b, R) /\ HealKept(s, b, R, X)
    BY <1>2, <1>5, <1>6 DEF LinkKept, PairKept, HealKept, PairKinds
  <1>. QED
    BY <1>3, <1>5, <1>6, <1>7, <1>8, <1>9, ReplySound, Zenon

(* onSessionReply.                                                          *)
LEMMA SessionReplySound ==
  ASSUME WifiInv, NEW r \in net, SessionReply(r)
  PROVE  WifiInv'
  <1>1. PICK s \in Sats : s = r.sat
    BY NetFacts
  <1>2. r.kind = "put" /\ Frame
    BY DEF SessionReply, Frame, PutGranted, Events
  <1>3. PICK R : R = {r}
    BY ZenonT(30)
  <1>4. book[s] \in Books
    BY SatFacts
  <1>5. CASE PutGranted(r)
    BY <1>2, <1>5, PutGrantedSound
  <1>6. CASE PutSuperseded(r)
    <2>1. Trades(r.sat, {r}, {}) /\ UNCHANGED <<conn, book>>
      BY <1>6, Taken, Zenon DEF PutSuperseded
    <2>2. ~r.mine \/ conn[r.sat].state # "Linking"
      BY <1>1, <1>6, SatFacts, Zenon DEF PutSuperseded, Target
    <2>. QED
      BY <1>2, <2>1, <2>2, DroppedSound, Zenon DEF PairKinds
  <1>7. CASE PutLate(r)
    <2>1. PICK X : X = IF r.ans \in {"ok", "unusable"} THEN Release(s, book[s].key) ELSE {}
      BY Zenon
    <2>2. \A x \in X : x \in Requests /\ Granted(x)
      BY <1>1, <1>7, <2>1, ReleaseFacts, Zenon DEF PutLate
    <2>3. Trades(r.sat, {r}, X)
      BY <1>1, <1>7, <2>1, <2>2, ZenonT(30) DEF PutLate, Trades
    <2>4. UNCHANGED <<conn, book>> /\ conn[r.sat].state # "Linking"
      BY <1>7 DEF PutLate
    <2>. QED
      BY <1>2, <2>3, <2>4, DroppedSound, Zenon DEF PairKinds
  <1>8. ASSUME NEW c, c = MarkDisconnected(conn[s]) \/ c = MarkStale(conn[s]), conn[s].here,
               NEW b \in Books, b.pairing = book[s].pairing, b.reconciling = book[s].reconciling,
               conn' = [conn EXCEPT ![s] = c], book' = [book EXCEPT ![s] = b],
               NEW X, Trades(s, R, X)
        PROVE  WifiInv'
    <2>1. PairKept(s, b, R) /\ HealKept(s, b, R, X)
      BY <1>2, <1>3, <1>8 DEF PairKept, HealKept, PairKinds
    <2>. QED
      BY <1>2, <1>8, <2>1, EndedSound, ZenonT(30)
  <1>9. CASE PutUnusable(r)
    <2>1. PICK c, b, X : /\ c = MarkDisconnected(conn[s]) /\ b = book[s]
                         /\ X = Release(s, book[s].key)
      BY Zenon
    <2>2. Trades(s, R, X)
      BY <1>1, <1>3, <1>9, <2>1, ReleaseFacts, Zenon DEF PutUnusable, Trades
    <2>3. /\ conn' = [conn EXCEPT ![s] = c] /\ book' = [book EXCEPT ![s] = b] /\ conn[s].here
      BY <1>1, <1>9, <2>1, Zenon DEF PutUnusable, Target, WifiInv, TypeOK
    <2>. QED
      BY <1>4, <1>8, <2>1, <2>2, <2>3, Zenon
  <1>10. CASE PutRefused(r)
    <2>1. Trades(s, R, {}) /\ conn[s].here
      BY <1>1, <1>3, <1>10, Taken DEF PutRefused, Target
    <2>2. CASE TerminalAuthFailure(s)
      BY <1>2, <1>3, <2>1, <2>2, TerminalSound DEF PairKinds
    <2>3. CASE conn' = [conn EXCEPT ![s] = MarkDisconnected(@)] /\ UNCHANGED book
      <3>1. PICK c, b : c = MarkDisconnected(conn[s]) /\ b = book[s]
        OBVIOUS
      <3>2. conn' = [conn EXCEPT ![s] = c] /\ book' = [book EXCEPT ![s] = b]
        BY <2>3, <3>1 DEF WifiInv, TypeOK
      <3>. QED
        BY <1>4, <1>8, <2>1, <3>1, <3>2, Zenon
    <2>4. CASE /\ conn' = [conn EXCEPT ![s] = IF r.intent = "user" /\ r.ans = "down"
                                              THEN MarkDisconnected(@) ELSE MarkStale(@)]
               /\ book' = [book EXCEPT ![s] = ScheduleRetry(@, r.intent)]
      <3>1. PICK c, b : /\ c = IF r.intent = "user" /\ r.ans = "down"
                               THEN MarkDisconnected(conn[s]) ELSE MarkStale(conn[s])
                        /\ b = ScheduleRetry(book[s], r.intent)
        OBVIOUS
      <3>2. conn' = [conn EXCEPT ![s] = c] /\ book' = [book EXCEPT ![s] = b]
        BY <2>4, <3>1, Zenon
      <3>3. /\ b \in Books /\ b.pairing = book[s].pairing
            /\ b.reconciling = book[s].reconciling
        BY <1>4, <3>1, ScheduleFacts, SMTT(30)
      <3>4. c = MarkDisconnected(conn[s]) \/ c = MarkStale(conn[s])
        BY <3>1
      <3>. QED
        BY <1>8, <2>1, <3>2, <3>3, <3>4, Zenon
    <2>. QED
      BY <1>1, <1>10, <2>2, <2>3, <2>4 DEF PutRefused
  <1>. QED
    BY <1>5, <1>6, <1>7, <1>9, <1>10 DEF SessionReply

(* reconcile's reply: the flag it raised is lowered whatever the answer.    *)
LEMMA ReconcileReplySound ==
  ASSUME WifiInv, NEW r \in net, ReconcileReply(r)
  PROVE  WifiInv'
  <1>1. PICK s \in Sats : s = r.sat
    BY NetFacts
  <1>2. r.kind = "get" /\ Frame
    BY DEF ReconcileReply, Frame
  <1>3. PICK b, R : b = Reconciled(s) /\ R = {r}
    BY Zenon
  <1>4. /\ conn[s] \in Conns /\ book[s] \in Books /\ ConnSound(conn[s])
        /\ BookSound(conn[s], book[s], reverse = s, forgotten[s])
        /\ conn[s].state = "Live" => conn[s].here
    BY SatFacts
  <1>5. /\ b \in Books /\ b.key = book[s].key /\ b.remembered = book[s].remembered
        /\ b.pairing = book[s].pairing /\ ~b.reconciling
    BY <1>3, <1>4, Zenon DEF Reconciled, Books
  <1>6. PairKept(s, b, R) /\ \A X : HealKept(s, b, R, X)
    BY <1>2, <1>3, <1>5 DEF PairKept, HealKept, PairKinds
  <1>7. CASE book' = [book EXCEPT ![s] = b] /\ UNCHANGED conn /\ InFlight(net \ {r})
    <2>1. PICK c : c = conn[s]
      OBVIOUS
    <2>2. conn' = [conn EXCEPT ![s] = c] /\ book' = [book EXCEPT ![s] = b]
      BY <1>7, <2>1 DEF WifiInv, TypeOK
    <2>3. Trades(s, R, {})
      BY <1>1, <1>3, <1>7, Taken, Zenon
    <2>4. c \in Conns /\ ConnSound(c) /\ (c.here => conn[s].here)
      BY <1>4, <2>1, Zenon
    <2>5. BookSound(c, b, reverse = s, forgotten[s])
      BY <1>4, <1>5, <2>1 DEF BookSound
    <2>6. LinkKept(s, c, R, {})
      BY <1>2, <1>3, <2>1 DEF LinkKept, LinkKinds
    <2>. QED
      BY <1>2, <1>5, <1>6, <2>2, <2>3, <2>4, <2>5, <2>6, ReplySound, Zenon
  <1>8. CASE /\ conn[s].here /\ book' = [book EXCEPT ![s] = [b EXCEPT !.key = 0]]
             /\ conn' = [conn EXCEPT ![s] = MarkStale(@)] /\ InFlight(net \ {r})
    <2>1. PICK d, c : d = [b EXCEPT !.key = 0] /\ c = MarkStale(conn[s])
      BY Zenon
    <2>2. d \in Books /\ d.pairing = book[s].pairing /\ ~d.reconciling
      BY <1>5, <2>1 DEF Books
    <2>3. conn' = [conn EXCEPT ![s] = c] /\ book' = [book EXCEPT ![s] = d]
      BY <1>8, <2>1
    <2>4. Trades(s, R, {})
      BY <1>1, <1>3, <1>8, Taken, Zenon
    <2>5. PairKept(s, d, R) /\ HealKept(s, d, R, {})
      BY <1>2, <1>3, <2>2 DEF PairKept, HealKept, PairKinds
    <2>. QED
      BY <1>2, <1>8, <2>1, <2>2, <2>3, <2>4, <2>5, EndedSound, Zenon
  <1>9. CASE /\ conn[s].here /\ CanSend(s, "put") /\ book' = [book EXCEPT ![s] = b]
             /\ conn' = [conn EXCEPT ![s] = MarkConnecting(MarkDisconnected(@))]
             /\ InFlight((net \ {r}) \cup {Request(s, "put", "silent", b.key)})
    <2>1. PICK d, c, x : /\ d = MarkDisconnected(conn[s]) /\ c = MarkConnecting(d)
                         /\ x = Request(s, "put", "silent", b.key)
      OBVIOUS
    <2>2. conn' = [conn EXCEPT ![s] = c]
      BY <1>9, <2>1
    <2>3. d \in Conns /\ d.here /\ ConnSound(d)
      BY <1>4, <1>9, <2>1, Ended, Zenon
    <2>4. c \in Conns /\ c.here /\ ConnSound(c)
      BY <2>1, <2>3, Dialling
    <2>5. b.key \in Keys \cup {0} /\ CanSend(s, "put") /\ "put" \in Kinds
      BY <1>5, <1>9, Zenon DEF Books, Kinds
    <2>6. x \in Requests /\ x.sat = s /\ x.kind = "put" /\ x.mine /\ Granted(x)
      BY <2>1, <2>5, RequestMade, SMTT(30)
    <2>7. Trades(s, R, {x})
      BY <1>1, <1>3, <1>9, <2>1, <2>6 DEF Trades
    <2>8. BookSound(c, b, reverse = s, forgotten[s])
      BY <1>4, <1>9, <2>4, Zenon DEF BookSound
    <2>9. LinkKept(s, c, R, {x}) /\ HealKept(s, b, R, {x})
      BY <1>5, <2>6 DEF LinkKept, HealKept, LinkKinds
    <2>. QED
      BY <1>2, <1>5, <1>6, <1>9, <2>2, <2>4, <2>7, <2>8, <2>9, ReplySound, Zenon
  <1>. QED
    BY <1>1, <1>3, <1>7, <1>8, <1>9 DEF ReconcileReply

(* onRekeyReply: a refused key ends the session, new material keeps it.     *)
LEMMA RekeyReplySound ==
  ASSUME WifiInv, NEW r \in net, RekeyReply(r)
  PROVE  WifiInv'
  <1>1. PICK s \in Sats : s = r.sat
    BY NetFacts
  <1>2. r.kind = "rekey" /\ Frame
    BY DEF RekeyReply, Frame
  <1>3. PICK R : R = {r}
    BY Zenon
  <1>4. Trades(s, R, {})
    BY <1>1, <1>3, Taken DEF RekeyReply
  <1>5. CASE conn[s].here /\ TerminalAuthFailure(s)
    BY <1>2, <1>3, <1>4, <1>5, TerminalSound DEF PairKinds
  <1>6. CASE UNCHANGED <<conn, book>>
    BY <1>1, <1>2, <1>3, <1>4, <1>6, DroppedSound DEF PairKinds, LinkKinds
  <1>7. CASE /\ conn[s].here /\ conn[s].state = "Live" /\ r.ans = "ok" /\ UNCHANGED book
             /\ conn' = [conn EXCEPT ![s] = [@ EXCEPT !.token = r.val, !.rekeyed = FALSE]]
    <2>1. PICK c, b : /\ c = [conn[s] EXCEPT !.token = r.val, !.rekeyed = FALSE]
                      /\ b = book[s]
      OBVIOUS
    <2>2. conn' = [conn EXCEPT ![s] = c] /\ book' = [book EXCEPT ![s] = b]
      BY <1>7, <2>1, Zenon DEF WifiInv, TypeOK
    <2>3. /\ conn[s] \in Conns /\ book[s] \in Books
          /\ BookSound(conn[s], book[s], reverse = s, forgotten[s])
      BY SatFacts
    <2>4. r.val \in Tokens
      BY <1>2, <1>7, NetFacts DEF Granted
    <2>5. c \in Conns /\ c.here /\ c.state = "Live" /\ c.token = r.val
      BY <1>7, <2>1, <2>3, <2>4, Zenon DEF Conns
    <2>6. ConnSound(c)
      BY <2>4, <2>5, TokenAssumption DEF ConnSound, Steady
    <2>7. BookSound(c, b, reverse = s, forgotten[s])
      BY <1>7, <2>1, <2>3, <2>5 DEF BookSound
    <2>8. LinkKept(s, c, R, {}) /\ PairKept(s, b, R) /\ HealKept(s, b, R, {})
      BY <1>2, <1>3, <2>1, <2>5 DEF LinkKept, PairKept, HealKept, PairKinds
    <2>. QED
      BY <1>2, <1>4, <1>7, <2>1, <2>2, <2>3, <2>5, <2>6, <2>7, <2>8, ReplySound, Zenon
  <1>. QED
    BY <1>1, <1>5, <1>6, <1>7 DEF RekeyReply

(* syncSlot's reply: a reconcile it asks for comes with its GET.            *)
LEMMA SlotReplySound ==
  ASSUME WifiInv, NEW r \in net, SlotReply(r)
  PROVE  WifiInv'
  <1>1. PICK s \in Sats : s = r.sat
    BY NetFacts
  <1>2. r.kind = "ctl" /\ Frame
    BY DEF SlotReply, Frame, Events
  <1>3. PICK R : R = {r}
    BY Zenon
  <1>4. CASE conn[s].here /\ TerminalAuthFailure(s) /\ InFlight(net \ {r})
    <2>1. Trades(s, R, {})
      BY <1>1, <1>3, <1>4, Taken
    <2>. QED
      BY <1>2, <1>3, <1>4, <2>1, TerminalSound, SMTT(30) DEF PairKinds
  <1>5. CASE UNCHANGED <<conn, book>> /\ InFlight(net \ {r})
    <2>1. Trades(r.sat, {r}, {})
      BY <1>5, Taken
    <2>. QED
      BY <1>2, <1>5, <2>1, DroppedSound, Zenon DEF PairKinds, LinkKinds
  <1>6. CASE /\ conn[s].here /\ CanSend(s, "get") /\ UNCHANGED conn
             /\ book' = [book EXCEPT ![s].reconciling = TRUE]
             /\ InFlight((net \ {r}) \cup {Request(s, "get", "silent", book[s].key)})
    <2>1. PICK c, b, x : /\ c = conn[s] /\ b = [book[s] EXCEPT !.reconciling = TRUE]
                         /\ x = Request(s, "get", "silent", book[s].key)
      BY Zenon
    <2>2. conn' = [conn EXCEPT ![s] = c] /\ book' = [book EXCEPT ![s] = b]
      BY <1>6, <2>1, ZenonT(30) DEF WifiInv, TypeOK
    <2>3. /\ conn[s] \in Conns /\ book[s] \in Books /\ ConnSound(conn[s])
          /\ BookSound(conn[s], book[s], reverse = s, forgotten[s])
          /\ book[s].key \in Keys \cup {0}
      BY SatFacts DEF Books
    <2>4. /\ b \in Books /\ b.pairing = book[s].pairing
      BY <2>1, <2>3, Zenon DEF Books
    <2>5. x \in Requests /\ x.sat = s /\ x.kind = "get" /\ x.mine /\ Granted(x)
      BY <1>6, <2>1, <2>3, RequestMade DEF Kinds
    <2>6. Trades(s, R, {x})
      BY <1>1, <1>3, <1>6, <2>1, <2>5 DEF Trades
    <2>7. c \in Conns /\ ConnSound(c) /\ (c.here => conn[s].here)
      BY <2>1, <2>3
    <2>8. BookSound(c, b, reverse = s, forgotten[s])
      BY <1>6, <2>1, <2>3 DEF BookSound
    <2>9. LinkKept(s, c, R, {x}) /\ PairKept(s, b, R) /\ HealKept(s, b, R, {x})
      BY <1>2, <1>3, <2>1, <2>4, <2>5 DEF LinkKept, PairKept, HealKept, PairKinds, LinkKinds
    <2>. QED
      BY <1>2, <2>2, <2>4, <2>6, <2>7, <2>8, <2>9, ReplySound, Zenon
  <1>. QED
    BY <1>1, <1>4, <1>5, <1>6 DEF SlotReply

(* The ticks that end a session.                                            *)
LEMMA TickEndsSound ==
  ASSUME WifiInv, NEW s \in Sats, TickClosed(s) \/ TickDead(s)
  PROVE  WifiInv'
  <1>1. conn[s].here /\ book[s] \in Books
    BY SatFacts, Zenon DEF TickClosed, TickDead, HasClient
  <1>2. ASSUME NEW R, R = {}, NEW X, Trades(s, R, X), NEW b \in Books, Frame,
               b.pairing = book[s].pairing, b.reconciling = book[s].reconciling,
               NEW c, c = MarkDisconnected(conn[s]),
               conn' = [conn EXCEPT ![s] = c], book' = [book EXCEPT ![s] = b]
        PROVE  WifiInv'
    <2>1. PairKept(s, b, R) /\ HealKept(s, b, R, X)
      BY <1>2, Zenon DEF PairKept, HealKept
    <2>. QED
      BY <1>1, <1>2, <2>1, EndedSound, Zenon
  <1>3. CASE TickClosed(s)
    <2>1. PICK R : R = {}
      BY Zenon
    <2>2. Frame /\ InFlight(net)
      BY <1>3 DEF TickClosed, Frame
    <2>3. net = (net \ R) \cup {}
      BY <2>1
    <2>4. Trades(s, R, {})
      BY <2>1, <2>2, <2>3, Zenon DEF Trades
    <2>5. CASE TerminalAuthFailure(s)
      BY <1>1, <2>1, <2>2, <2>4, <2>5, TerminalSound, SMTT(30)
    <2>6. CASE /\ conn' = [conn EXCEPT ![s] = MarkDisconnected(@)]
               /\ book' = [book EXCEPT ![s] =
                              IF notice[s] = "gone" THEN ScheduleRetry(@, "silent") ELSE @]
      <3>1. PICK c, b : /\ c = MarkDisconnected(conn[s])
                        /\ b = IF notice[s] = "gone" THEN ScheduleRetry(book[s], "silent")
                               ELSE book[s]
        OBVIOUS
      <3>2. conn' = [conn EXCEPT ![s] = c] /\ book' = [book EXCEPT ![s] = b]
        BY <2>6, <3>1, Zenon
      <3>3. b \in Books /\ b.pairing = book[s].pairing /\ b.reconciling = book[s].reconciling
        BY <1>1, <3>1, ScheduleFacts
      <3>. QED
        BY <1>2, <2>1, <2>2, <2>4, <3>1, <3>2, <3>3, Zenon
    <2>. QED
      BY <1>3, <2>5, <2>6 DEF TickClosed
  <1>4. CASE TickDead(s)
    <2>1. PICK R, X : R = {} /\ X = ReleaseOnDisconnect(s)
      BY Zenon
    <2>2. /\ Frame /\ InFlight(net \cup X) /\ CanSend(s, "delete")
      BY <1>4, <2>1 DEF TickDead, Frame, Events
    <2>3. net \cup X = (net \ R) \cup X
      BY <2>1
    <2>4. \A x \in X : x \in Requests /\ Granted(x)
      BY <2>1, <2>2, ReleaseFacts
    <2>5. Trades(s, R, X)
      BY <2>1, <2>2, <2>3, <2>4 DEF Trades
    <2>6. PICK c, g, b : /\ c = MarkDisconnected(conn[s]) /\ g = NextGeneration(book[s])
                         /\ b = ScheduleRetry(g, "silent")
      BY Zenon
    <2>7. conn' = [conn EXCEPT ![s] = c] /\ book' = [book EXCEPT ![s] = b]
      BY <1>4, <2>6, Zenon DEF TickDead
    <2>8. g \in Books /\ g.pairing = book[s].pairing /\ g.reconciling = book[s].reconciling
      BY <1>1, <2>6, GenerationFacts, Zenon
    <2>9. b \in Books /\ b.pairing = book[s].pairing /\ b.reconciling = book[s].reconciling
      BY <2>6, <2>8, ScheduleFacts
    <2>. QED
      BY <1>2, <2>1, <2>2, <2>5, <2>6, <2>7, <2>9, Zenon
  <1>. QED
    BY <1>3, <1>4

(* What a tick asks of the satellite: the drifted slots, and a new key.     *)
TickAsks(s, steady, E) ==
  (IF "drift" \in E THEN {"get"} ELSE {}) \cup
  (IF "rekey" \in E /\ steady = "Live" /\ book[s].key # 0 THEN {"rekey"} ELSE {})

(* The tick of a session that goes on.                                      *)
LEMMA TickAliveSound ==
  ASSUME WifiInv, NEW s \in Sats, TickAlive(s)
  PROVE  WifiInv'
  <1>a. PICK steady \in Steady, E \in SUBSET {"fault", "drift", "rekey"} :
          /\ \A e \in E : left[e] > 0
          /\ left' = [e \in Events |-> IF e \in E THEN left[e] - 1 ELSE left[e]]
          /\ \A k \in TickAsks(s, steady, E) : CanSend(s, k)
          /\ conn' = [conn EXCEPT ![s] = [conn[s] EXCEPT !.state = steady,
                                                        !.rekeyed = @ \/ "rekey" \in E]]
          /\ book' = [book EXCEPT ![s].reconciling = @ \/ "drift" \in E]
          /\ InFlight(net \cup {Request(s, k, "silent", book[s].key) :
                                  k \in TickAsks(s, steady, E)})
    BY Zenon DEF TickAlive, TickAsks
  <1>b. TickAsks(s, steady, E) \in SUBSET {"get", "rekey"}
    BY DEF TickAsks
  <1>1. PICK ks \in SUBSET {"get", "rekey"} :
          /\ ks = TickAsks(s, steady, E)
          /\ \A k \in ks : CanSend(s, k)
          /\ InFlight(net \cup {Request(s, k, "silent", book[s].key) : k \in ks})
    BY <1>a, <1>b, Zenon
  <1>2. conn[s].token # 0 /\ UNCHANGED <<scanning, reverse, srv, notice, asleep, forgotten>>
    BY DEF TickAlive, HasClient
  <1>3. /\ conn[s] \in Conns /\ book[s] \in Books /\ conn[s].here
        /\ BookSound(conn[s], book[s], reverse = s, forgotten[s])
        /\ book[s].key \in Keys \cup {0}
    BY <1>2, SatFacts DEF Books
  <1>4. /\ TypeOK /\ forgotten \in [Sats -> BOOLEAN] /\ left \in [Events -> Nat]
        /\ conn \in [Sats -> Conns] /\ book \in [Sats -> Books]
    BY Zenon DEF WifiInv, TypeOK
  <1>5. TypeRest'
    <2>1. left' \in [Events -> Nat]
      BY <1>a, <1>4
    <2>. QED
      BY <1>2, <1>4, <2>1, Zenon DEF TypeRest, TypeOK
  <1>6. PICK k1 \in BOOLEAN, k2 \in BOOLEAN :
          /\ k1 = (conn[s].rekeyed \/ "rekey" \in E)
          /\ k2 = (book[s].reconciling \/ "drift" \in E)
    BY Zenon
  <1>7. PICK c, b : /\ c = [conn[s] EXCEPT !.state = steady, !.rekeyed = k1]
                    /\ b = [book[s] EXCEPT !.reconciling = k2]
    BY Zenon
  <1>8. conn' = [conn EXCEPT ![s] = c]
    BY <1>a, <1>6, <1>7, Zenon
  <1>9. book' = [book EXCEPT ![s] = b]
    BY <1>a, <1>6, <1>7, Zenon
  <1>10. c \in Conns /\ c.here /\ c.state = steady /\ c.token = conn[s].token
    BY <1>3, <1>7, Zenon DEF Conns, Steady, States
  <1>11. b \in Books /\ b.pairing = book[s].pairing /\ b.reconciling = k2
    BY <1>3, <1>7, SMTT(30) DEF Books
  <1>12. ConnSound(c) /\ c.state # "Linking"
    BY <1>2, <1>10 DEF ConnSound, Steady
  <1>13. PICK X : X = {Request(s, k, "silent", book[s].key) : k \in ks}
    BY Zenon
  <1>14. ASSUME NEW k \in ks
         PROVE  /\ Request(s, k, "silent", book[s].key) \in Requests
                /\ Granted(Request(s, k, "silent", book[s].key))
                /\ Request(s, k, "silent", book[s].key).sat = s
                /\ Request(s, k, "silent", book[s].key).kind = k
    <2>1. PICK kind \in Kinds, intent \in {"user", "silent"}, key \in Keys \cup {0} :
            kind = k /\ intent = "silent" /\ key = book[s].key
      BY <1>3 DEF Kinds
    <2>2. CanSend(s, kind)
      BY <1>1, <2>1, Zenon
    <2>3. /\ Request(s, kind, intent, key) \in Requests
          /\ Granted(Request(s, kind, intent, key))
          /\ Request(s, kind, intent, key).sat = s
          /\ Request(s, kind, intent, key).kind = kind
      BY <2>2, RequestMade
    <2>. QED
      BY <2>1, <2>3, Zenon
  <1>15. \A x \in X : x \in Requests /\ Granted(x)
    BY <1>13, <1>14
  <1>16. "drift" \in E => \E x \in X : x.sat = s /\ x.kind = "get"
    BY <1>1, <1>13, <1>14 DEF TickAsks
  <1>17. b.reconciling => book[s].reconciling \/ \E x \in X : x.sat = s /\ x.kind = "get"
    BY <1>6, <1>11, <1>16, Zenon
  <1>18. InFlight((net \ {}) \cup X)
    BY <1>1, <1>13, Zenon
  <1>19. BookSound(c, b, reverse' = s, forgotten'[s])
    BY <1>2, <1>3, <1>10, Zenon DEF BookSound
  <1>20. /\ reverse' \in {reverse, "none"} /\ forgotten' \in [Sats -> BOOLEAN]
         /\ \A t \in Sats \ {s} : forgotten'[t] = forgotten[t]
         /\ b.pairing => book[s].pairing /\ (c.here => conn[s].here)
    BY <1>2, <1>3, <1>4, <1>11
  <1>. QED
    BY <1>5, <1>8, <1>9, <1>10, <1>11, <1>12, <1>15, <1>17, <1>18, <1>19, <1>20, StepSound, Zenon

----------------------------------------------------------------------------
(* The results.                                                             *)

(* At launch there is no connection and nothing in flight.                  *)
LEMMA InitSound == Init => WifiInv
  <1>. SUFFICES ASSUME Init PROVE WifiInv
    OBVIOUS
  <1>1. OldKey \in Keys
    BY KeyAssumption DEF OldKey
  <1>2. NoConn \in Conns /\ ConnSound(NoConn) /\ NoConn.state = "Idle" /\ ~NoConn.here
    BY Zenon DEF NoConn, Conns, States, ConnSound, Steady
  <1>3. conn \in [Sats -> Conns] /\ \A s \in Sats : conn[s] = NoConn
    BY <1>2, Zenon DEF Init
  <1>4. ASSUME NEW s \in Sats
        PROVE  book[s] \in Books /\ ~book[s].pairing /\ ~book[s].reconciling
    <2>1. PICK k \in {0, OldKey}, m \in BOOLEAN :
            book[s] = [key |-> k, remembered |-> m, pairing |-> FALSE,
                       held |-> FALSE, reconciling |-> FALSE, armed |-> 0]
      BY DEF Init
    <2>2. 0 \in 0 .. MaxTimers
      BY TimerAssumption, SMTT(30)
    <2>. QED
      BY <1>1, <2>1, <2>2, SMTT(30) DEF Books
  <1>5. book \in [Sats -> Books]
    BY <1>4, SMTT(30) DEF Init
  <1>6. srv \in [Sats -> [key : Keys \cup {0}, token : Tokens \cup {0}]]
    BY <1>1, SMTT(30) DEF Init
  <1>7. /\ notice \in [Sats -> {"none", "unpaired", "replaced", "gone"}]
        /\ left \in [Events -> Nat] /\ net \subseteq Requests
        /\ reverse \in Sats \cup {"none"}
    BY BudgetAssumption DEF Init
  <1>8. forgotten \in [Sats -> BOOLEAN]
    BY Zenon DEF Init
  <1>9. scanning \in BOOLEAN /\ asleep \in BOOLEAN
    BY Zenon DEF Init
  <1>10. TypeOK
    BY <1>3, <1>5, <1>6, <1>7, <1>8, <1>9, Zenon DEF TypeOK
  <1>11. GrantsCarry
    BY Zenon DEF Init, GrantsCarry
  <1>12. ASSUME NEW s \in Sats PROVE SatSound(s)
    <2>1. forgotten[s] => ~book[s].remembered /\ book[s].key = 0
      BY Zenon DEF Init
    <2>2. reverse # s
      BY NoneAssumption, Zenon DEF Init
    <2>3. BookSound(conn[s], book[s], reverse = s, forgotten[s])
      BY <1>2, <1>3, <1>4, <2>1, <2>2 DEF BookSound
    <2>4. Backed(s, conn[s], book[s], net)
      BY <1>2, <1>3, <1>4, Zenon DEF Backed
    <2>. QED
      BY <1>2, <1>3, <2>3, <2>4 DEF SatSound
  <1>. QED
    BY <1>10, <1>11, <1>12 DEF WifiInv

(* Every step keeps the invariant.                                          *)
LEMMA NextSound == WifiInv /\ [Next]_vars => WifiInv'
  <1>. SUFFICES ASSUME WifiInv, [Next]_vars PROVE WifiInv'
    OBVIOUS
  <1>1. CASE UNCHANGED vars
    <2>1. TypeOK'
      BY <1>1, Zenon DEF vars, TypeOK, WifiInv
    <2>2. GrantsCarry'
      BY <1>1 DEF vars, GrantsCarry, WifiInv
    <2>3. ASSUME NEW s \in Sats PROVE SatSound(s)'
      BY <1>1, Zenon DEF vars, SatSound, WifiInv
    <2>. QED
      BY <2>1, <2>2, <2>3 DEF WifiInv
  <1>2. CASE AutoReconnectAll \/ ScanFinished \/ ResumeFromSleep
    BY <1>2, SweepSound
  <1>3. CASE StartDiscovery \/ CancelReversePairing \/ \E s \in Sats : SlotChanged(s)
    BY <1>3, AsideSound
  <1>4. CASE PrepareForSleep
    BY <1>4, SleepSound
  <1>5. ASSUME NEW s \in Sats, UserConnect(s) \/ RetryDue(s) PROVE WifiInv'
    BY <1>5, UserConnectSound, RetryDueSound
  <1>6. ASSUME NEW s \in Sats, PairWithPin(s) \/ RequestReversePairing(s) PROVE WifiInv'
    BY <1>6, PairWithPinSound, ReverseRequestSound
  <1>7. ASSUME NEW s \in Sats, DisconnectByUser(s) \/ Forget(s) PROVE WifiInv'
    BY <1>7, DisconnectSound, ForgetSound
  <1>8. ASSUME NEW s \in Sats, TickClosed(s) \/ TickDead(s) \/ TickAlive(s) PROVE WifiInv'
    BY <1>8, TickEndsSound, TickAliveSound
  <1>9. ASSUME NEW s \in Sats, OperatorApproves(s) \/ CloseSession(s) PROVE WifiInv'
    BY <1>9, SatelliteSound
  <1>10. ASSUME NEW r \in net, Reply(r) PROVE WifiInv'
    BY <1>10, PairReplySound, ApprovalSound, SessionReplySound, ReconcileReplySound,
       RekeyReplySound, SlotReplySound DEF Reply
  <1>11. ASSUME NEW r \in net, Serve(r) \/ Lose(r) PROVE WifiInv'
    BY <1>11, ServedSound
  <1>. QED
    BY <1>1, <1>2, <1>3, <1>4, <1>5, <1>6, <1>7, <1>8, <1>9, <1>10, <1>11, SMTT(30) DEF Next

(* The invariant holds at every step of the manager.                        *)
THEOREM WifiHolds == Spec => []WifiInv
  BY InitSound, NextSound, PTL DEF Spec

(* No connection shows "Connecting" without a request of its own in flight  *)
(* that ends it: markConnecting is always followed by a request whose reply *)
(* finds the same connection.                                               *)
THEOREM LinkingAnswered == Spec => []LinkingIsAnswered
  <1>1. WifiInv => LinkingIsAnswered
    BY Zenon DEF WifiInv, SatSound, Backed, Awaits, LinkKinds, LinkingIsAnswered
  <1>. QED
    BY <1>1, WifiHolds, PTL

(* The client, with its socket and threads, exists in the two steady states *)
(* and in no other, and every variable keeps its type.                      *)
THEOREM ClientOnlyWhenSteady == Spec => []SteadyIffClient
  <1>1. WifiInv => SteadyIffClient
    BY Zenon DEF WifiInv, SatSound, ConnSound, SteadyIffClient
  <1>. QED
    BY <1>1, WifiHolds, PTL

(* What the user forgot is brought back by no late reply, approval, scan or *)
(* retry.                                                                   *)
THEOREM ForgottenGone == Spec => []ForgottenStaysGone
  <1>1. WifiInv => ForgottenStaysGone
    BY Zenon DEF WifiInv, SatSound, BookSound, ForgottenStaysGone
  <1>. QED
    BY <1>1, WifiHolds, PTL

(* The spinner of a row is backed by a pair request in flight.              *)
THEOREM PairingBacked == Spec => []PairingFlagIsBacked
  <1>1. WifiInv => PairingFlagIsBacked
    BY Zenon DEF WifiInv, SatSound, Backed, Awaits, PairingFlagIsBacked
  <1>. QED
    BY <1>1, WifiHolds, PTL

(* The single-flight flag of the self-heal loop is backed by a GET.         *)
THEOREM ReconcileBacked == Spec => []ReconcileFlagIsBacked
  <1>1. WifiInv => ReconcileFlagIsBacked
    BY Zenon DEF WifiInv, SatSound, Backed, Awaits, ReconcileFlagIsBacked
  <1>. QED
    BY <1>1, WifiHolds, PTL

----------------------------------------------------------------------------
(* Held satellites.                                                         *)
HeldStep ==
  \A s \in Sats :
    /\ book[s].held /\ book'[s].held
    /\ conn[s].state \in Down /\ conn'[s].state \notin Down
    => reverse = s /\ reverse' = "none"

(* A step that changes one connection raises a held satellite only if that  *)
(* one was down, comes up and is held still.                                *)
LEMMA OneRises ==
  ASSUME WifiInv, NEW s \in Sats, NEW c, conn' = [conn EXCEPT ![s] = c],
         \/ c.state \in Down
         \/ conn[s].state \notin Down
         \/ ~book'[s].held
         \/ reverse = s /\ reverse' = "none"
  PROVE  HeldStep
  BY Zenon DEF WifiInv, TypeOK, HeldStep

(* connectTo leaves a held satellite alone, unless it is the user's.        *)
LEMMA ConnectToHeld ==
  ASSUME WifiInv, NEW S, NEW intent \in {"user", "silent"}, ConnectTo(S, intent),
         intent = "user" => \A s \in S : ~book'[s].held
  PROVE  HeldStep
  <1>1. ASSUME NEW s \in Sats, conn'[s] # conn[s] PROVE s \in Dialled(S, intent)
    BY <1>1 DEF ConnectTo
  <1>2. ASSUME NEW s \in Dialled(S, intent) PROVE s \in S /\ (intent = "user" \/ ~book[s].held)
    BY DEF Dialled, Reached
  <1>. QED
    BY <1>1, <1>2, Zenon DEF HeldStep

(* The user's own actions, sleep and the ticks.                             *)
LEMMA ActionHeld ==
  ASSUME WifiInv, NEW s \in Sats,
         \/ PairWithPin(s) \/ RequestReversePairing(s) \/ DisconnectByUser(s) \/ Forget(s)
         \/ TickClosed(s) \/ TickDead(s) \/ TickAlive(s)
  PROVE  HeldStep
  <1>1. /\ conn[s] \in Conns /\ book[s] \in Books /\ book \in [Sats -> Books]
        /\ MarkDisconnected(conn[s]).state \in Down /\ MarkStale(conn[s]).state \in Down
        /\ Disconnected(conn[s]).state \in Down
    BY SatFacts, Ended, DisconnectFacts DEF Down, WifiInv, TypeOK
  <1>2. CASE PairWithPin(s)
    <2>1. PICK c : conn' = [conn EXCEPT ![s] = c]
      BY <1>2, Zenon DEF PairWithPin
    <2>2. PICK posts \in BOOLEAN : book' = [book EXCEPT ![s] = PairAsked(@, posts)]
      BY <1>2, Zenon DEF PairWithPin
    <2>3. ~book'[s].held
      BY <1>1, <2>2, PairAskedFacts, Zenon
    <2>. QED
      BY <2>1, <2>3, OneRises, Zenon
  <1>3. CASE RequestReversePairing(s)
    <2>1. PICK c : conn' = [conn EXCEPT ![s] = c]
      BY <1>3, Zenon DEF RequestReversePairing
    <2>2. book' = [book EXCEPT ![s] = PairAsked(@, TRUE)]
      BY <1>3 DEF RequestReversePairing
    <2>3. ~book'[s].held
      BY <1>1, <2>2, PairAskedFacts, Zenon
    <2>. QED
      BY <2>1, <2>3, OneRises, Zenon
  <1>4. CASE DisconnectByUser(s) \/ Forget(s)
    <2>1. PICK c : conn' = [conn EXCEPT ![s] = c] /\ (c = Disconnected(conn[s]) \/ c = NoConn)
      BY <1>4, Zenon DEF DisconnectByUser, Forget
    <2>2. c.state \in Down
      BY <1>1, <2>1 DEF NoConn, Down
    <2>. QED
      BY <2>1, <2>2, OneRises, Zenon
  <1>5. CASE TickClosed(s) \/ TickDead(s)
    <2>1. PICK c : /\ conn' = [conn EXCEPT ![s] = c]
                   /\ c = MarkDisconnected(conn[s]) \/ c = MarkStale(conn[s])
      BY <1>5 DEF TickClosed, TickDead, TerminalAuthFailure
    <2>. QED
      BY <1>1, <2>1, OneRises, Zenon
  <1>6. CASE TickAlive(s)
    <2>1. PICK c : conn' = [conn EXCEPT ![s] = c]
      BY <1>6, Zenon DEF TickAlive
    <2>2. conn[s].state \notin Down
      BY <1>6, Zenon DEF TickAlive, Steady, Down
    <2>. QED
      BY <2>1, <2>2, OneRises, Zenon
  <1>. QED
    BY <1>2, <1>3, <1>4, <1>5, <1>6, ZenonT(30)

(* The replies: only an adopted approval takes a connection up from down.   *)
LEMMA ReplyHeld ==
  ASSUME WifiInv, NEW r \in net, Reply(r)
  PROVE  HeldStep
  <1>1. PICK s \in Sats : s = r.sat
    BY NetFacts
  <1>2. /\ conn[s] \in Conns
        /\ MarkDisconnected(conn[s]).state \in Down /\ MarkStale(conn[s]).state \in Down
    BY SatFacts, Ended DEF Down
  <1>3. CASE UNCHANGED conn
    BY <1>3 DEF HeldStep
  <1>4. ASSUME NEW c, conn' = [conn EXCEPT ![s] = c],
               c = MarkDisconnected(conn[s]) \/ c = MarkStale(conn[s])
        PROVE  HeldStep
    BY <1>2, <1>4, OneRises, Zenon
  <1>5. CASE PairReply(r)
    <2>1. \/ UNCHANGED conn
          \/ conn' = [conn EXCEPT ![s] = MarkStale(conn[s])]
          \/ conn' = [conn EXCEPT ![s] = PairFailed(conn[s], r)]
      BY <1>1, <1>5 DEF PairReply
    <2>2. PairFailed(conn[s], r) \in {MarkDisconnected(conn[s]), MarkStale(conn[s])}
      BY Zenon DEF PairFailed
    <2>. QED
      BY <1>3, <1>4, <2>1, <2>2
  <1>6. CASE ReversePairReply(r) \/ PollReply(r)
    <2>1. \/ UNCHANGED conn
          \/ /\ conn' = [conn EXCEPT ![s] = MarkConnecting(EnsureConnection(conn[s]))]
             /\ reverse = s /\ reverse' = "none"
          \/ /\ conn' = [conn EXCEPT ![s] = MarkStale(EnsureConnection(conn[s]))]
             /\ reverse = s /\ reverse' = "none"
      BY <1>1, <1>6 DEF ReversePairReply, PollReply, AdoptGrant, AdoptUnusable
    <2>. QED
      BY <1>3, <2>1, OneRises
  <1>7. CASE SessionReply(r)
    <2>1. CASE PutGranted(r)
      <3>1. /\ conn' = [conn EXCEPT ![s] = MarkConnected(conn[s], r.val)]
            /\ conn[s].state \notin Down
        BY <1>1, <2>1, Zenon DEF PutGranted, Down
      <3>. QED
        BY <3>1, OneRises, Zenon
    <2>2. CASE PutSuperseded(r) \/ PutLate(r)
      BY <1>3, <2>2 DEF PutSuperseded, PutLate
    <2>3. CASE PutUnusable(r) \/ PutRefused(r)
      <3>1. \/ conn' = [conn EXCEPT ![s] = MarkDisconnected(conn[s])]
            \/ conn' = [conn EXCEPT ![s] = MarkStale(conn[s])]
        BY <1>1, <2>3, Zenon DEF PutUnusable, PutRefused, TerminalAuthFailure
      <3>. QED
        BY <1>4, <3>1
    <2>. QED
      BY <1>7, <2>1, <2>2, <2>3 DEF SessionReply
  <1>8. CASE ReconcileReply(r)
    <2>1. \/ UNCHANGED conn
          \/ conn' = [conn EXCEPT ![s] = MarkStale(conn[s])]
          \/ /\ conn' = [conn EXCEPT ![s] = MarkConnecting(MarkDisconnected(conn[s]))]
             /\ conn[s].state = "Live"
      BY <1>1, <1>8 DEF ReconcileReply
    <2>. QED
      BY <1>3, <1>4, <2>1, OneRises DEF Down
  <1>9. CASE RekeyReply(r)
    <2>1. \/ UNCHANGED conn
          \/ conn' = [conn EXCEPT ![s] = MarkStale(conn[s])]
          \/ /\ conn' = [conn EXCEPT ![s] = [conn[s] EXCEPT !.token = r.val, !.rekeyed = FALSE]]
             /\ conn[s].state = "Live"
      BY <1>1, <1>9 DEF RekeyReply, TerminalAuthFailure
    <2>. QED
      BY <1>3, <1>4, <2>1, OneRises DEF Down
  <1>10. CASE SlotReply(r)
    <2>1. UNCHANGED conn \/ conn' = [conn EXCEPT ![s] = MarkStale(conn[s])]
      BY <1>1, <1>10 DEF SlotReply, TerminalAuthFailure
    <2>. QED
      BY <1>3, <1>4, <2>1
  <1>. QED
    BY <1>5, <1>6, <1>7, <1>8, <1>9, <1>10, ZenonT(30) DEF Reply

(* A satellite the user holds down is brought up by no sweep, scan, retry   *)
(* or late reply: only an approval the user had asked for can.              *)
THEOREM HeldStays == Spec => HeldStaysDown
  <1>1. ASSUME WifiInv, [Next]_vars PROVE HeldStep
    <2>1. CASE UNCHANGED vars
      BY <2>1, Zenon DEF vars, HeldStep
    <2>2. CASE AutoReconnectAll \/ ScanFinished \/ ResumeFromSleep
      <3>1. ConnectTo(AutoTargets, "silent")
        BY <2>2 DEF AutoReconnectAll, ScanFinished, ResumeFromSleep
      <3>. QED
        BY <1>1, <3>1, ConnectToHeld, Zenon
    <2>3. CASE StartDiscovery \/ CancelReversePairing
      BY <2>3, Zenon DEF StartDiscovery, CancelReversePairing, HeldStep
    <2>4. CASE PrepareForSleep
      <3>1. \A s \in Sats : conn'[s].state \in Down
        BY <1>1, <2>4, DisconnectFacts DEF PrepareForSleep, Down
      <3>. QED
        BY <3>1, Zenon DEF HeldStep
    <2>5. ASSUME NEW s \in Sats, UserConnect(s) PROVE HeldStep
      <3>1. ConnectTo({s}, "user") /\ book' = [book EXCEPT ![s] = Connecting(@, s, {s}, "user")]
        BY <2>5 DEF UserConnect
      <3>2. book \in [Sats -> Books]
        BY <1>1, Zenon DEF WifiInv, TypeOK
      <3>3. ~book'[s].held
        BY <3>1, <3>2, ConnectingFields
      <3>. QED
        BY <1>1, <3>1, <3>3, ConnectToHeld
    <2>6. ASSUME NEW s \in Sats, RetryDue(s) PROVE HeldStep
      <3>1. PICK S : ConnectTo(S, "silent")
        BY <2>6 DEF RetryDue
      <3>. QED
        BY <1>1, <3>1, ConnectToHeld, Zenon
    <2>7. ASSUME NEW s \in Sats, SlotChanged(s) \/ OperatorApproves(s) \/ CloseSession(s)
          PROVE  HeldStep
      BY <2>7, Zenon DEF SlotChanged, OperatorApproves, CloseSession, HeldStep
    <2>8. ASSUME NEW s \in Sats,
                 \/ PairWithPin(s) \/ RequestReversePairing(s) \/ DisconnectByUser(s) \/ Forget(s)
                 \/ TickClosed(s) \/ TickDead(s) \/ TickAlive(s)
          PROVE  HeldStep
      BY <1>1, <2>8, ActionHeld, Zenon
    <2>9. ASSUME NEW r \in net, Serve(r) \/ Lose(r) PROVE HeldStep
      BY <2>9 DEF Serve, Lose, HeldStep
    <2>10. ASSUME NEW r \in net, Reply(r) PROVE HeldStep
      BY <1>1, <2>10, ReplyHeld, Zenon
    <2>. QED
      BY <1>1, <2>1, <2>2, <2>3, <2>4, <2>5, <2>6, <2>7, <2>8, <2>9, <2>10 DEF Next
  <1>2. ASSUME WifiInv, [Next]_vars
        PROVE  [\A s \in Sats :
                  /\ book[s].held /\ book'[s].held
                  /\ conn[s].state \in Down /\ conn'[s].state \notin Down
                  => reverse = s /\ reverse' = "none"]_vars
    BY <1>1, <1>2 DEF HeldStep
  <1>. QED
    BY <1>2, WifiHolds, PTL DEF Spec, HeldStaysDown

============================================================================
