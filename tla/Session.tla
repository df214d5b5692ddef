------------------------------ MODULE Session ------------------------------
(***************************************************************************)
(* The request every component module is about: one SQLAlchemy session and *)
(* one READ COMMITTED transaction (core/database.py, core/deps.py).  A     *)
(* request reads and decides in one step (Begin), its writes appear in a   *)
(* later one (the commit of the component), and any error rolls it back.   *)
(* No service takes a lock on what it reads.                               *)
(***************************************************************************)
EXTENDS TLAPS

CONSTANTS
    Requests,   \* bound: requests in flight together
    None        \* no request, no row

VARIABLES
    req,        \* what a request in flight has read and will write
    crossed     \* history: the rows two requests in flight have shared

session == <<req, crossed>>

Refused == None   \* an early return: 403, 404, 409 or 422

SessionInit ==
    /\ req = [q \in Requests |-> None]
    /\ crossed = {}

\* r.key is the row, or the place of a row to insert, the request is about.
Begin(q, r) ==
    /\ req[q] = None
    /\ req' = [req EXCEPT ![q] = r]
    /\ crossed' = crossed \cup {r.key : o \in {x \in Requests : req[x] # None
                                                            /\ req[x].key = r.key}}

End(q) ==
    /\ req[q] # None
    /\ req' = [req EXCEPT ![q] = None]
    /\ UNCHANGED crossed

\* A request reads on: still about the same row.
Continue(q, r) ==
    /\ req[q] # None /\ r.key = req[q].key
    /\ req' = [req EXCEPT ![q] = r]
    /\ UNCHANGED crossed

MutantWholeRow(now, loaded, set) == set

\* The UPDATE of a dirty object: only attributes whose value is not the one the
\* session loaded are in its SET list, the others keep what is committed.
Flush(now, loaded, set) ==
    [a \in DOMAIN now |-> IF set[a] # loaded[a] THEN set[a] ELSE now[a]]

-----------------------------------------------------------------------------
(* What every component may rely on about requests in flight: `crossed`    *)
(* names every row two of them have shared, so that on any other row a     *)
(* request is alone.  Cited by the proofs of the components.               *)

\* Two requests in flight on one row are on a row that has been crossed.
Alone ==
    \A q, o \in Requests :
        q # o /\ req[q] # None /\ req[o] # None /\ req[q].key = req[o].key =>
            req[q].key \in crossed

SessionOK ==
    /\ req = [q \in Requests |-> req[q]]
    /\ Alone

\* No request is in flight when the server starts.
LEMMA SessionStarts == SessionInit => SessionOK
  BY DEF SessionInit, SessionOK, Alone

\* A request that reads meets the ones in flight: their rows are crossed from then on.
LEMMA BeginKeepsAlone ==
  ASSUME SessionOK, NEW q \in Requests, NEW r, Begin(q, r)
  PROVE  /\ SessionOK'
         /\ crossed \subseteq crossed'
         /\ req'[q] = r
         /\ \A o \in Requests \ {q} : req'[o] = req[o]
<1>1. /\ req'[q] = r
      /\ \A o \in Requests \ {q} : req'[o] = req[o]
      /\ req' = [o \in Requests |-> req'[o]]
  BY DEF Begin, SessionOK
<1>2. crossed \subseteq crossed'
  BY DEF Begin
<1>3. ASSUME NEW o \in Requests \ {q}, req[o] # None, req[o].key = r.key
      PROVE  r.key \in crossed'
  BY <1>3 DEF Begin
<1>4. Alone'
  <2> SUFFICES ASSUME NEW a \in Requests, NEW b \in Requests, a # b,
                      req'[a] # None, req'[b] # None, req'[a].key = req'[b].key
               PROVE  req'[a].key \in crossed'
    BY DEF Alone
  <2>1. CASE a = q
    BY <2>1, <1>1, <1>3
  <2>2. CASE b = q
    BY <2>2, <1>1, <1>3
  <2>3. CASE a # q /\ b # q
    BY <2>3, <1>1, <1>2 DEF SessionOK, Alone
  <2> QED
    BY <2>1, <2>2, <2>3
<1> QED
  BY <1>1, <1>2, <1>4 DEF SessionOK

\* A request that commits or rolls back leaves the others as they are.
LEMMA EndKeepsAlone ==
  ASSUME SessionOK, NEW q \in Requests, End(q)
  PROVE  /\ SessionOK'
         /\ crossed' = crossed
         /\ req[q] # None
         /\ req'[q] = None
         /\ \A o \in Requests \ {q} : req'[o] = req[o]
<1>1. /\ req'[q] = None
      /\ \A o \in Requests \ {q} : req'[o] = req[o]
      /\ req' = [o \in Requests |-> req'[o]]
      /\ crossed' = crossed
      /\ req[q] # None
  BY DEF End, SessionOK
<1>2. Alone'
  BY <1>1 DEF Alone, SessionOK
<1> QED
  BY <1>1, <1>2 DEF SessionOK

\* A request that reads on shares no row it did not share before.
LEMMA ContinueKeepsAlone ==
  ASSUME SessionOK, NEW q \in Requests, NEW r, Continue(q, r)
  PROVE  /\ SessionOK'
         /\ crossed' = crossed
         /\ req[q] # None
         /\ req'[q] = r
         /\ \A o \in Requests \ {q} : req'[o] = req[o]
<1>1. /\ req[q] # None /\ r.key = req[q].key
      /\ req'[q] = r
      /\ \A o \in Requests \ {q} : req'[o] = req[o]
      /\ req' = [o \in Requests |-> req'[o]]
      /\ crossed' = crossed
  BY DEF Continue, SessionOK
<1>2. \A o \in Requests : req'[o].key = req[o].key /\ (req'[o] # None => req[o] # None)
  BY <1>1
<1>3. Alone'
  BY <1>1, <1>2 DEF SessionOK, Alone
<1> QED
  BY <1>1, <1>3 DEF SessionOK

\* A step outside the requests, or a stutter.
LEMMA StillAlone == ASSUME SessionOK, UNCHANGED session PROVE SessionOK'
  BY DEF SessionOK, Alone, session

\* Other requests in flight on the row of one that commits have crossed with it.
LEMMA OthersCrossed ==
  ASSUME SessionOK, NEW q \in Requests, NEW o \in Requests, q # o,
         req[q] # None, req[o] # None, req[q].key = req[o].key
  PROVE  req[q].key \in crossed
  BY DEF SessionOK, Alone

\* An UPDATE keeps the columns its request did not set.
LEMMA FlushColumn ==
  ASSUME NEW now, NEW loaded, NEW set, NEW a \in DOMAIN now
  PROVE  /\ DOMAIN Flush(now, loaded, set) = DOMAIN now
         /\ set[a] = loaded[a] => Flush(now, loaded, set)[a] = now[a]
         /\ set[a] # loaded[a] => Flush(now, loaded, set)[a] = set[a]
  BY DEF Flush
=============================================================================
