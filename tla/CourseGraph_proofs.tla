------------------------ MODULE CourseGraph_proofs ------------------------
(***************************************************************************)
(* Safety of the course graph.                                             *)
(*                                                                         *)
(* With any number of requests in flight: the types, and that dependencies *)
(* join live nodes.  The invariant GraphInv adds what a request remembers  *)
(* from its checks and no other request can take away (Fits).              *)
(*                                                                         *)
(* With one request at a time: the graph is acyclic, a published version   *)
(* is not empty and frozen, an archived course does not change.  SerialInv *)
(* adds that everything a request has checked still holds (Fresh); this is *)
(* the part that concurrent requests break.                                *)
(*                                                                         *)
(* SearchIsRight is about the search of the cycle check, CycleSearch.      *)
(***************************************************************************)
EXTENDS CourseGraph, CycleSearch

OneAtATime == \A c, d \in Editors : c = d

Editing == {"create_node", "update_node", "delete_node", "create_dependency"}

Fits(r) ==
    /\ r.op \in Editing \cup {"delete_dependency", "publish"} => version[r.v] # "absent"
    /\ r.op = "create_version" => r.ruled \subseteq r.copy

GraphInv ==
    /\ TypeOK
    /\ \A d \in Editors : Fits(req[d])
    /\ EdgesJoinLiveNodes

Fresh(r) ==
    /\ r # Idle => course # "archived"
    /\ r.op \in Editing => version[r.v] # "published"
    /\ r.op = "create_dependency" =>
          ~CreatesCycle(Pairs(edges[r.v]), r.e.source, r.e.target)
    /\ r.op = "publish" => nodes[r.v] # {}

SerialInv ==
    /\ GraphInv
    /\ \A d \in Editors : Fresh(req[d])
    /\ Acyclic
    /\ PublishedIsNotEmpty

-----------------------------------------------------------------------------
(* Records and requests.                                                   *)

\* What the operation of a request says about its other fields.
LEMMA RequestFields ==
    ASSUME NEW r \in {Idle} \cup Request
    PROVE  /\ r.op \in Editing \cup {"delete_dependency", "publish", "create_version"}
                 => r.v \in Versions
           /\ r.op \in {"update_node", "delete_node"} => r.n \in Labels
           /\ r.op \in {"create_dependency", "delete_dependency"} => r.e \in Edge
           /\ r.op = "create_version" => /\ r.src \in Versions \cup {0}
                                         /\ r.copy \subseteq Labels
                                         /\ r.ruled \subseteq Labels
           /\ r.op = "set_status" => r.to \in Statuses
           /\ r.op = "idle" <=> r = Idle
BY DEF Idle, Request, Editing

\* A version that does not exist yet has no nodes and no dependencies.
LEMMA AbsentIsEmpty ==
    ASSUME GraphInv, NEW v \in Versions, version[v] = "absent"
    PROVE  nodes[v] = {} /\ rules[v] = {} /\ edges[v] = {}
BY DEF GraphInv, TypeOK, EdgesJoinLiveNodes, Edge

\* Fewer dependencies are fewer pairs for the cycle check.
LEMMA PairsMonotone ==
    ASSUME NEW E, NEW F, F \subseteq E
    PROVE  Pairs(F) \subseteq Pairs(E)
BY DEF Pairs

-----------------------------------------------------------------------------
(* Any number of requests.                                                 *)

\* A course starts without versions, so every part holds of nothing.
LEMMA InitGraphInv == Init => GraphInv
BY DEF Init, GraphInv, TypeOK, Fits, Idle, Editing, EdgesJoinLiveNodes, Statuses

\* A request that got past its checks changes none of the tables.
LEMMA StartGraphInv ==
    ASSUME GraphInv, NEW d \in Editors, NEW r \in Request, Fits(r), Start(d, r)
    PROVE  GraphInv'
<1> USE DEF GraphInv, Start, graph
<1>1. TypeOK'
    BY DEF TypeOK
<1>2. \A c \in Editors : Fits(req[c])'
    BY DEF TypeOK, Fits
<1>3. EdgesJoinLiveNodes'
    BY DEF EdgesJoinLiveNodes
<1> QED BY <1>1, <1>2, <1>3

\* Every request that gets past its checks fits.
LEMMA BeginFits ==
    ASSUME GraphInv, NEW d \in Editors, Begin(d)
    PROVE  \E r \in Request : Fits(r) /\ Start(d, r)
<1>1. ASSUME NEW v \in Versions, NEW rule \in BOOLEAN, BeginCreateNode(d, v, rule)
      PROVE  \E r \in Request : Fits(r) /\ Start(d, r)
    BY <1>1 DEF BeginCreateNode, Editable, Found, Request, Fits, Editing
<1>2. ASSUME NEW v \in Versions, NEW n \in Labels, NEW rule \in BOOLEAN,
             BeginUpdateNode(d, v, n, rule)
      PROVE  \E r \in Request : Fits(r) /\ Start(d, r)
    BY <1>2 DEF BeginUpdateNode, Editable, Found, Request, Fits, Editing
<1>3. ASSUME NEW v \in Versions, NEW n \in Labels, BeginDeleteNode(d, v, n)
      PROVE  \E r \in Request : Fits(r) /\ Start(d, r)
    BY <1>3 DEF BeginDeleteNode, Editable, Found, Request, Fits, Editing
<1>4. ASSUME NEW v \in Versions, NEW e \in Edge, BeginCreateDependency(d, v, e)
      PROVE  \E r \in Request : Fits(r) /\ Start(d, r)
    BY <1>4 DEF BeginCreateDependency, Editable, Found, Request, Fits, Editing
<1>5. ASSUME NEW v \in Versions, NEW e \in Edge, BeginDeleteDependency(d, v, e)
      PROVE  \E r \in Request : Fits(r) /\ Start(d, r)
    BY <1>5 DEF BeginDeleteDependency, Found, Request, Fits, Editing
<1>6. ASSUME NEW v \in Versions, BeginPublish(d, v)
      PROVE  \E r \in Request : Fits(r) /\ Start(d, r)
    <2> DEFINE r == [op |-> "publish", v |-> v, sawDraft |-> course = "draft"]
    <2>1. r \in Request
        BY DEF Request
    <2>2. Fits(r)
        BY <1>6 DEF BeginPublish, Found, Fits, Editing
    <2> QED BY <1>6, <2>1, <2>2 DEF BeginPublish
<1>7. ASSUME NEW latest \in 0 .. MaxVersion, NEW clone \in BOOLEAN,
             BeginCreateVersion(d, latest, clone)
      PROVE  \E r \in Request : Fits(r) /\ Start(d, r)
    <2> DEFINE src == IF clone THEN latest ELSE 0
               r == [op |-> "create_version", v |-> latest + 1, src |-> src,
                     copy |-> IF src = 0 THEN {} ELSE nodes[src],
                     ruled |-> IF src = 0 THEN {} ELSE rules[src]]
    <2>1. latest + 1 \in Versions /\ src \in Versions \cup {0}
        BY <1>7, VersionAssumption DEF BeginCreateVersion, Versions
    <2>2. r.copy \subseteq Labels /\ r.ruled \subseteq r.copy
        BY <2>1 DEF GraphInv, TypeOK
    <2>3. r \in Request
        BY <2>1, <2>2 DEF Request
    <2>4. Fits(r)
        BY <2>2 DEF Fits, Editing
    <2> QED BY <1>7, <2>3, <2>4 DEF BeginCreateVersion
<1>8. ASSUME NEW to \in Statuses, BeginSetStatus(d, to)
      PROVE  \E r \in Request : Fits(r) /\ Start(d, r)
    BY <1>8 DEF BeginSetStatus, Request, Fits, Editing
<1> QED BY <1>1, <1>2, <1>3, <1>4, <1>5, <1>6, <1>7, <1>8 DEF Begin

\* A commit keeps the other requests fitting: no version ceases to exist.
LEMMA FinishFits ==
    ASSUME GraphInv, NEW d \in Editors, Finish(d),
           version' \in [Versions -> {"absent", "draft", "published"}],
           \A v \in Versions : version[v] # "absent" => version'[v] # "absent"
    PROVE  \A c \in Editors : Fits(req[c])'
<1> SUFFICES ASSUME NEW c \in Editors PROVE Fits(req[c])'
    OBVIOUS
<1>1. CASE c = d
    BY <1>1 DEF Finish, GraphInv, TypeOK, Fits, Idle, Editing
<1>2. CASE c # d
    <2>1. req'[c] = req[c]
        BY <1>2 DEF Finish, GraphInv, TypeOK
    <2> QED BY <2>1, RequestFields DEF GraphInv, TypeOK, Fits, Editing
<1> QED BY <1>1, <1>2

\* The types and the dependencies after each commit.
LEMMA CreateNodeGraphInv ==
    ASSUME GraphInv, NEW d \in Editors, CreateNode(d)
    PROVE  GraphInv'
<1> DEFINE v == req[d].v
<1>1. v \in Versions /\ version[v] # "absent"
    BY RequestFields DEF CreateNode, GraphInv, TypeOK, Fits, Editing
<1>2. PICK n \in Labels \ born[v] :
          /\ nodes' = [nodes EXCEPT ![v] = @ \cup {n}]
          /\ born' = [born EXCEPT ![v] = @ \cup {n}]
          /\ rules' = IF req[d].rule THEN [rules EXCEPT ![v] = @ \cup {n}] ELSE rules
    BY DEF CreateNode
<1>3. UNCHANGED <<course, version, edges>> /\ Finish(d)
    BY DEF CreateNode
<1>4. TypeOK'
    BY <1>1, <1>2, <1>3 DEF GraphInv, TypeOK, Finish
<1>5. \A c \in Editors : Fits(req[c])'
    BY <1>3, FinishFits DEF GraphInv, TypeOK
<1>6. EdgesJoinLiveNodes'
    BY <1>1, <1>2, <1>3 DEF GraphInv, TypeOK, EdgesJoinLiveNodes
<1> QED BY <1>4, <1>5, <1>6 DEF GraphInv

\* update_node changes whether a live node has a mastery rule, no more.
LEMMA UpdateNodeGraphInv ==
    ASSUME GraphInv, NEW d \in Editors, UpdateNode(d)
    PROVE  GraphInv'
<1>1. req[d].v \in Versions /\ version[req[d].v] # "absent"
    BY RequestFields DEF UpdateNode, GraphInv, TypeOK, Fits, Editing
<1>2. TypeOK'
    BY <1>1 DEF UpdateNode, GraphInv, TypeOK, Finish
<1>3. \A c \in Editors : Fits(req[c])'
    BY FinishFits DEF UpdateNode, GraphInv, TypeOK
<1>4. EdgesJoinLiveNodes'
    BY DEF UpdateNode, GraphInv, EdgesJoinLiveNodes
<1> QED BY <1>2, <1>3, <1>4 DEF GraphInv

\* delete_node takes the dependencies of the node with it.
LEMMA DeleteNodeGraphInv ==
    ASSUME GraphInv, NEW d \in Editors, DeleteNode(d)
    PROVE  GraphInv'
<1>1. req[d].v \in Versions /\ version[req[d].v] # "absent"
    BY RequestFields DEF DeleteNode, GraphInv, TypeOK, Fits, Editing
<1>2. TypeOK'
    BY <1>1 DEF DeleteNode, GraphInv, TypeOK, Finish
<1>3. \A c \in Editors : Fits(req[c])'
    BY FinishFits DEF DeleteNode, GraphInv, TypeOK
<1>4. EdgesJoinLiveNodes'
    BY <1>1 DEF DeleteNode, GraphInv, TypeOK, EdgesJoinLiveNodes
<1> QED BY <1>2, <1>3, <1>4 DEF GraphInv

\* The foreign keys hold both ends of a new dependency to live nodes.
LEMMA CreateDependencyGraphInv ==
    ASSUME GraphInv, NEW d \in Editors, CreateDependency(d)
    PROVE  GraphInv'
<1>1. req[d].v \in Versions /\ req[d].e \in Edge
    BY RequestFields DEF CreateDependency, GraphInv, TypeOK, Editing
<1>2. TypeOK'
    BY <1>1 DEF CreateDependency, GraphInv, TypeOK, Finish
<1>3. \A c \in Editors : Fits(req[c])'
    BY FinishFits DEF CreateDependency, GraphInv, TypeOK
<1>4. EdgesJoinLiveNodes'
    BY <1>1 DEF CreateDependency, GraphInv, TypeOK, EdgesJoinLiveNodes
<1> QED BY <1>2, <1>3, <1>4 DEF GraphInv

\* delete_dependency leaves fewer dependencies among the same nodes.
LEMMA DeleteDependencyGraphInv ==
    ASSUME GraphInv, NEW d \in Editors, DeleteDependency(d)
    PROVE  GraphInv'
<1>1. req[d].v \in Versions
    BY RequestFields DEF DeleteDependency, GraphInv, TypeOK
<1>2. TypeOK'
    BY <1>1 DEF DeleteDependency, GraphInv, TypeOK, Finish
<1>3. \A c \in Editors : Fits(req[c])'
    BY FinishFits DEF DeleteDependency, GraphInv, TypeOK
<1>4. EdgesJoinLiveNodes'
    BY <1>1 DEF DeleteDependency, GraphInv, TypeOK, EdgesJoinLiveNodes
<1> QED BY <1>2, <1>3, <1>4 DEF GraphInv

\* publish_version touches the state of a version that exists.
LEMMA PublishGraphInv ==
    ASSUME GraphInv, NEW d \in Editors, Publish(d)
    PROVE  GraphInv'
<1>1. req[d].v \in Versions /\ version[req[d].v] # "absent"
    BY RequestFields DEF Publish, GraphInv, TypeOK, Fits
<1>2. TypeOK'
    BY <1>1 DEF Publish, GraphInv, TypeOK, Finish, Statuses, graph
<1>3. \A c \in Editors : Fits(req[c])'
    BY <1>1, FinishFits DEF Publish, GraphInv, TypeOK
<1>4. EdgesJoinLiveNodes'
    BY DEF Publish, GraphInv, EdgesJoinLiveNodes, graph
<1> QED BY <1>2, <1>3, <1>4 DEF GraphInv

\* A clone keeps the dependencies whose two ends it has copied.
LEMMA CreateVersionGraphInv ==
    ASSUME GraphInv, NEW d \in Editors, CreateVersion(d)
    PROVE  GraphInv'
<1> DEFINE r == req[d]
<1>1. /\ r.v \in Versions /\ r.src \in Versions \cup {0}
      /\ r.copy \subseteq Labels /\ r.ruled \subseteq r.copy
    BY RequestFields DEF CreateVersion, GraphInv, TypeOK, Fits
<1>2. TypeOK'
    BY <1>1 DEF CreateVersion, GraphInv, TypeOK, Finish
<1>3. \A c \in Editors : Fits(req[c])'
    BY <1>1, FinishFits DEF CreateVersion, GraphInv, TypeOK
<1>4. EdgesJoinLiveNodes'
    BY <1>1 DEF CreateVersion, GraphInv, TypeOK, EdgesJoinLiveNodes
<1> QED BY <1>2, <1>3, <1>4 DEF GraphInv

\* PATCH and DELETE of the course leave the graph alone.
LEMMA SetStatusGraphInv ==
    ASSUME GraphInv, NEW d \in Editors, SetStatus(d)
    PROVE  GraphInv'
<1>1. TypeOK'
    BY RequestFields DEF SetStatus, GraphInv, TypeOK, Finish, graph
<1>2. \A c \in Editors : Fits(req[c])'
    BY FinishFits DEF SetStatus, GraphInv, TypeOK
<1>3. EdgesJoinLiveNodes'
    BY DEF SetStatus, GraphInv, EdgesJoinLiveNodes, graph
<1> QED BY <1>1, <1>2, <1>3 DEF GraphInv

\* A rollback leaves the tables as they were.
LEMMA AbortGraphInv ==
    ASSUME GraphInv, NEW d \in Editors, Abort(d)
    PROVE  GraphInv'
<1>1. TypeOK'
    BY DEF Abort, GraphInv, TypeOK, Finish, graph
<1>2. \A c \in Editors : Fits(req[c])'
    BY FinishFits DEF Abort, GraphInv, TypeOK
<1>3. EdgesJoinLiveNodes'
    BY DEF Abort, GraphInv, EdgesJoinLiveNodes, graph
<1> QED BY <1>1, <1>2, <1>3 DEF GraphInv

\* Nothing happens, nothing changes.
LEMMA StutterGraphInv == GraphInv /\ UNCHANGED vars => GraphInv'
BY DEF GraphInv, vars, graph, TypeOK, Fits, EdgesJoinLiveNodes

\* Every step keeps the invariant, one lemma above for each action.
LEMMA NextGraphInv == GraphInv /\ [Next]_vars => GraphInv'
<1> SUFFICES ASSUME GraphInv, Next PROVE GraphInv'
    BY StutterGraphInv
<1>1. ASSUME NEW d \in Editors, Begin(d) PROVE GraphInv'
    BY <1>1, BeginFits, StartGraphInv
<1>2. ASSUME NEW d \in Editors, Commit(d) PROVE GraphInv'
    BY <1>2, CreateNodeGraphInv, UpdateNodeGraphInv, DeleteNodeGraphInv,
       CreateDependencyGraphInv, DeleteDependencyGraphInv, PublishGraphInv,
       CreateVersionGraphInv, SetStatusGraphInv DEF Commit
<1>3. ASSUME NEW d \in Editors, Abort(d) PROVE GraphInv'
    BY <1>3, AbortGraphInv
<1> QED BY <1>1, <1>2, <1>3 DEF Next

\* The inductive invariant for any number of requests.
LEMMA GraphInvariance == Spec => []GraphInv
BY InitGraphInv, NextGraphInv, PTL DEF Spec

\* The shape of the data, with any number of requests in flight.
THEOREM TypeCorrect == Spec => []TypeOK
<1>1. GraphInv => TypeOK
    BY DEF GraphInv
<1> QED BY <1>1, GraphInvariance, PTL

\* No dependency dangles or leaves its version, with any number of requests in
\* flight: what the code checks and what the database enforces are enough.
THEOREM EdgesJoin == Spec => []EdgesJoinLiveNodes
<1>1. GraphInv => EdgesJoinLiveNodes
    BY DEF GraphInv
<1> QED BY <1>1, GraphInvariance, PTL

-----------------------------------------------------------------------------
(* One request at a time.                                                  *)

\* The state a request is checked in is the state it commits in: only that
\* request and the steps before its Begin come between.
LEMMA OthersAreIdle ==
    ASSUME SerialInv, OneAtATime, NEW d \in Editors, NEW c \in Editors, Finish(d)
    PROVE  Fresh(req[c])'
<1>1. c = d
    BY DEF OneAtATime
<1> QED BY <1>1 DEF SerialInv, GraphInv, TypeOK, Finish, Fresh, Idle, Editing

\* The empty course satisfies the serial invariant.
LEMMA InitSerialInv == Init => SerialInv
<1> SUFFICES ASSUME Init PROVE SerialInv
    OBVIOUS
<1>1. \A d \in Editors : Fresh(req[d])
    BY DEF Init, Fresh, Idle, Editing
<1>2. Acyclic
    <2>1. \A v \in Versions : Pairs(edges[v]) = {}
        BY DEF Init, Pairs
    <2> QED BY <2>1, NoPairsAcyclic DEF Acyclic
<1>3. PublishedIsNotEmpty
    BY DEF Init, PublishedIsNotEmpty
<1> QED BY <1>1, <1>2, <1>3, InitGraphInv DEF SerialInv

\* The checks of Begin establish what Fresh says of the request.
LEMMA BeginFresh ==
    ASSUME NEW d \in Editors, Begin(d)
    PROVE  \E r : Fresh(r) /\ Start(d, r)
<1> USE DEF Fresh, Editing
<1>1. ASSUME NEW v \in Versions, NEW rule \in BOOLEAN, BeginCreateNode(d, v, rule)
      PROVE  \E r : Fresh(r) /\ Start(d, r)
    BY <1>1 DEF BeginCreateNode, Editable, Found
<1>2. ASSUME NEW v \in Versions, NEW n \in Labels, NEW rule \in BOOLEAN,
             BeginUpdateNode(d, v, n, rule)
      PROVE  \E r : Fresh(r) /\ Start(d, r)
    BY <1>2 DEF BeginUpdateNode, Editable, Found
<1>3. ASSUME NEW v \in Versions, NEW n \in Labels, BeginDeleteNode(d, v, n)
      PROVE  \E r : Fresh(r) /\ Start(d, r)
    BY <1>3 DEF BeginDeleteNode, Editable, Found
<1>4. ASSUME NEW v \in Versions, NEW e \in Edge, BeginCreateDependency(d, v, e)
      PROVE  \E r : Fresh(r) /\ Start(d, r)
    BY <1>4 DEF BeginCreateDependency, Editable, Found
<1>5. ASSUME NEW v \in Versions, NEW e \in Edge, BeginDeleteDependency(d, v, e)
      PROVE  \E r : Fresh(r) /\ Start(d, r)
    BY <1>5 DEF BeginDeleteDependency, Found
<1>6. ASSUME NEW v \in Versions, BeginPublish(d, v)
      PROVE  \E r : Fresh(r) /\ Start(d, r)
    BY <1>6 DEF BeginPublish, Found
<1>7. ASSUME NEW latest \in 0 .. MaxVersion, NEW clone \in BOOLEAN,
             BeginCreateVersion(d, latest, clone)
      PROVE  \E r : Fresh(r) /\ Start(d, r)
    BY <1>7 DEF BeginCreateVersion
<1>8. ASSUME NEW to \in Statuses, BeginSetStatus(d, to)
      PROVE  \E r : Fresh(r) /\ Start(d, r)
    BY <1>8 DEF BeginSetStatus
<1> QED BY <1>1, <1>2, <1>3, <1>4, <1>5, <1>6, <1>7, <1>8 DEF Begin

\* With no other request in flight, what Begin checked is fresh.
LEMMA BeginSerialInv ==
    ASSUME SerialInv, OneAtATime, NEW d \in Editors, Begin(d)
    PROVE  SerialInv'
<1>1. GraphInv'
    BY BeginFits, StartGraphInv DEF SerialInv
<1>2. PICK r : Fresh(r) /\ Start(d, r)
    BY BeginFresh
<1>3. \A c \in Editors : Fresh(req[c])'
    BY <1>2 DEF SerialInv, GraphInv, TypeOK, OneAtATime, Start, graph, Fresh
<1>4. Acyclic' /\ PublishedIsNotEmpty'
    BY <1>2 DEF SerialInv, Start, graph, Acyclic, PublishedIsNotEmpty
<1> QED BY <1>1, <1>3, <1>4 DEF SerialInv

\* Commits that leave the dependencies alone or take some away.
LEMMA FewerEdgesAcyclic ==
    ASSUME Acyclic, \A v \in Versions : edges'[v] \subseteq edges[v]
    PROVE  Acyclic'
<1> SUFFICES ASSUME NEW v \in Versions PROVE AcyclicPairs(Pairs(edges'[v]))
    BY DEF Acyclic
<1>1. Pairs(edges'[v]) \subseteq Pairs(edges[v])
    BY PairsMonotone
<1> QED BY <1>1, FewerPairsAcyclic DEF Acyclic

\* Each write keeps the graph acyclic: only create_dependency adds a pair,
\* and its check is still true of the graph it writes to.
LEMMA CommitAcyclic ==
    ASSUME SerialInv, NEW d \in Editors, Commit(d)
    PROVE  Acyclic'
<1> USE DEF SerialInv, GraphInv
<1>1. CASE CreateNode(d)
    BY <1>1, FewerEdgesAcyclic DEF CreateNode
<1>2. CASE UpdateNode(d)
    BY <1>2, FewerEdgesAcyclic DEF UpdateNode
<1>3. CASE DeleteNode(d)
    <2>1. \A v \in Versions : edges'[v] \subseteq edges[v]
        BY <1>3 DEF DeleteNode, TypeOK
    <2> QED BY <2>1, FewerEdgesAcyclic
<1>4. CASE CreateDependency(d)
    <2> DEFINE r == req[d]
    <2>1. r.v \in Versions /\ r.e \in Edge
        BY <1>4, RequestFields DEF CreateDependency, TypeOK, Editing
    <2>2. ~CreatesCycle(Pairs(edges[r.v]), r.e.source, r.e.target)
        BY <1>4 DEF CreateDependency, Fresh
    <2>3. Pairs(edges'[r.v]) = Pairs(edges[r.v]) \cup {<<r.e.source, r.e.target>>}
        BY <1>4, <2>1 DEF CreateDependency, TypeOK, Pairs
    <2>4. AcyclicPairs(Pairs(edges'[r.v]))
        BY <2>1, <2>2, <2>3, CheckedPairAcyclic DEF Acyclic, Edge
    <2>5. \A v \in Versions : v # r.v => edges'[v] = edges[v]
        BY <1>4 DEF CreateDependency, TypeOK
    <2> QED BY <2>4, <2>5 DEF Acyclic
<1>5. CASE DeleteDependency(d)
    <2>1. \A v \in Versions : edges'[v] \subseteq edges[v]
        BY <1>5 DEF DeleteDependency, TypeOK
    <2> QED BY <2>1, FewerEdgesAcyclic
<1>6. CASE Publish(d)
    BY <1>6, FewerEdgesAcyclic DEF Publish, graph
<1>7. CASE CreateVersion(d)
    <2> DEFINE r == req[d]
    <2>1. r.v \in Versions /\ r.src \in Versions \cup {0}
        BY <1>7, RequestFields DEF CreateVersion, TypeOK
    <2>2. \A v \in Versions : v # r.v => edges'[v] = edges[v]
        BY <1>7 DEF CreateVersion, TypeOK
    <2>3. CASE r.src = 0
        <3>1. edges'[r.v] \subseteq edges[r.v]
            BY <1>7, <2>1, <2>3 DEF CreateVersion, TypeOK
        <3> QED BY <2>2, <3>1, FewerEdgesAcyclic
    <2>4. CASE r.src # 0
        <3>1. edges'[r.v] \subseteq edges[r.src]
            BY <1>7, <2>1, <2>4 DEF CreateVersion, TypeOK
        <3>2. Pairs(edges'[r.v]) \subseteq Pairs(edges[r.src])
            BY <3>1, PairsMonotone
        <3>3. AcyclicPairs(Pairs(edges'[r.v]))
            BY <2>1, <2>4, <3>2, FewerPairsAcyclic DEF Acyclic
        <3> QED BY <2>2, <3>3 DEF Acyclic
    <2> QED BY <2>3, <2>4
<1>8. CASE SetStatus(d)
    BY <1>8, FewerEdgesAcyclic DEF SetStatus, graph
<1> QED BY <1>1, <1>2, <1>3, <1>4, <1>5, <1>6, <1>7, <1>8 DEF Commit

\* Each write leaves a published version with a node: publish_version has
\* counted one, and the others do not delete from a published version.
LEMMA CommitPublishedIsNotEmpty ==
    ASSUME SerialInv, NEW d \in Editors, Commit(d)
    PROVE  PublishedIsNotEmpty'
<1> USE DEF SerialInv, GraphInv, TypeOK, PublishedIsNotEmpty
<1> DEFINE r == req[d]
<1>1. CASE CreateNode(d)
    BY <1>1 DEF CreateNode
<1>2. CASE UpdateNode(d)
    BY <1>2 DEF UpdateNode
<1>3. CASE DeleteNode(d)
    <2>1. r.v \in Versions /\ version[r.v] # "published"
        BY <1>3, RequestFields DEF DeleteNode, Editing, Fresh
    <2> QED BY <1>3, <2>1 DEF DeleteNode
<1>4. CASE CreateDependency(d)
    BY <1>4 DEF CreateDependency
<1>5. CASE DeleteDependency(d)
    BY <1>5 DEF DeleteDependency
<1>6. CASE Publish(d)
    <2>1. nodes[r.v] # {}
        BY <1>6 DEF Publish, Fresh
    <2> QED BY <1>6, <2>1 DEF Publish, graph
<1>7. CASE CreateVersion(d)
    BY <1>7 DEF CreateVersion
<1>8. CASE SetStatus(d)
    BY <1>8 DEF SetStatus, graph
<1> QED BY <1>1, <1>2, <1>3, <1>4, <1>5, <1>6, <1>7, <1>8 DEF Commit

\* Every step keeps the serial invariant when requests do not overlap.
LEMMA NextSerialInv ==
    ASSUME OneAtATime
    PROVE  SerialInv /\ [Next]_vars => SerialInv'
<1> SUFFICES ASSUME SerialInv, [Next]_vars PROVE SerialInv'
    OBVIOUS
<1>1. GraphInv'
    BY NextGraphInv DEF SerialInv
<1>2. ASSUME NEW d \in Editors, Begin(d) PROVE SerialInv'
    BY <1>2, BeginSerialInv
<1>3. ASSUME NEW d \in Editors, Commit(d) PROVE SerialInv'
    <2>1. Finish(d)
        BY <1>3 DEF Commit, CreateNode, UpdateNode, DeleteNode, CreateDependency,
           DeleteDependency, Publish, CreateVersion, SetStatus
    <2>2. \A c \in Editors : Fresh(req[c])'
        BY <2>1, OthersAreIdle
    <2> QED BY <1>1, <1>3, <2>2, CommitAcyclic, CommitPublishedIsNotEmpty DEF SerialInv
<1>4. ASSUME NEW d \in Editors, Abort(d) PROVE SerialInv'
    <2>1. \A c \in Editors : Fresh(req[c])'
        BY <1>4, OthersAreIdle DEF Abort
    <2>2. Acyclic' /\ PublishedIsNotEmpty'
        BY <1>4 DEF Abort, graph, SerialInv, Acyclic, PublishedIsNotEmpty
    <2> QED BY <1>1, <2>1, <2>2 DEF SerialInv
<1>5. CASE UNCHANGED vars
    BY <1>1, <1>5 DEF vars, graph, SerialInv, Fresh, Acyclic, PublishedIsNotEmpty
<1> QED BY <1>2, <1>3, <1>4, <1>5 DEF Next

\* The inductive invariant for one request at a time.
LEMMA SerialInvariance ==
    ASSUME OneAtATime
    PROVE  Spec => []SerialInv
BY InitSerialInv, NextSerialInv, PTL DEF Spec

\* No learner is deadlocked by the graph, whatever sequence of additions,
\* deletions, publications and clones designers make, one at a time.
THEOREM AcyclicSerial ==
    ASSUME OneAtATime
    PROVE  Spec => []Acyclic
<1>1. SerialInv => Acyclic
    BY DEF SerialInv
<1> QED BY <1>1, SerialInvariance, PTL

\* A published version keeps something to learn, one request at a time.
THEOREM PublishedIsNotEmptySerial ==
    ASSUME OneAtATime
    PROVE  Spec => []PublishedIsNotEmpty
<1>1. SerialInv => PublishedIsNotEmpty
    BY DEF SerialInv
<1> QED BY <1>1, SerialInvariance, PTL

-----------------------------------------------------------------------------
(* What a step may never do, one request at a time.                        *)

\* Begin and Abort write nothing but the request.
LEMMA OnlyCommitsWrite ==
    ASSUME NEW d \in Editors, Begin(d) \/ Abort(d)
    PROVE  UNCHANGED <<course, version, graph>>
BY DEF Begin, Abort, Start, BeginCreateNode, BeginUpdateNode, BeginDeleteNode,
   BeginCreateDependency, BeginDeleteDependency, BeginPublish, BeginCreateVersion,
   BeginSetStatus

\* No write adds to a published version or changes its nodes.
LEMMA CommitKeepsPublished ==
    ASSUME SerialInv, NEW d \in Editors, Commit(d),
           NEW v \in Versions, version[v] = "published"
    PROVE  nodes'[v] = nodes[v] /\ rules'[v] = rules[v] /\ edges'[v] \subseteq edges[v]
<1> USE DEF SerialInv, GraphInv, TypeOK
<1>1. req[d].op \in Editing => req[d].v # v
    BY DEF Fresh
<1>2. CASE CreateNode(d)
    BY <1>1, <1>2 DEF CreateNode, Editing
<1>3. CASE UpdateNode(d)
    BY <1>1, <1>3 DEF UpdateNode, Editing
<1>4. CASE DeleteNode(d)
    BY <1>1, <1>4 DEF DeleteNode, Editing
<1>5. CASE CreateDependency(d)
    BY <1>1, <1>5 DEF CreateDependency, Editing
<1>6. CASE DeleteDependency(d)
    BY <1>6 DEF DeleteDependency
<1>7. CASE Publish(d)
    BY <1>7 DEF Publish, graph
<1>8. CASE CreateVersion(d)
    BY <1>8 DEF CreateVersion
<1>9. CASE SetStatus(d)
    BY <1>9 DEF SetStatus, graph
<1> QED BY <1>2, <1>3, <1>4, <1>5, <1>6, <1>7, <1>8, <1>9 DEF Commit

\* Nodes and mastery rules of a published version never change and no
\* dependency is added to it, one request at a time.
THEOREM PublishedNodesAreFrozenSerial ==
    ASSUME OneAtATime
    PROVE  Spec => PublishedNodesAreFrozen
<1>1. SerialInv /\ [Next]_vars =>
          [\A v \in Versions : version[v] = "published" =>
              /\ nodes'[v] = nodes[v]
              /\ rules'[v] = rules[v]
              /\ edges'[v] \subseteq edges[v]]_vars
    <2> SUFFICES ASSUME SerialInv, Next, NEW v \in Versions, version[v] = "published"
                 PROVE  /\ nodes'[v] = nodes[v]
                        /\ rules'[v] = rules[v]
                        /\ edges'[v] \subseteq edges[v]
        OBVIOUS
    <2>1. ASSUME NEW d \in Editors, Begin(d) \/ Abort(d)
          PROVE  nodes'[v] = nodes[v] /\ rules'[v] = rules[v] /\ edges'[v] \subseteq edges[v]
        BY <2>1, OnlyCommitsWrite DEF graph
    <2> QED BY <2>1, CommitKeepsPublished DEF Next
<1> QED BY <1>1, SerialInvariance, PTL DEF Spec, PublishedNodesAreFrozen

\* Nothing in an archived course changes, one request at a time.
THEOREM ArchivedIsFinalSerial ==
    ASSUME OneAtATime
    PROVE  Spec => ArchivedIsFinal
<1>1. SerialInv /\ [Next]_vars =>
          [course = "archived" => UNCHANGED <<course, version, graph>>]_vars
    <2> SUFFICES ASSUME SerialInv, Next, course = "archived"
                 PROVE  UNCHANGED <<course, version, graph>>
        OBVIOUS
    <2>1. \A d \in Editors : req[d] = Idle
        BY DEF SerialInv, Fresh
    <2>2. \A d \in Editors : ~Commit(d)
        BY <2>1 DEF Commit, CreateNode, UpdateNode, DeleteNode, CreateDependency,
           DeleteDependency, Publish, CreateVersion, SetStatus, Idle
    <2> QED BY <2>2, OnlyCommitsWrite DEF Next
<1> QED BY <1>1, SerialInvariance, PTL DEF Spec, ArchivedIsFinal

-----------------------------------------------------------------------------
(* The search of _creates_cycle answers right on every graph.  The         *)
(* invariant of its loop: all it has met is reachable from target, source  *)
(* is not among what it has visited, and the successors of what it has     *)
(* visited are visited or on the stack.                                    *)


OnlyReachable == \A x \in stack \cup seen : Reaches(pairs, target, x)

Frontier ==
    /\ target \in stack \cup seen
    /\ source \notin seen
    /\ \A x \in seen : Successors(x) \subseteq stack \cup seen

SearchInv == SearchTypeOK /\ OnlyReachable /\ (answer = "searching" => Frontier) /\ AnswersRight

\* The search starts with the target on the stack and nothing visited.
LEMMA SearchStarts == SearchInit => SearchInv
<1> SUFFICES ASSUME SearchInit PROVE SearchInv
    OBVIOUS
<1>1. SearchTypeOK
    BY DEF SearchInit, SearchTypeOK
<1>2. OnlyReachable
    BY ReachesSelf DEF SearchInit, OnlyReachable
<1>3. answer = "searching" => Frontier
    BY DEF SearchInit, Frontier
<1>4. AnswersRight
    BY DEF SearchInit, AnswersRight, CreatesCycle
<1> QED BY <1>1, <1>2, <1>3, <1>4 DEF SearchInv

\* Popping the source: it is reachable, so the answer is right.
LEMMA HitKeeps ==
    ASSUME SearchInv, answer = "searching", NEW c \in stack, Hit(c)
    PROVE  SearchInv'
<1> USE DEF SearchInv, Hit
<1>1. SearchTypeOK'
    BY DEF SearchTypeOK
<1>2. OnlyReachable'
    BY DEF OnlyReachable
<1>3. AnswersRight'
    BY DEF AnswersRight, CreatesCycle, OnlyReachable
<1> QED BY <1>1, <1>2, <1>3

\* Popping a node visited before changes nothing that matters.
LEMMA SkipKeeps ==
    ASSUME SearchInv, answer = "searching", NEW c \in stack, Skip(c)
    PROVE  SearchInv'
<1> USE DEF SearchInv, Skip
<1>1. SearchTypeOK'
    BY DEF SearchTypeOK
<1>2. OnlyReachable'
    BY DEF OnlyReachable
<1>3. Frontier'
    BY DEF Frontier, Successors
<1>4. AnswersRight'
    BY DEF AnswersRight
<1> QED BY <1>1, <1>2, <1>3, <1>4

\* Visiting a node puts its successors, reachable as it is, on the stack.
LEMMA VisitKeeps ==
    ASSUME SearchInv, answer = "searching", NEW c \in stack, Visit(c)
    PROVE  SearchInv'
<1> USE DEF SearchInv, Visit
<1>1. SearchTypeOK'
    BY DEF SearchTypeOK, Successors
<1>2. OnlyReachable'
    <2>1. \A y \in Successors(c) : Reaches(pairs, target, y)
        BY ReachesNext DEF OnlyReachable, Successors, SearchTypeOK
    <2> QED BY <2>1 DEF OnlyReachable
<1>3. Frontier'
    BY DEF Frontier, Successors
<1>4. AnswersRight'
    BY DEF AnswersRight
<1> QED BY <1>1, <1>2, <1>3, <1>4

\* With the stack empty `seen` is closed: it separates target from source.
LEMMA ExhaustedKeeps ==
    ASSUME SearchInv, answer = "searching", Exhausted
    PROVE  SearchInv'
<1> USE DEF SearchInv, Exhausted
<1>1. SearchTypeOK'
    BY DEF SearchTypeOK
<1>2. OnlyReachable'
    BY DEF OnlyReachable
<1>3. AnswersRight'
    <2>1. Closed(pairs, seen)
        BY DEF Frontier, Successors, Closed, SearchTypeOK
    <2>2. ~Reaches(pairs, target, source)
        BY <2>1, ClosedSeparates DEF Frontier, SearchTypeOK
    <2>3. source # target
        BY DEF Frontier
    <2> QED BY <2>2, <2>3 DEF AnswersRight, CreatesCycle
<1> QED BY <1>1, <1>2, <1>3

\* Whenever the search returns, it returns whether the dependency would close
\* a cycle: for every graph, every pair of nodes, every order of the rows.
THEOREM SearchIsRight == SearchSpec => []AnswersRight
<1>1. SearchInit => SearchInv
    BY SearchStarts
<1>2. SearchInv /\ [SearchNext]_searchVars => SearchInv'
    <2> SUFFICES ASSUME SearchInv, [SearchNext]_searchVars PROVE SearchInv'
        OBVIOUS
    <2>1. CASE UNCHANGED searchVars
        BY <2>1 DEF searchVars, SearchInv, SearchTypeOK, OnlyReachable, Frontier, Successors, AnswersRight
    <2>2. CASE SearchNext
        BY <2>2, HitKeeps, SkipKeeps, VisitKeeps, ExhaustedKeeps DEF SearchNext
    <2> QED BY <2>1, <2>2
<1>3. SearchInv => AnswersRight
    BY DEF SearchInv
<1> QED BY <1>1, <1>2, <1>3, PTL DEF SearchSpec
=============================================================================
