---------------------------- MODULE AdminInventory ----------------------------
(***************************************************************************)
(* The admin routes that change nodes, locations and servers:              *)
(*   DELETE /api/admin/nodes/{node}          (nodes/_node_/mod.rs delete)  *)
(*   PATCH  /api/admin/nodes/{node}          (nodes/_node_/mod.rs patch)   *)
(*   DELETE /api/admin/locations/{location}  (locations/_location_ auth    *)
(*                                            middleware, then delete)     *)
(*   PATCH  /api/admin/locations/{location}  (auth middleware, then patch) *)
(*   POST   /api/admin/servers               (servers/mod.rs post, with    *)
(*                                            Server::create and by_id)    *)
(* run by concurrent admin requests, composed with the allocation pool     *)
(* (models/node_allocation.rs, models/server_allocation.rs) and with       *)
(* servers deleted meanwhile (Server::delete, ProvisioningSaga).           *)
(*                                                                         *)
(* Every handler reads a row, computes in memory, and writes with a later  *)
(* statement; each await between is a step, so other requests interleave.  *)
(* A row is abstracted to what the routes' conflicts depend on: a node's   *)
(* location and name, a location's name.  The store enforces the unique   *)
(* names and the foreign keys nodes.location_id -> locations,             *)
(* servers.node_id -> nodes, node_allocations.node_id -> nodes and         *)
(* server_allocations.allocation_id -> node_allocations with no cascade (a *)
(* DELETE of a referenced row and an UPDATE to a missing location fail),   *)
(* server_allocations.server_id -> servers with cascade (spec 4.2), and    *)
(* the unique server_allocations.allocation_id (spec 4.3).  The schema is  *)
(* not part of the sources, so it is an assumption, the one under which   *)
(* the routes' own guards (node.servers > 0, location.nodes > 0) and the   *)
(* spec's exclusive binding make sense.  Owners and eggs, which no route   *)
(* here deletes, always exist.                                             *)
(***************************************************************************)
EXTENDS Naturals, FiniteSets

CONSTANTS
    Admins,      \* admin requests, each a task that runs once, concurrently
    Nodes,       \* node ids
    Locations,   \* location ids
    Names,       \* names a node or a location may be given
    Allocs,      \* node allocation ids
    ServerIds,   \* server ids, handed out in order by the serial column
    Unused,      \* an id not handed out yet
    MaxCalls,    \* bound on the allocation pool's statements run
    None,        \* an absent payload field
    Invalid,     \* a payload that fails validate_data
    Gone         \* a deleted row

ASSUME Cardinality(ServerIds) >= Cardinality(Admins)
ASSUME MaxCalls \in Nat

NodeRow == [loc : Locations, name : Names]

\* The patch payloads: every optional field present or absent, or one that
\* fails validation.
NodePayloads == [loc : Locations \cup {None}, name : Names \cup {None}]
                    \cup {Invalid}
LocationPayloads == [name : Names \cup {None}] \cup {Invalid}
\* allocation_id and allocation_ids of the server create payload.
ServerPayloads == [alloc : Allocs \cup {None}, extra : SUBSET Allocs]
                      \cup {Invalid}

VARIABLES
    nodes,      \* [Nodes -> NodeRow \cup {Gone}]: the nodes table
    locations,  \* [Locations -> Names \cup {Gone}]: the locations table
    servers,    \* [ServerIds -> Nodes \cup {Unused, Gone}]: the servers
                \* table, each row by its node
    allocs,     \* [Allocs -> Nodes \cup {Unused, Gone}]: node_allocations
    binds,      \* server_allocations: a set of [server, alloc] rows
    calls,      \* the pool's statements run so far, up to MaxCalls
    pc,         \* [Admins -> where the request is]
    req,        \* [Admins -> the request: op, target id, payload, loaded row]
    resp        \* [Admins -> the last answer: op, target id, status code]

vars == <<nodes, locations, servers, allocs, binds, calls, pc, req, resp>>
store == <<nodes, locations, servers, allocs, binds, calls>>

NoReq == [op |-> "none", id |-> None, pl |-> None, row |-> None]

LiveNode(n) == nodes[n] # Gone
LiveLocation(l) == locations[l] # Gone

\* node.servers and location.nodes: the counts by_id loads with the row.
NodesIn(l) == {n \in Nodes : LiveNode(n) /\ nodes[n].loc = l}
ServersOn(n) == {s \in ServerIds : servers[s] = n}
AllocsOn(n) == {a \in Allocs : allocs[a] = n}
LiveServer(s) == servers[s] \in Nodes
LiveAlloc(a) == allocs[a] \in Nodes
Bound(a) == \E b \in binds : b.alloc = a

\* The request answers code and ends; its locals are dropped.
Respond(w, op, id, code) ==
    /\ resp' = [resp EXCEPT ![w] = [op |-> op, id |-> id, code |-> code]]
    /\ pc' = [pc EXCEPT ![w] = "done"]
    /\ req' = [req EXCEPT ![w] = NoReq]

Answer(w, code) == Respond(w, req[w].op, req[w].id, code)

\* The request continues at step next with the locals r.
Continue(w, next, r) ==
    /\ pc' = [pc EXCEPT ![w] = next]
    /\ req' = [req EXCEPT ![w] = r]
    /\ UNCHANGED resp

Loaded(op, id, pl, row) == [op |-> op, id |-> id, pl |-> pl, row |-> row]

(***************************************************************************)
(* DELETE /api/admin/nodes/{node}.  Node::by_id loads the node with its    *)
(* server count; a node with servers is refused.  Node::delete_by_id's     *)
(* result is discarded (`.await;`), so the route answers 200 whether or    *)
(* not the DELETE removed the row.                                         *)
(***************************************************************************)
NodeDeleteLoad(w, n) ==
    /\ pc[w] = "idle"
    /\ IF ~LiveNode(n) THEN Respond(w, "node_delete", n, 404)
       ELSE IF ServersOn(n) # {} THEN Respond(w, "node_delete", n, 400)
       ELSE Continue(w, "nd_delete", Loaded("node_delete", n, None, nodes[n]))
    /\ UNCHANGED store

\* DELETE FROM nodes WHERE id = $1: refused by the foreign keys when a server
\* or an allocation references the node; removes nothing when the row is
\* already gone.
NodeDelete(w) ==
    LET n == req[w].id IN
    /\ pc[w] = "nd_delete"
    /\ nodes' = IF ServersOn(n) = {} /\ AllocsOn(n) = {}
                 THEN [nodes EXCEPT ![n] = Gone] ELSE nodes
    /\ Answer(w, 200)
    /\ UNCHANGED <<locations, servers, allocs, binds, calls>>

(***************************************************************************)
(* PATCH /api/admin/nodes/{node}.  validate_data, then Node::by_id, then   *)
(* Location::by_id when location_id is given; the fields given overwrite   *)
(* the loaded node in memory, and one UPDATE writes every column back      *)
(* from it.  Any error of the UPDATE is answered 409.                      *)
(***************************************************************************)
NodePatchLoad(w, n, pl) ==
    /\ pc[w] = "idle"
    /\ IF pl = Invalid THEN Respond(w, "node_patch", n, 400)
       ELSE IF ~LiveNode(n) THEN Respond(w, "node_patch", n, 404)
       ELSE Continue(w, IF pl.loc # None THEN "np_location" ELSE "np_update",
                     Loaded("node_patch", n, pl, nodes[n]))
    /\ UNCHANGED store

NodePatchLocation(w) ==
    /\ pc[w] = "np_location"
    /\ IF ~LiveLocation(req[w].pl.loc) THEN Answer(w, 404)
       ELSE Continue(w, "np_update", req[w])
    /\ UNCHANGED store

\* Mutant: every column is taken from the payload, absent ones as NULL.
PatchedAll(row, pl) == [loc |-> pl.loc, name |-> pl.name]

\* The loaded row with the payload's fields written over it.
Patched(row, pl) ==
    [loc  |-> IF pl.loc # None THEN pl.loc ELSE row.loc,
     name |-> IF pl.name # None THEN pl.name ELSE row.name]

\* UPDATE nodes SET location_id, name, ... WHERE id = $11.  No row matches a
\* node deleted since the load, and the statement succeeds.
NodePatchUpdate(w) ==
    LET n   == req[w].id
        new == Patched(req[w].row, req[w].pl)
    IN
    /\ pc[w] = "np_update"
    /\ IF ~LiveNode(n) THEN Answer(w, 200) /\ UNCHANGED nodes
       ELSE IF \/ new.loc \notin {l \in Locations : LiveLocation(l)}
               \/ \E m \in Nodes \ {n} : LiveNode(m) /\ nodes[m].name = new.name
            THEN Answer(w, 409) /\ UNCHANGED nodes
       ELSE nodes' = [nodes EXCEPT ![n] = new] /\ Answer(w, 200)
    /\ UNCHANGED <<locations, servers, allocs, binds, calls>>

(***************************************************************************)
(* The location routes run behind the `auth` middleware, which loads the   *)
(* location with its node count (404 when missing); the handler uses that  *)
(* loaded value.  DELETE refuses a location with nodes (409) and           *)
(* propagates Location::delete_by_id's error with `?` (500).               *)
(***************************************************************************)
LocationDeleteLoad(w, l) ==
    /\ pc[w] = "idle"
    /\ IF ~LiveLocation(l) THEN Respond(w, "location_delete", l, 404)
       ELSE IF NodesIn(l) # {} THEN Respond(w, "location_delete", l, 409)
       ELSE Continue(w, "ld_delete",
                     Loaded("location_delete", l, None, locations[l]))
    /\ UNCHANGED store

LocationDelete(w) ==
    LET l == req[w].id IN
    /\ pc[w] = "ld_delete"
    /\ IF NodesIn(l) # {}
         THEN Answer(w, 500) /\ UNCHANGED locations
         ELSE locations' = [locations EXCEPT ![l] = Gone] /\ Answer(w, 200)
    /\ UNCHANGED <<nodes, servers, allocs, binds, calls>>

\* PATCH: the middleware's load, then validate_data (400).
LocationPatchLoad(w, l, pl) ==
    /\ pc[w] = "idle"
    /\ IF ~LiveLocation(l) THEN Respond(w, "location_patch", l, 404)
       ELSE IF pl = Invalid THEN Respond(w, "location_patch", l, 400)
       ELSE Continue(w, "lp_update",
                     Loaded("location_patch", l, pl, locations[l]))
    /\ UNCHANGED store

\* UPDATE locations SET ... WHERE id = $6: a unique violation is 409.
LocationPatchUpdate(w) ==
    LET l   == req[w].id
        new == IF req[w].pl.name # None THEN req[w].pl.name ELSE req[w].row
    IN
    /\ pc[w] = "lp_update"
    /\ IF ~LiveLocation(l) THEN Answer(w, 200) /\ UNCHANGED locations
       ELSE IF \E k \in Locations \ {l} : locations[k] = new
            THEN Answer(w, 409) /\ UNCHANGED locations
       ELSE locations' = [locations EXCEPT ![l] = new] /\ Answer(w, 200)
    /\ UNCHANGED <<nodes, servers, allocs, binds, calls>>

(***************************************************************************)
(* POST /api/admin/servers.  validate_data (400), Node::by_id (404); the   *)
(* owner and egg lookups always find their rows here.  Server::create runs *)
(* in one transaction: the INSERT INTO servers, one INSERT INTO            *)
(* server_allocations for allocation_id and one for each of               *)
(* allocation_ids, then the commit; a failed statement ends it (`?`) and  *)
(* rolls it back.  The route answers an error whose text holds "unique    *)
(* constraint" with 409 and any other with 500.  After the commit come the *)
(* agent call, with a compensating DELETE when it fails, and the re-read   *)
(* Server::by_id, whose None is an error (500).                            *)
(***************************************************************************)
ServerCreateLoad(w, n, pl) ==
    /\ pc[w] = "idle"
    /\ IF pl = Invalid THEN Respond(w, "server_create", n, 400)
       ELSE IF ~LiveNode(n) THEN Respond(w, "server_create", n, 404)
       ELSE Continue(w, "sc_create", Loaded("server_create", n, pl, nodes[n]))
    /\ UNCHANGED store

\* The allocations the payload binds, the default one first.
Default(pl) == IF pl.alloc = None THEN {} ELSE {pl.alloc}
Wanted(pl) == Default(pl) \cup pl.extra

\* The outcome of one INSERT INTO server_allocations for a, after the rows
\* of taken in the same transaction: 0, or the code its error is answered
\* with (foreign key 500, unique allocation_id 409).
BindCode(a, taken) ==
    IF ~LiveAlloc(a) THEN 500
    ELSE IF Bound(a) \/ a \in taken THEN 409
    ELSE 0

\* The codes the first failing INSERT may give: allocation_id goes first,
\* allocation_ids follow in the payload's order, any order here.
FailCodes(pl) ==
    IF pl.alloc # None /\ BindCode(pl.alloc, {}) # 0 THEN {BindCode(pl.alloc, {})}
    ELSE {BindCode(a, Default(pl)) : a \in pl.extra} \ {0}

\* The INSERT INTO servers needs its node (foreign key); when it fails, the
\* retry loop ends in an error that is not a unique violation (500).  The
\* new row takes the next serial id.
ServerCreateCommit(w) ==
    LET n  == req[w].id
        pl == req[w].pl
        s  == CHOOSE s \in ServerIds : servers[s] = Unused
    IN
    /\ pc[w] = "sc_create"
    /\ IF ~LiveNode(n) THEN Answer(w, 500) /\ UNCHANGED store
       ELSE IF FailCodes(pl) # {}
            THEN \E code \in FailCodes(pl) : Answer(w, code) /\ UNCHANGED store
       ELSE /\ servers' = [servers EXCEPT ![s] = n]
            /\ binds' = binds \cup {[server |-> s, alloc |-> a] : a \in Wanted(pl)}
            /\ Continue(w, "sc_agent", [req[w] EXCEPT !.row = s])
            /\ UNCHANGED <<nodes, locations, allocs, calls>>

\* post_servers succeeds, or fails and DELETE FROM servers removes the row
\* (its server_allocations with it), or that DELETE fails too and its
\* error goes out through `?`, the row left behind.  Either error the
\* route answers with 500.  From here on the answer names the server the
\* commit made.
ServerCreateAgent(w) ==
    LET s == req[w].row IN
    /\ pc[w] = "sc_agent"
    /\ \/ Continue(w, "sc_reread", req[w]) /\ UNCHANGED store
       \/ /\ servers' = [servers EXCEPT ![s] = Gone]
          /\ binds' = {b \in binds : b.server # s}
          /\ Respond(w, "server_create", s, 500)
          /\ UNCHANGED <<nodes, locations, allocs, calls>>
       \/ Respond(w, "server_create", s, 500) /\ UNCHANGED store

\* Server::by_id(server_id): a server deleted since the commit is an error.
ServerCreateReread(w) ==
    /\ pc[w] = "sc_reread"
    /\ Respond(w, "server_create", req[w].row,
               IF LiveServer(req[w].row) THEN 200 ELSE 500)
    /\ UNCHANGED store

\* Server::delete, committed: DELETE FROM servers, cascading to the
\* server's server_allocations.
ServerDelete(s) ==
    /\ LiveServer(s)
    /\ servers' = [servers EXCEPT ![s] = Gone]
    /\ binds' = {b \in binds : b.server # s}
    /\ UNCHANGED <<nodes, locations, allocs, calls, pc, req, resp>>

(***************************************************************************)
(* The allocation pool's statements (node_allocation.rs,                   *)
(* server_allocation.rs), each one atomic statement.  A statement that     *)
(* fails changes nothing.                                                  *)
(***************************************************************************)
\* One more statement of the pool, within the bound.
Call == calls < MaxCalls /\ calls' = calls + 1
\* NodeAllocation::create: INSERT INTO node_allocations, the node by
\* foreign key.
AllocationCreate(a, n) ==
    /\ Call
    /\ allocs[a] = Unused
    /\ LiveNode(n)
    /\ allocs' = [allocs EXCEPT ![a] = n]
    /\ UNCHANGED <<nodes, locations, servers, binds, pc, req, resp>>

\* NodeAllocation::delete_by_ids: DELETE ... WHERE id = ANY($1), one
\* statement, which the foreign key from server_allocations refuses as a
\* whole when one of the ids is bound.
AllocationDeleteByIds(ids) ==
    /\ Call
    /\ \E a \in ids : LiveAlloc(a)
    /\ \A a \in ids : ~Bound(a)
    /\ allocs' = [a \in Allocs |-> IF a \in ids /\ LiveAlloc(a) THEN Gone
                                   ELSE allocs[a]]
    /\ UNCHANGED <<nodes, locations, servers, binds, pc, req, resp>>

\* ServerAllocation::new: INSERT INTO server_allocations, refused by the
\* foreign keys and by the unique allocation_id.
AllocationNew(s, a) ==
    /\ Call
    /\ LiveServer(s)
    /\ LiveAlloc(a)
    /\ ~Bound(a)
    /\ binds' = binds \cup {[server |-> s, alloc |-> a]}
    /\ UNCHANGED <<nodes, locations, servers, allocs, pc, req, resp>>

\* ServerAllocation::delete_by_id.
AllocationRemove(s, a) ==
    /\ Call
    /\ [server |-> s, alloc |-> a] \in binds
    /\ binds' = binds \ {[server |-> s, alloc |-> a]}
    /\ UNCHANGED <<nodes, locations, servers, allocs, pc, req, resp>>

(***************************************************************************)
(* Every node and location exists, node names and location names are      *)
(* unique, some allocations exist, no server exists yet, no request runs.  *)
(***************************************************************************)
Init ==
    /\ nodes \in {f \in [Nodes -> NodeRow] :
                    \A m, n \in Nodes : m # n => f[m].name # f[n].name}
    /\ locations \in {f \in [Locations -> Names] :
                        \A k, l \in Locations : k # l => f[k] # f[l]}
    /\ servers = [s \in ServerIds |-> Unused]
    /\ allocs \in [Allocs -> Nodes \cup {Unused}]
    /\ binds = {}
    /\ calls = 0
    /\ pc = [w \in Admins |-> "idle"]
    /\ req = [w \in Admins |-> NoReq]
    /\ resp = [w \in Admins |-> NoReq]

Next ==
    \/ \E w \in Admins :
          \/ \E n \in Nodes : NodeDeleteLoad(w, n)
          \/ NodeDelete(w)
          \/ \E n \in Nodes, pl \in NodePayloads : NodePatchLoad(w, n, pl)
          \/ NodePatchLocation(w)
          \/ NodePatchUpdate(w)
          \/ \E l \in Locations : LocationDeleteLoad(w, l)
          \/ LocationDelete(w)
          \/ \E l \in Locations, pl \in LocationPayloads :
                LocationPatchLoad(w, l, pl)
          \/ LocationPatchUpdate(w)
          \/ \E n \in Nodes, pl \in ServerPayloads : ServerCreateLoad(w, n, pl)
          \/ ServerCreateCommit(w)
          \/ ServerCreateAgent(w)
          \/ ServerCreateReread(w)
    \/ \E s \in ServerIds :
          \/ ServerDelete(s)
          \/ \E a \in Allocs : AllocationNew(s, a) \/ AllocationRemove(s, a)
    \/ \E a \in Allocs, n \in Nodes : AllocationCreate(a, n)
    \/ \E ids \in SUBSET Allocs : AllocationDeleteByIds(ids)

Spec == Init /\ [][Next]_vars

-----------------------------------------------------------------------------
Steps == {"idle", "done", "nd_delete", "np_location", "np_update", "ld_delete",
          "lp_update", "sc_create", "sc_agent", "sc_reread"}
Ops == {"none", "node_delete", "node_patch", "location_delete",
        "location_patch", "server_create"}

TypeOK ==
    /\ nodes \in [Nodes -> NodeRow \cup {Gone}]
    /\ locations \in [Locations -> Names \cup {Gone}]
    /\ servers \in [ServerIds -> Nodes \cup {Unused, Gone}]
    /\ allocs \in [Allocs -> Nodes \cup {Unused, Gone}]
    /\ binds \subseteq [server : ServerIds, alloc : Allocs]
    /\ calls \in 0..MaxCalls
    /\ pc \in [Admins -> Steps]
    /\ \A w \in Admins :
          /\ req[w].op \in Ops
          /\ pc[w] \in {"idle", "done"} <=> req[w] = NoReq
          /\ resp[w].op \in Ops
          /\ resp[w] # NoReq => resp[w].code \in {200, 400, 404, 409, 500}

=============================================================================
