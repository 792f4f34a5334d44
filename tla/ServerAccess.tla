----------------------------- MODULE ServerAccess -----------------------------
(***************************************************************************)
(* Which servers a user reaches through the client API, and with what:     *)
(*   GET /api/client/servers (routes/api/client/servers/mod.rs): a page of *)
(*     Server::by_user_id_with_pagination or, when an admin asks with      *)
(*     other=true, Server::by_not_user_id_with_pagination;                 *)
(*   the server the {server} routes load, taken to be the one            *)
(*     Server::by_user_identifier finds (the extractor, _server_/mod.rs,   *)
(*     is not in the repository; it is the one query that loads a server  *)
(*     for a user, and a 404 when it finds none is assumed);               *)
(*   GET .../websocket (websocket.rs): a token carrying wings_permissions; *)
(*   GET .../activity (activity.rs): the server's activity log;            *)
(*   GET /api/admin/servers (admin/servers/mod.rs): every server, a page   *)
(*     of Server::all_with_pagination.                                     *)
(* (models/server.rs for the queries.)                                     *)
(*                                                                         *)
(* The queries LEFT JOIN server_subusers ON server_id = servers.id AND     *)
(* user_id = $1, so a row's server_subusers.user_id is the user or NULL,   *)
(* and the WHERE clause is evaluated in SQL's three-valued logic: a row is *)
(* kept only when it is TRUE.  The inner joins (node, location, owner,     *)
(* egg) always match under the foreign keys, the LEFT JOINs on the default *)
(* allocation add at most one row, and a (server, user) pair has at most   *)
(* one subuser row, so each server is one row.  The search term is left   *)
(* out (NULL): it narrows every query alike.  The requests only read, so   *)
(* each is one step over a database that stays as Init chose it.          *)
(***************************************************************************)
EXTENDS Integers, Sequences, SequencesExt, FiniteSets

CONSTANTS
    Users,      \* user ids
    Admins,     \* the users with users.admin set
    ServerIds,  \* server ids (integers: the listing is ORDER BY servers.id)
    Perms,      \* permission strings a subuser row may hold
    Pages,      \* page query values a request may carry
    PerPages,   \* per_page query values a request may carry
    Null,       \* SQL NULL; also the NULL subuser grant (owner or admin)
    Nothing     \* no request answered yet

ASSUME Admins \subseteq Users /\ ServerIds \subseteq Nat
ASSUME Pages \subseteq Int /\ PerPages \subseteq Int

VARIABLES
    owner,     \* servers.owner_id
    subusers,  \* server_subusers rows: [server, user, perms]
    resp       \* the last response: the request and what it answered

vars == <<owner, subusers, resp>>

(***************************************************************************)
(* SQL's three-valued comparisons and connectives.                         *)
(***************************************************************************)
SqlEq(a, b)  == IF a = Null \/ b = Null THEN Null ELSE a = b
SqlNeq(a, b) == IF a = Null \/ b = Null THEN Null ELSE a # b
SqlOr(p, q)  == IF p = TRUE \/ q = TRUE THEN TRUE
                ELSE IF p = Null \/ q = Null THEN Null ELSE FALSE
SqlAnd(p, q) == IF p = FALSE \/ q = FALSE THEN FALSE
                ELSE IF p = Null \/ q = Null THEN Null ELSE TRUE

\* The server_subusers row joined to server s for user u, if any.
Row(s, u) == {r \in subusers : r.server = s /\ r.user = u}

\* server_subusers.user_id and .permissions in the joined row.
JoinedSubuser(s, u) == IF Row(s, u) # {} THEN u ELSE Null
JoinedPerms(s, u) == IF Row(s, u) # {} THEN (CHOOSE r \in Row(s, u) : TRUE).perms
                     ELSE Null

\* WHERE (servers.owner_id = $1 OR server_subusers.user_id = $1)
ByUserId(u) ==
    {s \in ServerIds :
        SqlOr(SqlEq(owner[s], u), SqlEq(JoinedSubuser(s, u), u)) = TRUE}

\* WHERE servers.owner_id != $1 AND server_subusers.user_id != $1
ByNotUserId(u) ==
    {s \in ServerIds :
        SqlAnd(SqlNeq(owner[s], u), SqlNeq(JoinedSubuser(s, u), u)) = TRUE}

\* WHERE servers.id = $3 AND (servers.owner_id = $1
\*   OR server_subusers.user_id = $1 OR $2), $2 the user's admin flag.
ByUserIdentifier(u, s) ==
    SqlOr(SqlOr(SqlEq(owner[s], u), SqlEq(JoinedSubuser(s, u), u)),
          u \in Admins) = TRUE

\* ORDER BY servers.id LIMIT per_page OFFSET (page - 1) * per_page, and
\* Pagination's total: COUNT(*) OVER() read from the first row, 0 when the
\* page has no rows.
Paginate(rows, page, perPage) ==
    LET sorted == SetToSortSeq(rows, <)
        offset == (page - 1) * perPage
        data   == IF offset >= Len(sorted) THEN <<>>
                  ELSE SubSeq(sorted, offset + 1,
                              IF offset + perPage < Len(sorted)
                                THEN offset + perPage ELSE Len(sorted))
    IN [data |-> data, total |-> IF data = <<>> THEN 0 ELSE Cardinality(rows)]

\* Server::wings_permissions, as a set: an admin gets "*" and the admin
\* websocket permissions whatever the subuser row; a subuser its row's
\* permissions; the owner "*".
WingsPermissions(u, grant) ==
    IF u \in Admins
      THEN {"websocket.connect", "*", "admin.websocket.errors",
            "admin.websocket.install", "admin.websocket.transfer"}
    ELSE IF grant # Null THEN {"websocket.connect"} \cup grant
    ELSE {"websocket.connect", "*"}

\* Server::into_api_object(&user), as the client listing shows a server:
\* whether the user owns it, and its permissions: "*" for an admin, else
\* the joined subuser permissions, "*" when there are none.
ApiView(s, u) ==
    [id          |-> s,
     is_owner    |-> owner[s] = u,
     permissions |-> IF u \in Admins THEN {"*"}
                     ELSE IF JoinedPerms(s, u) # Null THEN JoinedPerms(s, u)
                     ELSE {"*"}]

Answer(route, u, target, page, status, data, total, token) ==
    resp' = [route |-> route, user |-> u, target |-> target, page |-> page,
             status |-> status, data |-> data, total |-> total, token |-> token]

ValidPage(page, perPage) == page >= 1 /\ perPage >= 1 /\ perPage <= 100

\* The listing route: validate_data, then the other listing for an admin
\* that asks for it, else the user's own; a query error goes out through `?`.
ListServers(u, other, page, perPage) ==
    /\ IF ~ValidPage(page, perPage)
         THEN Answer("list", u, other, page, 400, <<>>, 0, Null)
         ELSE LET p == Paginate(IF other /\ u \in Admins THEN ByNotUserId(u)
                                ELSE ByUserId(u), page, perPage)
              IN \/ Answer("list", u, other, page, 200,
                           [i \in DOMAIN p.data |-> ApiView(p.data[i], u)],
                           p.total, Null)
                 \/ Answer("list", u, other, page, 500, <<>>, 0, Null)
    /\ UNCHANGED <<owner, subusers>>

\* websocket.rs: the server loaded for the user (404 when the query finds
\* none), then node.create_jwt, whose error goes out through `?`.
Websocket(u, s) ==
    /\ IF ~ByUserIdentifier(u, s)
         THEN Answer("websocket", u, s, Null, 404, <<>>, 0, Null)
         ELSE \/ Answer("websocket", u, s, Null, 200, <<>>, 0,
                        WingsPermissions(u, JoinedPerms(s, u)))
              \/ Answer("websocket", u, s, Null, 500, <<>>, 0, Null)
    /\ UNCHANGED <<owner, subusers>>

\* activity.rs: the server loaded for the user, validate_data, then
\* ServerActivity::by_server_id_with_pagination, whose error goes out
\* through `?`; no has_permission check.
Activity(u, s, page, perPage) ==
    /\ IF ~ByUserIdentifier(u, s)
         THEN Answer("activity", u, s, page, 404, <<>>, 0, Null)
       ELSE IF ~ValidPage(page, perPage)
         THEN Answer("activity", u, s, page, 400, <<>>, 0, Null)
       ELSE \/ Answer("activity", u, s, page, 200, <<>>, 0, Null)
            \/ Answer("activity", u, s, page, 500, <<>>, 0, Null)
    /\ UNCHANGED <<owner, subusers>>

\* Server::all_with_pagination: no join on the user, and a WHERE that keeps
\* every server when there is no search term.
AllWithPagination(page, perPage) == Paginate(ServerIds, page, perPage)

\* The admin listing: validate_data (400), then all_with_pagination; a
\* query error goes out through `?`.  The admin middleware in front of the route is not
\* in the repository; the request is an admin's.
AdminListServers(page, perPage) ==
    /\ IF ~ValidPage(page, perPage)
         THEN Answer("admin_list", Null, Null, page, 400, <<>>, 0, Null)
         ELSE LET p == AllWithPagination(page, perPage) IN
              \/ Answer("admin_list", Null, Null, page, 200, p.data, p.total, Null)
              \/ Answer("admin_list", Null, Null, page, 500, <<>>, 0, Null)
    /\ UNCHANGED <<owner, subusers>>

(***************************************************************************)
(* Any ownership and any subuser rows; the owner of a server is never one  *)
(* of its subusers.                                                        *)
(***************************************************************************)
Init ==
    /\ owner \in [ServerIds -> Users]
    /\ subusers \in {rs \in SUBSET [server : ServerIds, user : Users, perms : SUBSET Perms] :
                       \A r, q \in rs : /\ owner[r.server] # r.user
                                        /\ (r.server = q.server /\ r.user = q.user) => r = q}
    /\ resp = Nothing

Next ==
    \E u \in Users, page \in Pages, perPage \in PerPages :
        \/ \E other \in BOOLEAN : ListServers(u, other, page, perPage)
        \/ \E s \in ServerIds : Websocket(u, s) \/ Activity(u, s, page, perPage)
        \/ AdminListServers(page, perPage)

Spec == Init /\ [][Next]_vars

-----------------------------------------------------------------------------
\* The servers an admin asking with other=true is meant to see.
Others(u) == {s \in ServerIds : owner[s] # u /\ Row(s, u) = {}}

(***************************************************************************)
(* The route documents other=true as "returns servers not owned by the     *)
(* user (admin only)": the first page of that listing is empty only when   *)
(* every server is the admin's own or shared with the admin.              *)
(***************************************************************************)
OtherListingFindsOthers ==
    resp # Nothing /\ resp.route = "list" /\ resp.target = TRUE
        /\ resp.user \in Admins /\ resp.status = 200 /\ resp.page = 1
        /\ resp.data = <<>>
        => Others(resp.user) = {}

=============================================================================
