--------------------------- MODULE ProvisioningSaga ---------------------------
(***************************************************************************)
(* Server::create and Server::delete (backend/src/models/server.rs): the  *)
(* saga that keeps the panel's servers table consistent with the         *)
(* workloads held by the node agent (wings).                               *)
(*                                                                         *)
(* Each worker is one request task.  The database is PostgreSQL: a         *)
(* transaction's writes are invisible to others until COMMIT, an INSERT    *)
(* into a unique index waits for a concurrent transaction that inserted   *)
(* or deleted the same key, a DELETE waits for the row lock, a statement   *)
(* error leaves the transaction aborted (every later statement fails with  *)
(* 25P02 until ROLLBACK), and a wait-for cycle is broken by aborting one   *)
(* of the waiters ("deadlock detected").  The agent is reached over HTTP:  *)
(* a request may be refused, applied, or (fault "lost_reply") applied      *)
(* with the reply lost.  A request task can be dropped while it awaits     *)
(* (client disconnect, faults "cancel_create" / "cancel_delete").          *)
(***************************************************************************)
EXTENDS Naturals, Sequences, FiniteSets, Functions, SequencesExt
LOCAL INSTANCE Relation

CONSTANTS
    Workers,    \* concurrent request tasks
    Uuids,      \* identifiers uuid::Uuid::new_v4() may return in a run
    ShortOf,    \* [Uuids -> Int]: uuid.as_fields().0 as i32 (leading 32 bits)
    Allocs,     \* node_allocations ids a request may name
    MaxExtra,   \* bound on Len(allocation_ids) of one request
    Faults,     \* subset of {"lost_reply","cancel_create","cancel_delete","comp_fail"}
    NoAlloc, NoServer, NoUuid, Gone

ASSUME ShortOf \in [Uuids -> Int]
ASSUME Faults \subseteq {"lost_reply", "cancel_create", "cancel_delete", "comp_fail"}

\* The literal of `if attempts >= 8` in Server::create.
RetryLimit == 8

ExtraSeqs == {s \in BoundedSeq(Allocs, MaxExtra) : IsInjective(s)}

VARIABLES
    rows,     \* committed servers (their uuids)
    binding,  \* committed server_allocations: [Allocs -> Uuids \cup {NoServer}]
    dflt,     \* committed servers.allocation_id: [Uuids -> Allocs \cup {NoAlloc}]
    tx,       \* each worker's transaction and its uncommitted writes
    agent,    \* uuids whose workload exists on the agent
    net,      \* agent requests in flight: [w, op, u]
    reply,    \* reply delivered to a waiting worker
    pc,       \* where each request task is
    req,      \* the request's locals (parameters, uuid, attempts)
    used,     \* uuids already generated (v4 identifiers never repeat)
    result,   \* what the last request of each worker returned
    gap,      \* ghost: rows left dangling by the documented causes
    forced    \* ghost: uuids removed by a forced delete over an agent error

vars == <<rows, binding, dflt, tx, agent, net, reply, pc, req, used, result,
          gap, forced>>

NoTx == [st |-> "none", ins |-> NoUuid, binds |-> {}, del |-> NoUuid]

\* The locals of a request task that is not running.
IdleReq == [op |-> "none", u |-> NoUuid, alloc |-> NoAlloc, extra |-> <<>>,
            i |-> 1, force |-> FALSE, attempts |-> 0, tries |-> 0,
            collided |-> 0]

Live(u) == u \in rows

\* Allocations a create binds, in statement order: allocation_id first,
\* then every id of allocation_ids.
ToBind(w) == (IF req[w].alloc = NoAlloc THEN <<>> ELSE <<req[w].alloc>>)
             \o req[w].extra

(***************************************************************************)
(* Lock waits.  Holds(v) is true while v's transaction is not finished.   *)
(***************************************************************************)
Holds(v) == tx[v].st # "none"

ShortWaitsOn(w, s) ==
    {v \in Workers \ {w} :
        /\ Holds(v)
        /\ \/ tx[v].ins # NoUuid /\ ShortOf[tx[v].ins] = s
           \/ tx[v].del # NoUuid /\ ShortOf[tx[v].del] = s}

BindWaitsOn(w, a) ==
    {v \in Workers \ {w} :
        /\ Holds(v)
        /\ \/ a \in tx[v].binds
           \/ tx[v].del # NoUuid /\ binding[a] = tx[v].del}

RowWaitsOn(w, u) == {v \in Workers \ {w} : Holds(v) /\ tx[v].del = u}

WaitsOn(w) ==
    CASE pc[w] = "c_insert" -> ShortWaitsOn(w, ShortOf[req[w].u])
      [] pc[w] = "c_bind" /\ req[w].i <= Len(ToBind(w))
                          -> BindWaitsOn(w, ToBind(w)[req[w].i])
      [] pc[w] \in {"c_compensate", "d_delete"} -> RowWaitsOn(w, req[w].u)
      [] OTHER -> {}

Deadlocked(w) ==
    TransitiveClosure([p \in Workers \X Workers |-> p[2] \in WaitsOn(p[1])],
                      Workers)[w, w]

(***************************************************************************)
(* Committing a transaction: the inserted row with its bindings and       *)
(* default pointer, or the deleted row with its cascaded bindings.        *)
(***************************************************************************)
CommitTx(w) ==
    LET t == tx[w] IN
    /\ rows' = (rows \cup ({t.ins} \ {NoUuid})) \ {t.del}
    /\ binding' = [a \in Allocs |->
                     CASE a \in t.binds            -> t.ins
                       [] binding[a] = t.del       -> NoServer
                       [] OTHER                    -> binding[a]]
    /\ dflt' = [u \in Uuids |->
                  CASE u = t.ins -> req[w].alloc
                    [] u = t.del -> NoAlloc
                    [] OTHER     -> dflt[u]]
    /\ tx' = [tx EXCEPT ![w] = NoTx]

Rollback(w) == tx' = [tx EXCEPT ![w] = NoTx]

\* The task returns r; q holds its final locals.
Finish(w, r, q) ==
    /\ pc' = [pc EXCEPT ![w] = "idle"]
    /\ result' = [result EXCEPT ![w] = [r |-> r, tries |-> q.tries,
                                       collided |-> q.collided]]
    /\ req' = [req EXCEPT ![w] = IdleReq]

Send(w, op, u) ==
    /\ net' = net \cup {[w |-> w, op |-> op, u |-> u]}
    /\ reply' = [reply EXCEPT ![w] = "none"]

(***************************************************************************)
(* Server::create                                                          *)
(***************************************************************************)
CreateBegin(w) ==
    /\ pc[w] = "idle"
    \* one uuid for every create that has yet to draw its own
    /\ Cardinality(Uuids \ used) > Cardinality({v \in Workers : pc[v] = "c_gen"})
    /\ \E a \in Allocs \cup {NoAlloc}, ex \in ExtraSeqs :
          req' = [req EXCEPT ![w] = [IdleReq EXCEPT !.op = "create",
                                       !.alloc = a, !.extra = ex]]
    /\ tx' = [tx EXCEPT ![w] = [NoTx EXCEPT !.st = "open"]]
    /\ pc' = [pc EXCEPT ![w] = "c_gen"]
    /\ UNCHANGED <<rows, binding, dflt, agent, net, reply, used, result, gap,
                   forced>>

(***************************************************************************)
(* The Err arm of the insert.  The failed INSERT has aborted the           *)
(* transaction, so every later iteration of the loop fails at once with    *)
(* 25P02: `attempts` climbs to 8 and the ninth failure rolls back and      *)
(* returns.  Those iterations take no lock and write nothing shared, so    *)
(* they are taken together with the first failure.                        *)
(***************************************************************************)
\* Mutant: the loop runs one iteration too many.
InsertFailedOffByOne(w) ==
    LET q == req[w]
        left == IF q.attempts >= RetryLimit THEN 0 ELSE RetryLimit - q.attempts + 1
    IN  /\ Rollback(w)
        /\ Finish(w, "exhausted",
                  [q EXCEPT !.attempts = @ + left, !.tries = @ + 1 + left,
                            !.collided = @ + 1])

InsertFailed(w) ==
    LET q == req[w]
        left == IF q.attempts >= RetryLimit THEN 0 ELSE RetryLimit - q.attempts
    IN  /\ Rollback(w)
        /\ Finish(w, "exhausted",
                  [q EXCEPT !.attempts = @ + left, !.tries = @ + 1 + left,
                            !.collided = @ + 1])

\* uuid::Uuid::new_v4() and its uuid_short.
CreateGenerate(w) ==
    /\ pc[w] = "c_gen"
    /\ \E u \in Uuids \ used :
          /\ used' = used \cup {u}
          /\ req' = [req EXCEPT ![w].u = u]
    /\ pc' = [pc EXCEPT ![w] = "c_insert"]
    /\ UNCHANGED <<rows, binding, dflt, tx, agent, net, reply, result, gap,
                   forced>>

\* INSERT INTO servers: waits on a concurrent holder of the short id.
CreateInsert(w) ==
    LET u == req[w].u IN
    /\ pc[w] = "c_insert"
    /\ ShortWaitsOn(w, ShortOf[u]) = {}
    /\ IF \E v \in Uuids : Live(v) /\ ShortOf[v] = ShortOf[u]
         THEN InsertFailed(w)
         ELSE /\ tx' = [tx EXCEPT ![w].ins = u]
              /\ pc' = [pc EXCEPT ![w] = "c_bind"]
              /\ req' = [req EXCEPT ![w].tries = @ + 1]
              /\ UNCHANGED result
    /\ UNCHANGED <<rows, binding, dflt, agent, net, reply, used, gap, forced>>

CreateBind(w) ==
    LET a == ToBind(w)[req[w].i] IN
    /\ pc[w] = "c_bind"
    /\ req[w].i <= Len(ToBind(w))
    /\ BindWaitsOn(w, a) = {}
    /\ IF binding[a] # NoServer \/ a \in tx[w].binds
         THEN /\ Rollback(w)
              /\ Finish(w, "conflict", req[w])
         ELSE /\ tx' = [tx EXCEPT ![w].binds = @ \cup {a}]
              /\ req' = [req EXCEPT ![w].i = @ + 1]
              /\ UNCHANGED <<pc, result>>
    /\ UNCHANGED <<rows, binding, dflt, agent, net, reply, used, gap, forced>>

\* UPDATE servers SET allocation_id, COMMIT, then POST /api/servers.
CreateCommit(w) ==
    /\ pc[w] = "c_bind"
    /\ req[w].i > Len(ToBind(w))
    /\ CommitTx(w)
    /\ Send(w, "create", req[w].u)
    /\ pc' = [pc EXCEPT ![w] = "c_await"]
    /\ UNCHANGED <<agent, req, used, result, gap, forced>>

CreateAwait(w) ==
    /\ pc[w] = "c_await"
    /\ reply[w] # "none"
    /\ IF reply[w] = "ok"
         THEN Finish(w, "ok", req[w])
         ELSE /\ pc' = [pc EXCEPT ![w] = "c_compensate"]
              /\ UNCHANGED <<req, result>>
    /\ UNCHANGED <<rows, binding, dflt, tx, agent, net, reply, used, gap,
                   forced>>

\* Mutant: the agent error is returned without the compensating delete.
CreateCompensateSkipped(w) ==
    /\ pc[w] = "c_compensate"
    /\ Finish(w, "agent_err", req[w])
    /\ UNCHANGED <<rows, binding, dflt, tx, agent, net, reply, used, gap, forced>>

\* DELETE FROM servers WHERE id, outside any transaction.  When it fails,
\* `?` returns the database error in place of the agent's.
CreateCompensate(w) ==
    LET u == req[w].u IN
    /\ pc[w] = "c_compensate"
    /\ RowWaitsOn(w, u) = {}
    /\ \/ /\ rows' = rows \ {u}
          /\ binding' = [a \in Allocs |->
                           IF binding[a] = u THEN NoServer ELSE binding[a]]
          /\ dflt' = [dflt EXCEPT ![u] = NoAlloc]
          /\ Finish(w, "agent_err", req[w])
          /\ UNCHANGED gap
       \/ /\ "comp_fail" \in Faults
          /\ Finish(w, "db_err", req[w])
          /\ gap' = gap \cup {u}
          /\ UNCHANGED <<rows, binding, dflt>>
    /\ UNCHANGED <<tx, agent, net, reply, used, forced>>

(***************************************************************************)
(* Server::delete                                                          *)
(***************************************************************************)
DeleteBegin(w) ==
    /\ pc[w] = "idle"
    /\ \E u \in Uuids, f \in BOOLEAN :
          /\ Live(u)
          /\ req' = [req EXCEPT ![w] = [IdleReq EXCEPT !.op = "delete",
                                          !.u = u, !.force = f]]
    /\ tx' = [tx EXCEPT ![w] = [NoTx EXCEPT !.st = "open"]]
    /\ pc' = [pc EXCEPT ![w] = "d_delete"]
    /\ UNCHANGED <<rows, binding, dflt, agent, net, reply, used, result, gap,
                   forced>>

\* DELETE FROM servers inside the transaction (row lock, zero rows if a
\* concurrent delete committed first), then DELETE /api/servers/{uuid}.
DeleteRow(w) ==
    LET u == req[w].u IN
    /\ pc[w] = "d_delete"
    /\ RowWaitsOn(w, u) = {}
    /\ tx' = [tx EXCEPT ![w].del = IF Live(u) THEN u ELSE NoUuid]
    /\ Send(w, "delete", u)
    /\ pc' = [pc EXCEPT ![w] = "d_await"]
    /\ UNCHANGED <<rows, binding, dflt, agent, req, used, result, gap, forced>>

\* Mutant: the forced arm rolls back and still returns Ok.
DeleteAwaitForceRollback(w) ==
    /\ pc[w] = "d_await"
    /\ reply[w] # "none"
    /\ \/ /\ reply[w] = "ok"
          /\ CommitTx(w)
          /\ Finish(w, "ok", req[w])
       \/ /\ reply[w] = "err"
          /\ Rollback(w)
          /\ Finish(w, IF req[w].force THEN "ok" ELSE "agent_err", req[w])
          /\ UNCHANGED <<rows, binding, dflt>>
    /\ UNCHANGED <<agent, net, reply, used, gap, forced>>

DeleteAwait(w) ==
    LET u == req[w].u IN
    /\ pc[w] = "d_await"
    /\ reply[w] # "none"
    /\ \/ /\ reply[w] = "ok"
          /\ CommitTx(w)
          /\ Finish(w, "ok", req[w])
          /\ UNCHANGED forced
       \/ /\ reply[w] = "err"
          /\ req[w].force
          /\ CommitTx(w)
          /\ Finish(w, "ok", req[w])
          /\ forced' = forced \cup {u}
       \/ /\ reply[w] = "err"
          /\ ~req[w].force
          /\ Rollback(w)
          /\ Finish(w, "agent_err", req[w])
          /\ UNCHANGED <<rows, binding, dflt, forced>>
    /\ UNCHANGED <<agent, net, reply, used, gap>>

(***************************************************************************)
(* The database breaks a wait-for cycle by failing one waiter's statement; *)
(* the `?` returns it and the dropped transaction rolls back.             *)
(***************************************************************************)
DeadlockVictim(w) ==
    /\ Deadlocked(w)
    /\ Rollback(w)
    /\ Finish(w, "db_err", req[w])
    /\ UNCHANGED <<rows, binding, dflt, agent, net, reply, used, gap, forced>>

(***************************************************************************)
(* The request task is dropped while it awaits.  Its transaction rolls     *)
(* back; a request already sent to the agent stays in flight.             *)
(***************************************************************************)
Cancel(w) ==
    /\ \/ pc[w] \in {"c_await", "c_compensate"} /\ "cancel_create" \in Faults
       \/ pc[w] = "d_await" /\ "cancel_delete" \in Faults
    /\ Rollback(w)
    /\ Finish(w, "cancelled", req[w])
    /\ net' = {IF m.w = w THEN [m EXCEPT !.w = Gone] ELSE m : m \in net}
    /\ gap' = IF pc[w] = "d_await" THEN gap ELSE gap \cup {req[w].u}
    /\ UNCHANGED <<rows, binding, dflt, agent, reply, used, forced>>

(***************************************************************************)
(* The agent (wings).  POST /api/servers creates the workload, DELETE      *)
(* removes it or answers 404; either may fail without effect.  The reply   *)
(* reaches the worker only if it still awaits that request.               *)
(***************************************************************************)
Deliver(m, r) ==
    reply' = IF m.w # Gone /\ pc[m.w] \in {"c_await", "d_await"}
                THEN [reply EXCEPT ![m.w] = r] ELSE reply

AgentServe(m) ==
    /\ m \in net
    /\ net' = net \ {m}
    /\ LET applies == IF m.op = "create" THEN m.u \notin agent ELSE m.u \in agent
       IN \/ /\ applies
             /\ agent' = IF m.op = "create" THEN agent \cup {m.u}
                                            ELSE agent \ {m.u}
             /\ \/ Deliver(m, "ok")
                \/ "lost_reply" \in Faults /\ Deliver(m, "err")
          \/ /\ ~applies
             /\ Deliver(m, "err")
             /\ UNCHANGED agent
    /\ UNCHANGED <<rows, binding, dflt, tx, pc, req, used, result, gap, forced>>

AgentFail(m) ==
    /\ m \in net
    /\ net' = net \ {m}
    /\ Deliver(m, "err")
    /\ UNCHANGED <<rows, binding, dflt, tx, agent, pc, req, used, result, gap,
                   forced>>

\* Every uuid generated, nothing in flight and nothing left to delete.
Finished ==
    /\ \A w \in Workers : pc[w] = "idle"
    /\ net = {}
    /\ used = Uuids
    /\ \A u \in Uuids : ~Live(u)
    /\ UNCHANGED vars

Init ==
    /\ rows = {}
    /\ binding = [a \in Allocs |-> NoServer]
    /\ dflt = [u \in Uuids |-> NoAlloc]
    /\ tx = [w \in Workers |-> NoTx]
    /\ agent = {}
    /\ net = {}
    /\ reply = [w \in Workers |-> "none"]
    /\ pc = [w \in Workers |-> "idle"]
    /\ req = [w \in Workers |-> IdleReq]
    /\ used = {}
    /\ result = [w \in Workers |-> [r |-> "none", tries |-> 0, collided |-> 0]]
    /\ gap = {}
    /\ forced = {}

Step(w) ==
    \/ CreateBegin(w) \/ CreateGenerate(w) \/ CreateInsert(w)
    \/ CreateBind(w) \/ CreateCommit(w) \/ CreateAwait(w)
    \/ CreateCompensate(w)
    \/ DeleteBegin(w) \/ DeleteRow(w) \/ DeleteAwait(w)

Next ==
    \/ \E w \in Workers : Step(w) \/ DeadlockVictim(w) \/ Cancel(w)
    \/ \E m \in net : AgentServe(m) \/ AgentFail(m)
    \/ Finished

(***************************************************************************)
(* Fairness.  A started request task keeps running (tokio polls it) and a  *)
(* PostgreSQL lock is granted in queue order, so a task's own steps are    *)
(* strongly fair: a step that waits on a lock is taken once the lock is    *)
(* free often enough.  The deadlock detector runs after deadlock_timeout.  *)
(* The agent eventually answers every request (the reqwest client sets no  *)
(* timeout, so without this the saga may hang).  Starting a request and    *)
(* cancelling one are client choices: not fair.                           *)
(***************************************************************************)
Progress(w) ==
    \/ CreateGenerate(w) \/ CreateInsert(w) \/ CreateBind(w) \/ CreateCommit(w)
    \/ CreateAwait(w) \/ CreateCompensate(w) \/ DeleteRow(w) \/ DeleteAwait(w)

Fairness ==
    /\ \A w \in Workers : SF_vars(Progress(w))
    /\ WF_vars(\E w \in Workers : DeadlockVictim(w))
    /\ \A w \in Workers \cup {Gone} :
          WF_vars(\E m \in net : m.w = w /\ (AgentServe(m) \/ AgentFail(m)))

Spec == Init /\ [][Next]_vars /\ Fairness

-----------------------------------------------------------------------------
(***************************************************************************)
(* Properties                                                              *)
(***************************************************************************)

TypeOK ==
    /\ rows \subseteq Uuids
    /\ binding \in [Allocs -> Uuids \cup {NoServer}]
    /\ dflt \in [Uuids -> Allocs \cup {NoAlloc}]
    /\ \A w \in Workers :
          /\ tx[w].st \in {"none", "open"}
          /\ tx[w].ins \in Uuids \cup {NoUuid}
          /\ tx[w].del \in Uuids \cup {NoUuid}
          /\ tx[w].binds \subseteq Allocs
    /\ agent \subseteq Uuids
    /\ used \subseteq Uuids
    /\ reply \in [Workers -> {"none", "ok", "err"}]
    /\ net \subseteq [w : Workers \cup {Gone}, op : {"create", "delete"}, u : Uuids]
    /\ \A w \in Workers :
          /\ req[w].attempts \in 0..RetryLimit
          \* the ninth INSERT is the last one the loop can reach
          /\ result[w].tries \in 0..RetryLimit + 1
          /\ result[w].collided \in 0..result[w].tries
    /\ gap \cup forced \subseteq used

\* No worker and no agent request is still working on u.
Settled(u) ==
    /\ \A w \in Workers : pc[w] = "idle" \/ req[w].u # u
    /\ \A m \in net : m.u # u

(***************************************************************************)
(* Once nothing is working on a server, the servers table and the agent    *)
(* agree on it, except for the two gaps the design accepts: a row with no  *)
(* workload left by a failed compensating delete or by a create abandoned  *)
(* after its commit, and a workload with no row left by a forced delete   *)
(* whose agent call failed (Server::create, Server::delete).              *)
(***************************************************************************)
SettledConsistent ==
    \A u \in used : Settled(u) =>
        /\ Live(u) /\ u \notin agent => u \in gap
        /\ u \in agent /\ ~Live(u) => u \in forced

(***************************************************************************)
(* A delete that reports success, forced or not, leaves no server row      *)
(* behind (Server::delete commits on both Ok paths).                       *)
(***************************************************************************)
DeleteSuccessRemovesRow ==
    [][\A w \in Workers :
         (pc[w] = "d_await" /\ pc'[w] = "idle" /\ result'[w].r = "ok")
           => req[w].u \notin rows']_vars

ExhaustedOnlyByCollisions ==
    \A w \in Workers :
        result[w].r = "exhausted" => result[w].collided = result[w].tries

=============================================================================
