--------------------------------- MODULE Server ---------------------------------
(***************************************************************************)
(* How an engine starts and stops: the lease of its database               *)
(* (DatabaseLease), its socket (prepare_listener, SocketGuard) and the     *)
(* order in which serve_until and serve_with_state give them back.  What   *)
(* the handlers and workers of an engine write is left to the other        *)
(* modules; here it matters only how long they may.                        *)
(*                                                                         *)
(* Several engines of one database and one socket path are started, are    *)
(* stopped and crash at any time.  Steps on the file system interleave;    *)
(* nothing else removes the socket.                                        *)
(***************************************************************************)
EXTENDS Naturals, FiniteSets

CONSTANTS
    Engines,
    MaxBinds,   \* bound: sockets bound, over all engines
    None

ASSUME ServerAssumption == MaxBinds \in Nat /\ None \notin Engines \cup Nat

VARIABLES
    pc,       \* where each engine is
    lock,     \* the engine that holds the lock file; external: flock
    path,     \* the socket at the path, by its inode; None without a file
    socket,   \* the socket each engine has bound; None once it is closed
    guard,    \* the inode in each engine's SocketGuard
    binds,    \* the newest inode
    busy,     \* engines with a handler or worker that may write the database
    failed    \* history: sockets whose engine crashed, failed before it had its
              \* guard, or failed to remove them

fileVars == <<lock, path, socket, guard, binds, failed>>
vars == <<pc, busy, fileVars>>

Location ==
    {"off", "leased", "found", "stale", "clear", "bound", "ready", "serving",
     "draining", "returned", "released", "unlinking", "unguarded", "lingering"}

TypeOK ==
    /\ pc \in [Engines -> Location]
    /\ lock \in Engines \cup {None}
    /\ path \in 1..MaxBinds \cup {None}
    /\ socket \in [Engines -> 1..MaxBinds \cup {None}]
    /\ guard \in [Engines -> 1..MaxBinds \cup {None}]
    /\ binds \in 0..MaxBinds
    /\ busy \subseteq Engines
    /\ failed \subseteq 1..MaxBinds
    /\ \A e \in Engines : pc[e] \in {"off", "lingering"} => socket[e] = None

Init ==
    /\ pc = [e \in Engines |-> "off"]
    /\ lock = None
    /\ path = None
    /\ socket = [e \in Engines |-> None]
    /\ guard = [e \in Engines |-> None]
    /\ binds = 0
    /\ busy = {}
    /\ failed = {}

Goto(e, to) == pc' = [pc EXCEPT ![e] = to]

CloseSocket(e) == socket' = [socket EXCEPT ![e] = None]

\* The socket of the engine, if it has bound one.
Bound(e) == {socket[e]} \ {None}

--------------------------------------------------------------------------------
(* Start *)

\* Mutated form: the engine goes on without the lock.
Leasable_Always == TRUE

\* flock(LOCK_EX | LOCK_NB)
Leasable == lock = None

\* DatabaseLease::acquire; an engine that is refused ends.
Acquire(e) ==
    /\ pc[e] = "off"
    /\ Leasable
    /\ lock' = e
    /\ Goto(e, "leased")
    /\ UNCHANGED <<path, socket, guard, binds, busy, failed>>

\* An error of prepare_listener: what the engine has bound is closed, but not
\* removed, and the lease is given back.
Fail(e) ==
    /\ Goto(e, "off")
    /\ lock' = None
    /\ CloseSocket(e)
    /\ failed' = failed \cup Bound(e)
    /\ UNCHANGED <<path, guard, binds, busy>>

\* Any of its calls may fail: the metadata, the removal, the parent directory,
\* the bind; and after the bind set_permissions and SocketGuard::new.
StartFails(e) ==
    /\ pc[e] \in {"leased", "found", "stale", "clear", "bound"}
    /\ Fail(e)

\* socket_path.exists()
Look(e) ==
    /\ pc[e] = "leased"
    /\ Goto(e, IF path = None THEN "clear" ELSE "found")
    /\ UNCHANGED <<lock, path, socket, guard, binds, busy, failed>>

\* Mutated form: the listener is closed before the lease is released.
Accepts_UntilReleased(e) == pc[e] \notin {"released", "unlinking", "unguarded"}

\* The listener is the last thing that a stopping engine drops.
Accepts(e) == pc[e] # "off"

\* Some engine listens on the socket at the path.
Answered == \E e \in Engines : socket[e] # None /\ socket[e] = path /\ Accepts(e)

\* UnixStream::connect tells a live socket from a stale one; the metadata of a
\* socket that is gone meanwhile is an error.
Probe(e) ==
    /\ pc[e] = "found"
    /\ IF path = None \/ Answered
       THEN Fail(e)
       ELSE Goto(e, "stale") /\ UNCHANGED <<lock, path, socket, guard, binds, busy, failed>>

\* remove_file
RemoveStale(e) ==
    /\ pc[e] = "stale"
    /\ IF path = None
       THEN Fail(e)
       ELSE /\ path' = None
            /\ Goto(e, "clear")
            /\ UNCHANGED <<lock, socket, guard, binds, busy, failed>>

\* UnixListener::bind makes the file; it does not replace one.
Bind(e) ==
    /\ pc[e] = "clear"
    /\ IF path # None
       THEN Fail(e)
       ELSE /\ binds < MaxBinds
            /\ binds' = binds + 1
            /\ path' = binds + 1
            /\ socket' = [socket EXCEPT ![e] = binds + 1]
            /\ Goto(e, "bound")
            /\ UNCHANGED <<lock, guard, busy, failed>>

\* SocketGuard::new records the inode found at the path.
Guard(e) ==
    /\ pc[e] = "bound"
    /\ IF path = None
       THEN Fail(e)
       ELSE /\ guard' = [guard EXCEPT ![e] = path]
            /\ Goto(e, "ready")
            /\ UNCHANGED <<lock, path, socket, binds, busy, failed>>

\* EventStore::open, with its recovery, and the accept loop; an error returns.
Serve(e) ==
    /\ pc[e] = "ready"
    /\ pc' \in {[pc EXCEPT ![e] = "serving"], [pc EXCEPT ![e] = "returned"]}
    /\ UNCHANGED <<lock, path, socket, guard, binds, busy, failed>>

--------------------------------------------------------------------------------
(* Stop *)

\* Mutated form: the guard takes no socket for its own.
Owns_Never(e) == FALSE

\* device and inode
Owns(e) == path = guard[e]

\* SocketGuard::drop removes the file of its engine; where that fails, it logs it.
Remove(e) ==
    \/ /\ path' = IF Owns(e) THEN None ELSE path
       /\ UNCHANGED failed
    \/ /\ failed' = failed \cup Bound(e)
       /\ UNCHANGED path

\* A shutdown while Codex is looked for: serve_until drops the guard, the
\* listener and then, the lease being the oldest, the lease.
EndEarly(e) ==
    /\ pc[e] = "ready"
    /\ Remove(e)
    /\ CloseSocket(e)
    /\ guard' = [guard EXCEPT ![e] = None]
    /\ lock' = None
    /\ Goto(e, "off")
    /\ UNCHANGED <<binds, busy>>

\* A handler runs, or a synchronization is spawned ...
Work(e) ==
    /\ pc[e] = "serving"
    /\ busy' = busy \cup {e}
    /\ UNCHANGED <<pc, fileVars>>

\* ... and the last of them ends, whatever has become of the accept loop.
WorkEnds(e) ==
    /\ e \in busy
    /\ busy' = busy \ {e}
    /\ UNCHANGED <<pc, fileVars>>

\* The shutdown signal ends the accept loop; the synchronizations are told and
\* not awaited, and the connections are aborted and awaited for
\* CONNECTION_DRAIN_TIMEOUT, which a handler that blocks outlasts.  An error
\* of accept returns at once.
Shutdown(e) ==
    /\ \/ pc[e] = "serving" /\ Goto(e, "draining")
       \/ pc[e] \in {"serving", "draining"} /\ Goto(e, "returned")
    /\ UNCHANGED <<busy, fileVars>>

\* The parameters of serve_with_state are dropped in reverse order: _lease,
\* though the engine may still be busy ...
Release(e) ==
    /\ pc[e] = "returned"
    /\ lock' = None
    /\ Goto(e, "released")
    /\ UNCHANGED <<path, socket, guard, binds, busy, failed>>

\* ... _socket_guard, whose drop looks at the path
Unguard(e) ==
    /\ pc[e] = "released"
    /\ Goto(e, IF Owns(e) THEN "unlinking" ELSE "unguarded")
    /\ UNCHANGED <<lock, path, socket, guard, binds, busy, failed>>

\* and removes the file that is there by then, unless that fails,
Unlink(e) ==
    /\ pc[e] = "unlinking"
    /\ \/ path' = None /\ UNCHANGED failed
       \/ failed' = failed \cup Bound(e) /\ UNCHANGED path
    /\ Goto(e, "unguarded")
    /\ UNCHANGED <<lock, socket, guard, binds, busy>>

\* ... and listener.
Close(e) ==
    /\ pc[e] = "unguarded"
    /\ CloseSocket(e)
    /\ guard' = [guard EXCEPT ![e] = None]
    /\ Goto(e, "lingering")
    /\ UNCHANGED <<lock, path, binds, busy, failed>>

\* The process ends when the runtime has stopped what was still running.
Leave(e) ==
    /\ pc[e] = "lingering"
    /\ e \notin busy
    /\ Goto(e, "off")
    /\ UNCHANGED <<busy, fileVars>>

\* The process is killed; the system closes its files.
Crash(e) ==
    /\ pc[e] # "off"
    /\ Goto(e, "off")
    /\ lock' = IF lock = e THEN None ELSE lock
    /\ CloseSocket(e)
    /\ guard' = [guard EXCEPT ![e] = None]
    /\ failed' = failed \cup Bound(e)
    /\ busy' = busy \ {e}
    /\ UNCHANGED <<path, binds>>

--------------------------------------------------------------------------------

Next ==
    \E e \in Engines :
        \/ Acquire(e) \/ Look(e) \/ Probe(e) \/ RemoveStale(e) \/ Bind(e)
        \/ Guard(e) \/ StartFails(e) \/ Serve(e) \/ Work(e) \/ WorkEnds(e)
        \/ EndEarly(e) \/ Shutdown(e) \/ Release(e) \/ Unguard(e) \/ Unlink(e) \/ Close(e)
        \/ Leave(e) \/ Crash(e)

Spec == Init /\ [][Next]_vars

--------------------------------------------------------------------------------
(* Properties *)

\* Engines that have stopped and given the lease back.
Leaving == {"released", "unlinking", "unguarded", "lingering"}

\* Engines that may write the database.
Writes(e) == pc[e] \in {"serving", "draining"} \/ e \in busy

\* lease.rs:8: of the engines that may write one database, whichever of them
\* stops, crashes or fails half-way through its start, all but one are leaving:
\* stopped by a shutdown or an error of accept, with work that the drain did
\* not wait for.  (The comment has no such exception.)
OneEngine ==
    Cardinality({e \in Engines : Writes(e) /\ pc[e] \notin Leaving}) <= 1

\* An engine that serves is the one that clients reach at the path: neither the
\* start of another engine nor the end of its predecessor, whose guard removes a
\* file after the lease is given back, takes its socket away.
ServesAtPath == \A e \in Engines : pc[e] = "serving" => path = socket[e]

\* A socket without a listener was left by a crash, by a start that failed after
\* its bind or by a removal that failed; every other end of an engine cleans up
\* (tests/rpc_socket.rs:261), and takes nothing of another engine with it.
StaleIsFailure == path # None => path \in failed \/ Answered
================================================================================
