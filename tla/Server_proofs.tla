------------------------------ MODULE Server_proofs ------------------------------
(***************************************************************************)
(* Proofs about Server, for any set of engines and any number of sockets.  *)
(***************************************************************************)
EXTENDS Server, FiniteSetTheorems, TLAPS

\* Between Acquire and Release.
Holding == {"leased", "found", "stale", "clear", "bound", "ready", "serving",
            "draining", "returned"}

\* From the bind to the close of the listener.
Listening == {"bound", "ready", "serving", "draining", "returned", "released",
              "unlinking", "unguarded"}

\* The engines between Acquire and Release are the holder of the lock.
LeaseInv == \A e \in Engines : pc[e] \in Holding <=> lock = e

\* Inodes are not reused: each socket has one engine, and none is newer than
\* the newest.
InodeInv ==
    /\ path # None => path <= binds
    /\ \A e \in Engines :
          /\ pc[e] \in Listening <=> socket[e] # None
          /\ socket[e] # None => socket[e] <= binds
          /\ \A f \in Engines : socket[e] # None /\ socket[e] = socket[f] => e = f
          /\ pc[e] \in Listening \ {"bound"} => guard[e] = socket[e]

\* A listening engine has its socket at the path until it has removed it, and
\* what a starting engine has seen there still holds: nothing, or a socket on
\* which nobody listens.
PathInv ==
    \A e \in Engines :
        /\ pc[e] \in Listening \ {"unguarded"} => path = socket[e]
        /\ pc[e] = "unguarded" => path # socket[e] \/ path \in failed
        /\ pc[e] = "clear" => path = None
        /\ pc[e] = "stale" => path # None /\ ~Answered

\* Work begins under the lease, and ends with the process at the latest.
BusyInv == \A e \in busy : pc[e] \in {"serving", "draining", "returned"} \cup Leaving

ServerInv == TypeOK /\ BusyInv /\ LeaseInv /\ InodeInv /\ PathInv /\ StaleIsFailure

--------------------------------------------------------------------------------

\* No engine runs and there is no file.
LEMMA ServerInit == Init => ServerInv
BY ServerAssumption
DEF Init, ServerInv, TypeOK, BusyInv, LeaseInv, InodeInv, PathInv, StaleIsFailure, Location,
    Holding, Listening

\* No step leaves the types.
LEMMA TypeStep == TypeOK /\ [Next]_vars => TypeOK'
<1> SUFFICES ASSUME TypeOK, [Next]_vars
             PROVE  TypeOK'
  OBVIOUS
<1> USE ServerAssumption DEF TypeOK, Goto, CloseSocket
<1>0. ASSUME NEW e \in Engines, Fail(e)
      PROVE  TypeOK'
  BY <1>0 DEF Fail, Bound, Location
<1>1. ASSUME NEW e \in Engines, Acquire(e)
      PROVE  TypeOK'
  BY <1>1 DEF Acquire, Location
<1>2. ASSUME NEW e \in Engines, Look(e)
      PROVE  TypeOK'
  BY <1>2 DEF Look, Location
<1>3. ASSUME NEW e \in Engines, Probe(e)
      PROVE  TypeOK'
  BY <1>0, <1>3 DEF Probe, Location
<1>4. ASSUME NEW e \in Engines, RemoveStale(e)
      PROVE  TypeOK'
  BY <1>0, <1>4 DEF RemoveStale, Location
<1>5. ASSUME NEW e \in Engines, Bind(e)
      PROVE  TypeOK'
  <2>1. CASE path # None
    BY <1>0, <1>5, <2>1 DEF Bind
  <2>2. CASE path = None
    <3>1. /\ binds' = binds + 1 /\ path' = binds + 1
          /\ binds + 1 \in 1..MaxBinds
      BY <1>5, <2>2 DEF Bind
    <3>2. socket' \in [Engines -> 1..MaxBinds \cup {None}]
      BY <1>5, <2>2, <3>1 DEF Bind
    <3>3. /\ pc' \in [Engines -> Location]
          /\ \A f \in Engines : pc'[f] \in {"off", "lingering"} => socket'[f] = None
      BY <1>5, <2>2 DEF Bind, Location
    <3>4. UNCHANGED <<lock, guard, busy, failed>>
      BY <1>5, <2>2 DEF Bind
    <3> QED
      BY <3>1, <3>2, <3>3, <3>4
  <2> QED
    BY <2>1, <2>2
<1>6. ASSUME NEW e \in Engines, Guard(e)
      PROVE  TypeOK'
  <2>1. CASE path = None
    BY <1>0, <1>6, <2>1 DEF Guard
  <2>2. CASE path # None
    <3>1. /\ guard' = [guard EXCEPT ![e] = path]
          /\ pc' = [pc EXCEPT ![e] = "ready"]
          /\ pc[e] = "bound"
          /\ UNCHANGED <<lock, path, socket, binds, busy, failed>>
      BY <1>6, <2>2 DEF Guard
    <3>2. path \in 1..MaxBinds
      BY <2>2
    <3>3. guard' \in [Engines -> 1..MaxBinds \cup {None}]
      BY <3>1, <3>2
    <3>4. /\ pc' \in [Engines -> Location]
          /\ \A f \in Engines : pc'[f] \in {"off", "lingering"} => socket'[f] = None
      BY <3>1 DEF Location
    <3> QED
      BY <3>1, <3>3, <3>4
  <2> QED
    BY <2>1, <2>2
<1>7. ASSUME NEW e \in Engines, Serve(e)
      PROVE  TypeOK'
  BY <1>7 DEF Serve, Location
<1>8. ASSUME NEW e \in Engines, EndEarly(e)
      PROVE  TypeOK'
  BY <1>8 DEF EndEarly, Bound, Remove, Owns, Location
<1>9. ASSUME NEW e \in Engines, Shutdown(e)
      PROVE  TypeOK'
  BY <1>9 DEF Shutdown, fileVars, Location
<1>10. ASSUME NEW e \in Engines, Release(e)
      PROVE  TypeOK'
  BY <1>10 DEF Release, Location
<1>11. ASSUME NEW e \in Engines, Unguard(e)
      PROVE  TypeOK'
  BY <1>11 DEF Unguard, Location
<1>12. ASSUME NEW e \in Engines, Unlink(e)
      PROVE  TypeOK'
  BY <1>12 DEF Unlink, Bound, Location
<1>13. ASSUME NEW e \in Engines, Close(e)
      PROVE  TypeOK'
  BY <1>13 DEF Close, Location
<1>14. ASSUME NEW e \in Engines, Crash(e)
      PROVE  TypeOK'
  BY <1>14 DEF Crash, Bound, Location
<1>15. CASE UNCHANGED vars
  BY <1>15 DEF vars, fileVars
<1>16. ASSUME NEW e \in Engines, StartFails(e)
      PROVE  TypeOK'
  BY <1>0, <1>16 DEF StartFails, Location
<1>17. ASSUME NEW e \in Engines, Work(e)
      PROVE  TypeOK'
  BY <1>17 DEF Work, fileVars, Location
<1>18. ASSUME NEW e \in Engines, WorkEnds(e)
      PROVE  TypeOK'
  BY <1>18 DEF WorkEnds, fileVars, Location
<1>19. ASSUME NEW e \in Engines, Leave(e)
      PROVE  TypeOK'
  BY <1>19 DEF Leave, fileVars, Location
<1> QED
  BY <1>1, <1>2, <1>3, <1>4, <1>5, <1>6, <1>7, <1>8, <1>9, <1>10, <1>11,
     <1>12, <1>13, <1>14, <1>15, <1>16, <1>17, <1>18, <1>19 DEF Next

\* Only an engine that serves takes up work, and it ends with its process.
LEMMA BusyInvStep == ServerInv /\ [Next]_vars => BusyInv'
<1> SUFFICES ASSUME ServerInv, [Next]_vars
             PROVE  BusyInv'
  OBVIOUS
<1> USE ServerAssumption DEF ServerInv, TypeOK, BusyInv, Goto, Leaving
<1>1. ASSUME NEW e \in Engines, Acquire(e)
      PROVE  BusyInv'
  BY <1>1 DEF Acquire
<1>2. ASSUME NEW e \in Engines, Look(e)
      PROVE  BusyInv'
  BY <1>2 DEF Look
<1>3. ASSUME NEW e \in Engines, Probe(e)
      PROVE  BusyInv'
  BY <1>3 DEF Probe, Fail, Bound
<1>4. ASSUME NEW e \in Engines, RemoveStale(e)
      PROVE  BusyInv'
  BY <1>4 DEF RemoveStale, Fail, Bound
<1>5. ASSUME NEW e \in Engines, Bind(e)
      PROVE  BusyInv'
  BY <1>5 DEF Bind, Fail, Bound
<1>6. ASSUME NEW e \in Engines, Guard(e)
      PROVE  BusyInv'
  BY <1>6 DEF Guard, Fail, Bound
<1>7. ASSUME NEW e \in Engines, Serve(e)
      PROVE  BusyInv'
  BY <1>7 DEF Serve
<1>8. ASSUME NEW e \in Engines, EndEarly(e)
      PROVE  BusyInv'
  BY <1>8 DEF EndEarly, Bound, Remove, Owns
<1>9. ASSUME NEW e \in Engines, Shutdown(e)
      PROVE  BusyInv'
  BY <1>9 DEF Shutdown, fileVars
<1>10. ASSUME NEW e \in Engines, Release(e)
      PROVE  BusyInv'
  BY <1>10 DEF Release
<1>11. ASSUME NEW e \in Engines, Unguard(e)
      PROVE  BusyInv'
  BY <1>11 DEF Unguard
<1>12. ASSUME NEW e \in Engines, Unlink(e)
      PROVE  BusyInv'
  BY <1>12 DEF Unlink, Bound
<1>13. ASSUME NEW e \in Engines, Close(e)
      PROVE  BusyInv'
  BY <1>13 DEF Close
<1>14. ASSUME NEW e \in Engines, Crash(e)
      PROVE  BusyInv'
  BY <1>14 DEF Crash, Bound
<1>15. CASE UNCHANGED vars
  BY <1>15 DEF vars, fileVars
<1>16. ASSUME NEW e \in Engines, StartFails(e)
      PROVE  BusyInv'
  BY <1>16 DEF StartFails, Fail, Bound
<1>17. ASSUME NEW e \in Engines, Work(e)
      PROVE  BusyInv'
  BY <1>17 DEF Work, fileVars
<1>18. ASSUME NEW e \in Engines, WorkEnds(e)
      PROVE  BusyInv'
  BY <1>18 DEF WorkEnds, fileVars
<1>19. ASSUME NEW e \in Engines, Leave(e)
      PROVE  BusyInv'
  BY <1>19 DEF Leave, fileVars
<1> QED
  BY <1>1, <1>2, <1>3, <1>4, <1>5, <1>6, <1>7, <1>8, <1>9, <1>10, <1>11,
     <1>12, <1>13, <1>14, <1>15, <1>16, <1>17, <1>18, <1>19 DEF Next

\* The lock is taken when it is free, and given back by its holder or by the
\* end of its process.
LEMMA LeaseInvStep == ServerInv /\ [Next]_vars => LeaseInv'
<1> SUFFICES ASSUME ServerInv, [Next]_vars
             PROVE  LeaseInv'
  OBVIOUS
<1> USE ServerAssumption DEF ServerInv, TypeOK, LeaseInv, Goto, Holding, Leasable
<1>1. ASSUME NEW e \in Engines, Acquire(e)
      PROVE  LeaseInv'
  BY <1>1 DEF Acquire
<1>2. ASSUME NEW e \in Engines, Look(e)
      PROVE  LeaseInv'
  BY <1>2 DEF Look
<1>3. ASSUME NEW e \in Engines, Probe(e)
      PROVE  LeaseInv'
  BY <1>3 DEF Probe, Fail, Bound
<1>4. ASSUME NEW e \in Engines, RemoveStale(e)
      PROVE  LeaseInv'
  BY <1>4 DEF RemoveStale, Fail, Bound
<1>5. ASSUME NEW e \in Engines, Bind(e)
      PROVE  LeaseInv'
  BY <1>5 DEF Bind, Fail, Bound
<1>6. ASSUME NEW e \in Engines, Guard(e)
      PROVE  LeaseInv'
  BY <1>6 DEF Guard, Fail, Bound
<1>7. ASSUME NEW e \in Engines, Serve(e)
      PROVE  LeaseInv'
  BY <1>7 DEF Serve
<1>8. ASSUME NEW e \in Engines, EndEarly(e)
      PROVE  LeaseInv'
  BY <1>8 DEF EndEarly, Bound, Remove, Owns
<1>9. ASSUME NEW e \in Engines, Shutdown(e)
      PROVE  LeaseInv'
  BY <1>9 DEF Shutdown, fileVars
<1>10. ASSUME NEW e \in Engines, Release(e)
      PROVE  LeaseInv'
  BY <1>10 DEF Release
<1>11. ASSUME NEW e \in Engines, Unguard(e)
      PROVE  LeaseInv'
  BY <1>11 DEF Unguard
<1>12. ASSUME NEW e \in Engines, Unlink(e)
      PROVE  LeaseInv'
  BY <1>12 DEF Unlink, Bound
<1>13. ASSUME NEW e \in Engines, Close(e)
      PROVE  LeaseInv'
  BY <1>13 DEF Close
<1>14. ASSUME NEW e \in Engines, Crash(e)
      PROVE  LeaseInv'
  BY <1>14 DEF Crash, Bound
<1>15. CASE UNCHANGED vars
  BY <1>15 DEF vars, fileVars
<1>16. ASSUME NEW e \in Engines, StartFails(e)
      PROVE  LeaseInv'
  BY <1>16 DEF StartFails, Fail, Bound
<1>17. ASSUME NEW e \in Engines, Work(e)
      PROVE  LeaseInv'
  BY <1>17 DEF Work, fileVars
<1>18. ASSUME NEW e \in Engines, WorkEnds(e)
      PROVE  LeaseInv'
  BY <1>18 DEF WorkEnds, fileVars
<1>19. ASSUME NEW e \in Engines, Leave(e)
      PROVE  LeaseInv'
  BY <1>19 DEF Leave, fileVars
<1> QED
  BY <1>1, <1>2, <1>3, <1>4, <1>5, <1>6, <1>7, <1>8, <1>9, <1>10, <1>11,
     <1>12, <1>13, <1>14, <1>15, <1>16, <1>17, <1>18, <1>19 DEF Next

\* Only Bind makes a socket, with a new inode.
LEMMA InodeInvStep == ServerInv /\ [Next]_vars => InodeInv'
<1> SUFFICES ASSUME ServerInv, [Next]_vars
             PROVE  InodeInv'
  OBVIOUS
<1> USE ServerAssumption DEF ServerInv, TypeOK, InodeInv, Goto, CloseSocket, Listening
<1>1. ASSUME NEW e \in Engines, Acquire(e)
      PROVE  InodeInv'
  BY <1>1 DEF Acquire
<1>2. ASSUME NEW e \in Engines, Look(e)
      PROVE  InodeInv'
  BY <1>2 DEF Look
<1>3. ASSUME NEW e \in Engines, Probe(e)
      PROVE  InodeInv'
  BY <1>3 DEF Probe, Fail, Bound
<1>4. ASSUME NEW e \in Engines, RemoveStale(e)
      PROVE  InodeInv'
  BY <1>4 DEF RemoveStale, Fail, Bound
<1>5. ASSUME NEW e \in Engines, Bind(e)
      PROVE  InodeInv'
  BY <1>5 DEF Bind, Fail, Bound
<1>6. ASSUME NEW e \in Engines, Guard(e)
      PROVE  InodeInv'
  BY <1>6 DEF Guard, Fail, Bound, PathInv
<1>7. ASSUME NEW e \in Engines, Serve(e)
      PROVE  InodeInv'
  BY <1>7 DEF Serve
<1>8. ASSUME NEW e \in Engines, EndEarly(e)
      PROVE  InodeInv'
  BY <1>8 DEF EndEarly, Bound, Remove, Owns
<1>9. ASSUME NEW e \in Engines, Shutdown(e)
      PROVE  InodeInv'
  BY <1>9 DEF Shutdown, fileVars
<1>10. ASSUME NEW e \in Engines, Release(e)
      PROVE  InodeInv'
  BY <1>10 DEF Release
<1>11. ASSUME NEW e \in Engines, Unguard(e)
      PROVE  InodeInv'
  BY <1>11 DEF Unguard
<1>12. ASSUME NEW e \in Engines, Unlink(e)
      PROVE  InodeInv'
  BY <1>12 DEF Unlink, Bound
<1>13. ASSUME NEW e \in Engines, Close(e)
      PROVE  InodeInv'
  BY <1>13 DEF Close
<1>14. ASSUME NEW e \in Engines, Crash(e)
      PROVE  InodeInv'
  BY <1>14 DEF Crash, Bound
<1>15. CASE UNCHANGED vars
  BY <1>15 DEF vars, fileVars
<1>16. ASSUME NEW e \in Engines, StartFails(e)
      PROVE  InodeInv'
  BY <1>16 DEF StartFails, Fail, Bound
<1>17. ASSUME NEW e \in Engines, Work(e)
      PROVE  InodeInv'
  BY <1>17 DEF Work, fileVars
<1>18. ASSUME NEW e \in Engines, WorkEnds(e)
      PROVE  InodeInv'
  BY <1>18 DEF WorkEnds, fileVars
<1>19. ASSUME NEW e \in Engines, Leave(e)
      PROVE  InodeInv'
  BY <1>19 DEF Leave, fileVars
<1> QED
  BY <1>1, <1>2, <1>3, <1>4, <1>5, <1>6, <1>7, <1>8, <1>9, <1>10, <1>11,
     <1>12, <1>13, <1>14, <1>15, <1>16, <1>17, <1>18, <1>19 DEF Next

\* A file at the path is removed by a starting engine that found nobody
\* listening, or by the engine whose socket it is.
LEMMA PathInvStep == ServerInv /\ [Next]_vars => PathInv'
<1> SUFFICES ASSUME ServerInv, [Next]_vars
             PROVE  PathInv'
  OBVIOUS
<1> USE ServerAssumption DEF ServerInv, TypeOK, LeaseInv, InodeInv, PathInv, Goto, CloseSocket,
                            Holding, Listening, Answered, Accepts, Owns, Leasable
<1>1. ASSUME NEW e \in Engines, Acquire(e)
      PROVE  PathInv'
  BY <1>1 DEF Acquire
<1>2. ASSUME NEW e \in Engines, Look(e)
      PROVE  PathInv'
  BY <1>2 DEF Look
<1>3. ASSUME NEW e \in Engines, Probe(e)
      PROVE  PathInv'
  BY <1>3 DEF Probe, Fail, Bound
<1>4. ASSUME NEW e \in Engines, RemoveStale(e)
      PROVE  PathInv'
  BY <1>4 DEF RemoveStale, Fail, Bound
<1>5. ASSUME NEW e \in Engines, Bind(e)
      PROVE  PathInv'
  BY <1>5 DEF Bind, Fail, Bound
<1>6. ASSUME NEW e \in Engines, Guard(e)
      PROVE  PathInv'
  BY <1>6 DEF Guard, Fail, Bound
<1>7. ASSUME NEW e \in Engines, Serve(e)
      PROVE  PathInv'
  BY <1>7 DEF Serve
<1>8. ASSUME NEW e \in Engines, EndEarly(e)
      PROVE  PathInv'
  BY <1>8 DEF EndEarly, Bound, Remove, Owns
<1>9. ASSUME NEW e \in Engines, Shutdown(e)
      PROVE  PathInv'
  BY <1>9 DEF Shutdown, fileVars
<1>10. ASSUME NEW e \in Engines, Release(e)
      PROVE  PathInv'
  BY <1>10 DEF Release
<1>11. ASSUME NEW e \in Engines, Unguard(e)
      PROVE  PathInv'
  BY <1>11 DEF Unguard
<1>12. ASSUME NEW e \in Engines, Unlink(e)
      PROVE  PathInv'
  BY <1>12 DEF Unlink, Bound
<1>13. ASSUME NEW e \in Engines, Close(e)
      PROVE  PathInv'
  BY <1>13 DEF Close
<1>14. ASSUME NEW e \in Engines, Crash(e)
      PROVE  PathInv'
  BY <1>14 DEF Crash, Bound
<1>15. CASE UNCHANGED vars
  BY <1>15 DEF vars, fileVars
<1>16. ASSUME NEW e \in Engines, StartFails(e)
      PROVE  PathInv'
  BY <1>16 DEF StartFails, Fail, Bound
<1>17. ASSUME NEW e \in Engines, Work(e)
      PROVE  PathInv'
  BY <1>17 DEF Work, fileVars
<1>18. ASSUME NEW e \in Engines, WorkEnds(e)
      PROVE  PathInv'
  BY <1>18 DEF WorkEnds, fileVars
<1>19. ASSUME NEW e \in Engines, Leave(e)
      PROVE  PathInv'
  BY <1>19 DEF Leave, fileVars
<1> QED
  BY <1>1, <1>2, <1>3, <1>4, <1>5, <1>6, <1>7, <1>8, <1>9, <1>10, <1>11,
     <1>12, <1>13, <1>14, <1>15, <1>16, <1>17, <1>18, <1>19 DEF Next

\* A listener that closes has removed its socket, or has failed to.
LEMMA StaleIsFailureStep == ServerInv /\ [Next]_vars => StaleIsFailure'
<1> SUFFICES ASSUME ServerInv, [Next]_vars
             PROVE  StaleIsFailure'
  OBVIOUS
<1> USE ServerAssumption DEF ServerInv, TypeOK, InodeInv, PathInv, StaleIsFailure, Goto,
                            CloseSocket,
                            Listening, Answered, Accepts, Owns
<1>1. ASSUME NEW e \in Engines, Acquire(e)
      PROVE  StaleIsFailure'
  BY <1>1 DEF Acquire
<1>2. ASSUME NEW e \in Engines, Look(e)
      PROVE  StaleIsFailure'
  BY <1>2 DEF Look
<1>3. ASSUME NEW e \in Engines, Probe(e)
      PROVE  StaleIsFailure'
  BY <1>3 DEF Probe, Fail, Bound
<1>4. ASSUME NEW e \in Engines, RemoveStale(e)
      PROVE  StaleIsFailure'
  BY <1>4 DEF RemoveStale, Fail, Bound
<1>5. ASSUME NEW e \in Engines, Bind(e)
      PROVE  StaleIsFailure'
  BY <1>5 DEF Bind, Fail, Bound
<1>6. ASSUME NEW e \in Engines, Guard(e)
      PROVE  StaleIsFailure'
  BY <1>6 DEF Guard, Fail, Bound
<1>7. ASSUME NEW e \in Engines, Serve(e)
      PROVE  StaleIsFailure'
  BY <1>7 DEF Serve
<1>8. ASSUME NEW e \in Engines, EndEarly(e)
      PROVE  StaleIsFailure'
  BY <1>8 DEF EndEarly, Bound, Remove, Owns
<1>9. ASSUME NEW e \in Engines, Shutdown(e)
      PROVE  StaleIsFailure'
  BY <1>9 DEF Shutdown, fileVars
<1>10. ASSUME NEW e \in Engines, Release(e)
      PROVE  StaleIsFailure'
  BY <1>10 DEF Release
<1>11. ASSUME NEW e \in Engines, Unguard(e)
      PROVE  StaleIsFailure'
  BY <1>11 DEF Unguard
<1>12. ASSUME NEW e \in Engines, Unlink(e)
      PROVE  StaleIsFailure'
  BY <1>12 DEF Unlink, Bound
<1>13. ASSUME NEW e \in Engines, Close(e)
      PROVE  StaleIsFailure'
  BY <1>13 DEF Close
<1>14. ASSUME NEW e \in Engines, Crash(e)
      PROVE  StaleIsFailure'
  BY <1>14 DEF Crash, Bound
<1>15. CASE UNCHANGED vars
  BY <1>15 DEF vars, fileVars
<1>16. ASSUME NEW e \in Engines, StartFails(e)
      PROVE  StaleIsFailure'
  BY <1>16 DEF StartFails, Fail, Bound
<1>17. ASSUME NEW e \in Engines, Work(e)
      PROVE  StaleIsFailure'
  BY <1>17 DEF Work, fileVars
<1>18. ASSUME NEW e \in Engines, WorkEnds(e)
      PROVE  StaleIsFailure'
  BY <1>18 DEF WorkEnds, fileVars
<1>19. ASSUME NEW e \in Engines, Leave(e)
      PROVE  StaleIsFailure'
  BY <1>19 DEF Leave, fileVars
<1> QED
  BY <1>1, <1>2, <1>3, <1>4, <1>5, <1>6, <1>7, <1>8, <1>9, <1>10, <1>11,
     <1>12, <1>13, <1>14, <1>15, <1>16, <1>17, <1>18, <1>19 DEF Next

--------------------------------------------------------------------------------

LEMMA ServerStep == ServerInv /\ [Next]_vars => ServerInv'
BY TypeStep, BusyInvStep, LeaseInvStep, InodeInvStep, PathInvStep, StaleIsFailureStep DEF ServerInv

LEMMA ServerInvariant == Spec => []ServerInv
BY ServerInit, ServerStep, PTL DEF Spec

\* Every variable keeps its type, whichever engine starts, stops or crashes.
THEOREM TypeCorrect == Spec => []TypeOK
<1>1. ServerInv => TypeOK
  BY DEF ServerInv
<1> QED
  BY <1>1, ServerInvariant, PTL

\* lease.rs:8: of any number of engines that start, stop and crash on one
\* database, at most one may write it that has not been stopped.
THEOREM OneEngineServes == Spec => []OneEngine
<1>1. ServerInv => OneEngine
  <2> SUFFICES ASSUME ServerInv
               PROVE  OneEngine
    OBVIOUS
  <2> DEFINE writers == {e \in Engines : Writes(e) /\ pc[e] \notin Leaving}
  <2>1. writers \subseteq {lock}
    BY DEF ServerInv, BusyInv, LeaseInv, Holding, Writes
  <2>2. IsFiniteSet({lock}) /\ Cardinality({lock}) = 1
    BY FS_Singleton
  <2>3. IsFiniteSet(writers) /\ Cardinality(writers) <= 1
    BY <2>1, <2>2, FS_Subset
  <2> QED
    BY <2>3 DEF OneEngine
<1> QED
  BY <1>1, ServerInvariant, PTL

\* serve_with_state releases the lease before its guard removes the socket and
\* before the listener closes; all the same an engine that serves keeps its
\* socket at the path.
THEOREM ServerIsReached == Spec => []ServesAtPath
<1>1. ServerInv => ServesAtPath
  BY DEF ServerInv, PathInv, Listening, ServesAtPath
<1> QED
  BY <1>1, ServerInvariant, PTL

\* prepare_listener and SocketGuard: only a crash, a start that fails between
\* the bind and its guard, or a removal that fails leaves a socket behind.
THEOREM OnlyFailuresLeaveSockets == Spec => []StaleIsFailure
<1>1. ServerInv => StaleIsFailure
  BY DEF ServerInv
<1> QED
  BY <1>1, ServerInvariant, PTL
================================================================================
