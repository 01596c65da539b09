------------------------ MODULE BhttpLifecycleProofs ------------------------
(***************************************************************************)
(* Theorems about BhttpLifecycle, for any finite set of connections, in    *)
(* bserve and as a library.                                                *)
(***************************************************************************)
EXTENDS BhttpLifecycle, FiniteSetTheorems, TLAPS

USE LifecycleAssumption

States == {"none", "backlog", "accepted", "idle", "reply", "closed"}

\* TypeOK but for the bound on wg, which the count of the handlers gives.
Shape ==
  /\ start \in {"listen", "register", "accept", "check", "add", "returned", "failed"}
  /\ stop \in {"none", "lock", "wait", "blocked", "released", "returned"}
  /\ listener \in {"none", "open", "closed"}
  /\ {inBserve, registered, active} \subseteq BOOLEAN /\ exited \in {"no", "exit", "panic"}
  /\ left \subseteq Conns /\ conns \in [Conns -> States]

\* Start has registered the listener before it accepts, and from then on only
\* Deactivate, which closes the listener, makes the server inactive.
Shutdown ==
  /\ start \in {"accept", "check", "add", "returned"} => registered
  /\ start \in {"accept", "check", "add"} /\ ~active => stop \notin {"none", "lock"} /\ listener = "closed"
  /\ StartReturnsAfterStop

IInv == Shape /\ WgCountsHandlers /\ Shutdown

-----------------------------------------------------------------------------
(* The handlers that run, and the counter                                  *)

LEMMA HandlersFinite ==
  /\ IsFiniteSet(Handlers) /\ Cardinality(Handlers) \in 0..Cardinality(Conns)
<1>1. Handlers \subseteq Conns
  BY DEF Handlers
<1>2. IsFiniteSet(Handlers) /\ Cardinality(Handlers) <= Cardinality(Conns)
  BY <1>1, FS_Subset
<1> QED
  BY <1>2, FS_CardinalityType

LEMMA HandlersSame ==
  ASSUME WgCountsHandlers, UNCHANGED wg, Handlers' = Handlers
  PROVE  WgCountsHandlers'
BY DEF WgCountsHandlers

LEMMA HandlerStarts ==
  ASSUME Shape, WgCountsHandlers, NEW c \in Conns, c \notin Handlers,
         conns' = [conns EXCEPT ![c] = "idle"], wg' = wg + 1
  PROVE  WgCountsHandlers'
<1>1. Handlers' = Handlers \cup {c}
  BY DEF Handlers, Shape
<1>2. Cardinality(Handlers \cup {c}) = Cardinality(Handlers) + 1
  BY HandlersFinite, FS_AddElement
<1> QED
  BY <1>1, <1>2 DEF WgCountsHandlers

LEMMA HandlerEnds ==
  ASSUME Shape, WgCountsHandlers, NEW c \in Conns, c \in Handlers,
         conns' = [conns EXCEPT ![c] = "closed"], wg' = wg - 1
  PROVE  WgCountsHandlers'
<1>1. Handlers' = Handlers \ {c}
  BY DEF Handlers, Shape
<1>2. Cardinality(Handlers \ {c}) = Cardinality(Handlers) - 1
  BY HandlersFinite, FS_RemoveElement
<1> QED
  BY <1>1, <1>2 DEF WgCountsHandlers

-----------------------------------------------------------------------------
(* Each part of the invariant is kept by each step                         *)

AnyConn(c) == AcceptConn(c) \/ Spawn(c) \/ HandlerStep(c) \/ TakeRequest(c) \/ Connect(c) \/ Leave(c)
              \/ ServeConnection(c)
AnyOther   == Listen \/ Register \/ AcceptFails \/ CheckActive \/ StopStep \/ CallStop

LEMMA Steps ==
  ASSUME [Next]_vars
  PROVE  \/ (\E c \in Conns : AnyConn(c)) /\ UNCHANGED <<exited, inBserve>>
         \/ AnyOther /\ UNCHANGED <<exited, inBserve>>
         \/ (ProcessExits \/ WaitGroupPanics)
         \/ UNCHANGED vars
BY DEF Next, Running, StartStep, AnyConn, AnyOther

LEMMA ShapeStep ==
  ASSUME Shape, [Next]_vars
  PROVE  Shape'
<1>1. CASE (\E c \in Conns : AnyConn(c)) /\ UNCHANGED <<exited, inBserve>>
  <2>1. PICK c \in Conns : AnyConn(c)
    BY <1>1
  <2>2. CASE AcceptConn(c) \/ Spawn(c) \/ ServeConnection(c)
    BY <1>1, <2>2 DEF Shape, States, AcceptConn, Spawn, ServeConnection
  <2>3. CASE HandlerStep(c)
    BY <1>1, <2>3 DEF Shape, States, HandlerStep, FinishReply, HandlerReturns, Done
  <2>4. CASE TakeRequest(c) \/ Connect(c) \/ Leave(c)
    BY <1>1, <2>4 DEF Shape, States, TakeRequest, Connect, Leave
  <2> QED
    BY <2>1, <2>2, <2>3, <2>4 DEF AnyConn
<1>2. CASE AnyOther /\ UNCHANGED <<exited, inBserve>>
  <2>1. CASE Listen \/ Register \/ AcceptFails \/ CheckActive \/ CallStop
    BY <1>2, <2>1 DEF Shape, Listen, Register, AcceptFails, CheckActive, CallStop
  <2>2. CASE Deactivate
    BY <1>2, <2>2 DEF Shape, States, Deactivate
  <2>3. CASE Wait \/ WaitReturns
    BY <1>2, <2>3 DEF Shape, Wait, WaitReturns
  <2> QED
    BY <1>2, <2>1, <2>2, <2>3 DEF AnyOther, StopStep
<1>3. CASE ProcessExits \/ WaitGroupPanics
  BY <1>3 DEF Shape, ProcessExits, WaitGroupPanics
<1>4. CASE UNCHANGED vars
  BY <1>4 DEF Shape, vars
<1> QED
  BY <1>1, <1>2, <1>3, <1>4, Steps

LEMMA CountStep ==
  ASSUME Shape, WgCountsHandlers, [Next]_vars
  PROVE  WgCountsHandlers'
<1>1. CASE (\E c \in Conns : AnyConn(c)) /\ UNCHANGED <<exited, inBserve>>
  <2>1. PICK c \in Conns : AnyConn(c)
    BY <1>1
  <2>2. CASE Spawn(c) \/ ServeConnection(c)
    BY <2>2, HandlerStarts DEF Spawn, ServeConnection, Handlers
  <2>3. CASE HandlerReturns(c)
    BY <2>3, HandlerEnds DEF HandlerReturns, Done, Handlers
  <2>4. CASE AcceptConn(c) \/ TakeRequest(c) \/ Connect(c) \/ Leave(c) \/ FinishReply(c)
    <3>1. Handlers' = Handlers /\ UNCHANGED wg
      BY <2>4 DEF AcceptConn, TakeRequest, Connect, Leave, FinishReply, Handlers, Shape
    <3> QED
      BY <3>1, HandlersSame
  <2> QED
    BY <2>1, <2>2, <2>3, <2>4 DEF AnyConn, HandlerStep
<1>2. CASE AnyOther
  <2>1. Handlers' = Handlers /\ UNCHANGED wg
    BY <1>2 DEF AnyOther, Listen, Register, AcceptFails, CheckActive, CallStop, StopStep, Deactivate,
                Wait, WaitReturns, Handlers, Shape
  <2> QED
    BY <2>1, HandlersSame
<1>3. CASE ProcessExits \/ WaitGroupPanics \/ UNCHANGED vars
  <2>1. Handlers' = Handlers /\ UNCHANGED wg
    BY <1>3 DEF ProcessExits, WaitGroupPanics, vars, Handlers
  <2> QED
    BY <2>1, HandlersSame
<1> QED
  BY <1>1, <1>2, <1>3, Steps

LEMMA ShutdownStep ==
  ASSUME Shape, Shutdown, [Next]_vars
  PROVE  Shutdown'
<1>1. CASE (\E c \in Conns : AnyConn(c)) /\ UNCHANGED <<exited, inBserve>>
  <2>1. PICK c \in Conns : AnyConn(c)
    BY <1>1
  <2>2. CASE AcceptConn(c) \/ Spawn(c) \/ ServeConnection(c)
    BY <2>2 DEF Shutdown, StartReturnsAfterStop, AcceptConn, Spawn, ServeConnection
  <2>3. CASE HandlerStep(c)
    BY <2>3 DEF Shutdown, StartReturnsAfterStop, HandlerStep, FinishReply, HandlerReturns, Done
  <2>4. CASE TakeRequest(c) \/ Connect(c) \/ Leave(c)
    BY <2>4 DEF Shutdown, StartReturnsAfterStop, TakeRequest, Connect, Leave
  <2> QED
    BY <2>1, <2>2, <2>3, <2>4 DEF AnyConn
<1>2. CASE AnyOther
  <2>1. CASE Listen \/ Register \/ AcceptFails \/ CheckActive
    BY <2>1 DEF Shutdown, StartReturnsAfterStop, Listen, Register, AcceptFails, CheckActive
  <2>2. CASE CallStop \/ Wait \/ WaitReturns
    BY <2>2 DEF Shutdown, StartReturnsAfterStop, CallStop, Wait, WaitReturns
  <2>3. CASE Deactivate
    BY <2>3 DEF Shutdown, StartReturnsAfterStop, Deactivate
  <2> QED
    BY <1>2, <2>1, <2>2, <2>3 DEF AnyOther, StopStep
<1>3. CASE ProcessExits \/ WaitGroupPanics \/ UNCHANGED vars
  BY <1>3 DEF Shutdown, StartReturnsAfterStop, ProcessExits, WaitGroupPanics, vars
<1> QED
  BY <1>1, <1>2, <1>3, Steps

-----------------------------------------------------------------------------
LEMMA Inductive == Spec => []IInv
<1>1. Init => IInv
  <2> SUFFICES ASSUME Init PROVE IInv
    OBVIOUS
  <2>1. Handlers = {}
    BY DEF Init, Handlers
  <2>2. WgCountsHandlers
    BY <2>1, FS_EmptySet DEF Init, WgCountsHandlers
  <2>3. Shape /\ Shutdown
    BY DEF Init, Shape, States, Shutdown, StartReturnsAfterStop
  <2> QED
    BY <2>2, <2>3 DEF IInv
<1>2. IInv /\ [Next]_vars => IInv'
  BY ShapeStep, CountStep, ShutdownStep DEF IInv
<1> QED
  BY <1>1, <1>2, PTL DEF Spec

\* WgCountsHandlers of BhttpLifecycle: connWg is the number of handlers that
\* run, whatever the interleaving of Start, Stop and the handlers.
THEOREM WgIsExact == Spec => []WgCountsHandlers
<1>1. IInv => WgCountsHandlers
  BY DEF IInv
<1> QED
  BY <1>1, Inductive, PTL

\* StartReturnsAfterStop of BhttpLifecycle: Start reports a clean shutdown only
\* after Stop has closed the listener.
THEOREM CleanShutdown == Spec => []StartReturnsAfterStop
<1>1. IInv => StartReturnsAfterStop
  BY DEF IInv, Shutdown
<1> QED
  BY <1>1, Inductive, PTL

\* TypeOK of BhttpLifecycle: the counter never goes below zero, which would
\* make Done panic.
THEOREM LifecycleTypes == Spec => []TypeOK
<1>1. IInv => TypeOK
  BY HandlersFinite DEF IInv, Shape, States, WgCountsHandlers, TypeOK
<1> QED
  BY <1>1, Inductive, PTL
=============================================================================
