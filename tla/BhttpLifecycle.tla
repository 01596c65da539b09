--------------------------- MODULE BhttpLifecycle ---------------------------
(***************************************************************************)
(* The life of a Server (server.go) and of the process around it           *)
(* (cmd/bserve/main.go): Start accepts connections in one goroutine, Stop  *)
(* is called from another, every connection has a handler of its own, and  *)
(* connWg counts the handlers.  A handler is idle, in ReadFrame, or it is  *)
(* replying; what it reads and writes is the matter of BhttpServer.        *)
(* connWg is a sync.WaitGroup: a Wait that blocks is released by the Done  *)
(* that takes the counter to zero, and an Add that comes between that Done *)
(* and the return of Wait makes one or the other panic ("WaitGroup is      *)
(* reused before previous Wait has returned"), which ends the process.     *)
(***************************************************************************)
EXTENDS Integers, FiniteSets

CONSTANT Conns  \* the connections that clients may open

ASSUME LifecycleAssumption == IsFiniteSet(Conns)

VARIABLES inBserve,    \* TRUE: main runs Start, and a signal leads to Stop
          start,       \* where Start is
          stop,        \* where Stop is, "none" before it is called
          listener,    \* the listening socket
          registered,  \* Server.Listener is set
          active,      \* Server.active
          wg,          \* Server.connWg
          conns,       \* conns[c]: the connection and its handler
          left,        \* the connections on which nothing more will be read
          exited       \* how the process ended, "no" while it runs

vars == <<inBserve, start, stop, listener, registered, active, wg, conns, left, exited>>

Init ==
  /\ inBserve \in BOOLEAN
  /\ start = "listen" /\ stop = "none"
  /\ listener = "none" /\ registered = FALSE /\ active = FALSE
  /\ wg = 0 /\ conns = [c \in Conns |-> "none"] /\ left = {}
  /\ exited = "no"

-----------------------------------------------------------------------------
(* Start                                                                   *)

Listen ==
  /\ start = "listen"
  /\ \/ listener' = "open" /\ start' = "register"
     \/ start' = "failed" /\ UNCHANGED listener
  /\ UNCHANGED <<stop, registered, active, wg, conns, left>>

\* Under the mutex.
Register ==
  /\ start = "register"
  /\ registered' = TRUE /\ active' = TRUE /\ start' = "accept"
  /\ UNCHANGED <<stop, listener, wg, conns, left>>

AcceptConn(c) ==
  /\ start = "accept" /\ listener = "open" /\ conns[c] = "backlog"
  /\ conns' = [conns EXCEPT ![c] = "accepted"] /\ start' = "add"
  /\ UNCHANGED <<stop, listener, registered, active, wg, left>>

\* Accept fails once the listener is closed, and may fail at any time before.
AcceptFails ==
  /\ start = "accept"
  /\ start' = "check"
  /\ UNCHANGED <<stop, listener, registered, active, wg, conns, left>>

\* Slip: any error of Accept ends Start.
CheckNothing ==
  /\ start = "check" /\ start' = "returned"
  /\ UNCHANGED <<stop, listener, registered, active, wg, conns, left>>

CheckActive ==
  /\ start = "check"
  /\ start' = IF active THEN "accept" ELSE "returned"
  /\ UNCHANGED <<stop, listener, registered, active, wg, conns, left>>

\* Slip: the handler is not counted.
SpawnUncounted(c) ==
  /\ start = "add" /\ conns[c] = "accepted"
  /\ conns' = [conns EXCEPT ![c] = "idle"] /\ start' = "accept"
  /\ UNCHANGED <<stop, listener, registered, active, wg, left>>

\* connWg.Add(1) and the go statement.
Spawn(c) ==
  /\ start = "add" /\ conns[c] = "accepted"
  /\ wg' = wg + 1
  /\ conns' = [conns EXCEPT ![c] = "idle"] /\ start' = "accept"
  /\ UNCHANGED <<stop, listener, registered, active, left>>

-----------------------------------------------------------------------------
(* Stop                                                                    *)

\* The signal, or whoever owns the Server, asks for Stop.
CallStop ==
  /\ stop = "none" /\ stop' = "lock"
  /\ UNCHANGED <<start, listener, registered, active, wg, conns, left>>

\* Slip: active is left as it was.
DeactivateHalf ==
  /\ stop = "lock" /\ stop' = "wait"
  /\ IF registered
     THEN /\ listener' = "closed"
          /\ conns' = [c \in Conns |-> IF conns[c] = "backlog" THEN "closed" ELSE conns[c]]
     ELSE UNCHANGED <<listener, conns>>
  /\ UNCHANGED <<start, registered, active, wg, left>>

\* Under the mutex.  Closing the listener resets what nobody accepted.
Deactivate ==
  /\ stop = "lock"
  /\ active' = FALSE /\ stop' = "wait"
  /\ IF registered
     THEN /\ listener' = "closed"
          /\ conns' = [c \in Conns |-> IF conns[c] = "backlog" THEN "closed" ELSE conns[c]]
     ELSE UNCHANGED <<listener, conns>>
  /\ UNCHANGED <<start, registered, wg, left>>

\* connWg.Wait returns at once when it finds the counter at zero.
Wait ==
  /\ stop = "wait"
  /\ stop' = IF wg = 0 THEN "returned" ELSE "blocked"
  /\ UNCHANGED <<start, listener, registered, active, wg, conns, left>>

\* It was released, and finds the counter still at zero.
WaitReturns ==
  /\ stop = "released" /\ wg = 0
  /\ stop' = "returned"
  /\ UNCHANGED <<start, listener, registered, active, wg, conns, left>>

\* Slip: the handler returns without it.
DoneMissing == UNCHANGED <<wg, stop>>

\* connWg.Done
Done == /\ wg' = wg - 1
        /\ stop' = IF stop = "blocked" /\ wg = 1 THEN "released" ELSE stop

\* Wait finds an Add that came before it returned, or that Add finds Wait.
WaitGroupPanics ==
  /\ exited = "no" /\ stop = "released"
  /\ wg > 0 \/ start = "add"
  /\ exited' = "panic"
  /\ UNCHANGED <<inBserve, start, stop, listener, registered, active, wg, conns, left>>

-----------------------------------------------------------------------------
(* Clients and handlers                                                    *)

Connect(c) ==
  /\ listener = "open" /\ conns[c] = "none"
  /\ conns' = [conns EXCEPT ![c] = "backlog"]
  /\ UNCHANGED <<start, stop, listener, registered, active, wg, left>>

\* The client closes; what it sent before has been taken.
Leave(c) ==
  /\ conns[c] \notin {"none", "closed"} /\ c \notin left
  /\ left' = left \cup {c}
  /\ UNCHANGED <<start, stop, listener, registered, active, wg, conns>>

\* Slip: only Start counts its handlers.
ServeUncounted(c) ==
  /\ ~inBserve /\ stop = "none" /\ conns[c] = "none"
  /\ conns' = [conns EXCEPT ![c] = "idle"]
  /\ UNCHANGED <<start, stop, listener, registered, active, wg, left>>

\* ServeConnection: a caller hands over a connection of its own.  It runs in
\* the caller's goroutine; nobody calls it once Stop has been asked for.
ServeConnection(c) ==
  /\ ~inBserve /\ stop = "none" /\ conns[c] = "none"
  /\ wg' = wg + 1 /\ conns' = [conns EXCEPT ![c] = "idle"]
  /\ UNCHANGED <<start, stop, listener, registered, active, left>>

TakeRequest(c) ==
  /\ conns[c] = "idle" /\ c \notin left
  /\ conns' = [conns EXCEPT ![c] = "reply"]
  /\ UNCHANGED <<start, stop, listener, registered, active, wg, left>>

FinishReply(c) ==
  /\ conns[c] = "reply"
  /\ conns' = [conns EXCEPT ![c] = "idle"]
  /\ UNCHANGED <<start, stop, listener, registered, active, wg, left>>

\* ReadFrame reports the end of the input: conn.Close, then connWg.Done.
HandlerReturns(c) ==
  /\ conns[c] = "idle" /\ c \in left
  /\ conns' = [conns EXCEPT ![c] = "closed"] /\ Done
  /\ UNCHANGED <<start, listener, registered, active, left>>

-----------------------------------------------------------------------------
(* The process                                                             *)

\* main ends when Start does; the signal goroutine exits when Stop does.
ProcessExits ==
  /\ inBserve /\ exited = "no"
  /\ start \in {"returned", "failed"} \/ stop = "returned"
  /\ exited' = "exit"
  /\ UNCHANGED <<inBserve, start, stop, listener, registered, active, wg, conns, left>>

StartStep == Listen \/ Register \/ (\E c \in Conns : AcceptConn(c) \/ Spawn(c)) \/ AcceptFails \/ CheckActive
StopStep  == Deactivate \/ Wait \/ WaitReturns
HandlerStep(c) == FinishReply(c) \/ HandlerReturns(c)

Running(A) == exited = "no" /\ A /\ UNCHANGED <<exited, inBserve>>

Next ==
  \/ Running(StartStep) \/ Running(StopStep) \/ Running(CallStop)
  \/ \E c \in Conns : \/ Running(HandlerStep(c)) \/ Running(TakeRequest(c))
                      \/ Running(Connect(c)) \/ Running(Leave(c)) \/ Running(ServeConnection(c))
  \/ ProcessExits \/ WaitGroupPanics

\* The goroutines run.  Clients need not come, ask or leave, and nobody has to
\* call Stop.
Spec ==
  /\ Init /\ [][Next]_vars
  /\ WF_vars(Running(StartStep)) /\ WF_vars(Running(StopStep) \/ WaitGroupPanics)
  /\ WF_vars(ProcessExits)
  /\ \A c \in Conns : WF_vars(Running(HandlerStep(c)))

-----------------------------------------------------------------------------
Handlers == {c \in Conns : conns[c] \in {"idle", "reply"}}

\* Types: at most the connection that Start holds is accepted without being
\* counted, and Server.Listener is set once Start listens.
TypeOK ==
  /\ start \in {"listen", "register", "accept", "check", "add", "returned", "failed"}
  /\ stop \in {"none", "lock", "wait", "blocked", "released", "returned"}
  /\ listener \in {"none", "open", "closed"}
  /\ {inBserve, registered, active} \subseteq BOOLEAN /\ exited \in {"no", "exit", "panic"}
  /\ wg \in 0..Cardinality(Conns) /\ left \subseteq Conns
  /\ conns \in [Conns -> {"none", "backlog", "accepted", "idle", "reply", "closed"}]

\* connWg counts the handlers that run, neither more nor fewer, through every
\* Add and Done (server.go:81, 102, 108): Wait can neither hang when they are
\* all gone nor let one run that was counted.
WgCountsHandlers == wg = Cardinality(Handlers)

\* Start returns nil, "Clean shutdown" (server.go:74-75), only when Stop has
\* been called; a transient error of Accept never ends it.
StartReturnsAfterStop == start = "returned" => stop \notin {"none", "lock"} /\ listener = "closed"

\* Once Stop has closed the listener, Start comes to an end, unless the
\* process does first (server.go:69-79, 87-93).
StartEnds == listener = "closed" ~> start = "returned" \/ exited # "no"

\* Stop returns when the clients leave, and only the clients can delay it: a
\* handler in ReadFrame has no deadline (server.go:95, 118).  An exit, or the
\* panic of the WaitGroup, may end the process before that.
StopEnds ==
  (\A c \in Conns : []<>(c \in left \/ conns[c] \in {"none", "closed"}))
    => (stop = "lock" ~> stop = "returned" \/ exited # "no")

\* A signal that arrives once the server listens ends the process, whatever
\* the clients do in bserve: main returns with Start even while Stop still waits
\* (cmd/bserve/main.go:40-49).
SignalEndsProcess == inBserve /\ stop = "lock" /\ registered ~> exited # "no"

\* server.go:86, "Stop gracefully shuts down the server": when Stop returns no
\* connection is being served.
StopWaitsForHandlers == stop = "returned" => \A c \in Conns : conns[c] \notin {"accepted", "idle", "reply"}

\* server.go:86 again: after Stop the server does not go on.
StopStopsStart == stop = "returned" ~> start \in {"returned", "failed"}

\* cmd/bserve/main.go:36-42, "graceful exit": after a signal the process does
\* not exit in the middle of a reply.
GracefulExit == exited = "exit" /\ start # "failed" => \A c \in Conns : conns[c] # "reply"
=============================================================================
