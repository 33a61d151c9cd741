----------------------------- MODULE UdpReceiver ----------------------------
(***************************************************************************)
(* The UDP receiver (src/src/udp_io.c, POSIX build): one host thread that  *)
(* starts and stops it, and the thread that each start creates, in         *)
(* interleaving.  The k-th start that succeeds makes socket k and thread k.*)
(*                                                                         *)
(* The two threads share the descriptor number of the socket.  fd is the   *)
(* socket that number refers to in the kernel; the number is free once     *)
(* closed and the next start is given it again.  A thread inside recvfrom  *)
(* holds on to the socket it called it on.                                 *)
(*                                                                         *)
(* ctx->running, the thread's own flag, is cleared by that thread alone,   *)
(* where it leaves its loop, so it is no variable: a stop cannot clear it. *)
(***************************************************************************)
EXTENDS Integers

CONSTANT MaxStarts     \* the bound on the starts that succeed

ASSUME MaxStartsAssumption == MaxStarts \in Nat

Threads == 1 .. MaxStarts

VARIABLES
  initialized, running,   \* fields of d8_udp_receiver_t
  handle,    \* its thread field, 0 for D8_THREAD_NULL
  fd,        \* 0 when the number is closed; the socket field is -1 exactly then
  shut,      \* the sockets that have been shut down
  starts,    \* the starts that have succeeded
  owner,     \* where the host thread is: "idle" between two calls
  after,     \* what it goes on with once a stop has returned
  pc,        \* where each receiver thread is
  again,     \* the threads whose errno is EAGAIN
  on         \* the socket each thread's recvfrom was called on

ownerVars  == <<initialized, running, handle, fd, shut, starts, owner, after>>
threadVars == <<pc, again, on>>
recvVars   == <<ownerVars, threadVars>>

\* d8_udp_receiver_init
RecvInit ==
  /\ initialized = TRUE /\ running = FALSE /\ handle = 0
  /\ fd = 0 /\ shut = {} /\ starts = 0
  /\ owner = "idle" /\ after = "idle"
  /\ pc = [k \in Threads |-> "unborn"]
  /\ again = {}
  /\ on = [k \in Threads |-> 0]

-----------------------------------------------------------------------------
(* The host                                                                *)

\* The beginning of a stop, from which the host goes on with next.
BeginStop(next) ==
  /\ owner = "idle"
  /\ after' = next
  /\ running' = FALSE
  /\ owner' = IF running THEN "shutdown" ELSE next
  /\ UNCHANGED <<handle, fd, shut, starts, threadVars>>

\* A bug the properties catch: a start that takes the receiver to be stopped.
StartAgain == owner = "idle" /\ owner' = "open" /\ running' = FALSE
              /\ UNCHANGED <<initialized, handle, fd, shut, starts, after, threadVars>>

Start   == BeginStop("open") /\ UNCHANGED initialized
Stop    == BeginStop("idle") /\ UNCHANGED initialized
Cleanup == initialized /\ BeginStop("idle") /\ initialized' = FALSE

Shutdown ==
  /\ owner = "shutdown"
  /\ shut' = IF fd # 0 THEN shut \cup {fd} ELSE shut
  /\ owner' = "close"
  /\ UNCHANGED <<initialized, running, handle, fd, starts, after, threadVars>>

\* A bug the properties catch: a shutdown is taken to be enough.
CloseNot ==
  /\ owner = "close"
  /\ owner' = "join"
  /\ UNCHANGED <<initialized, running, handle, fd, shut, starts, after, threadVars>>

Close ==
  /\ owner = "close"
  /\ fd' = 0
  /\ owner' = "join"
  /\ UNCHANGED <<initialized, running, handle, shut, starts, after, threadVars>>

\* A bug the properties catch: the thread is detached, not joined.
JoinNot ==
  /\ owner = "join"
  /\ handle' = 0
  /\ owner' = after
  /\ UNCHANGED <<initialized, running, fd, shut, starts, after, threadVars>>

\* A null handle is not joined, a thread that has ended is joined at once.
Join ==
  /\ owner = "join"
  /\ handle # 0 => pc[handle] = "ended"
  /\ handle' = 0
  /\ owner' = after
  /\ UNCHANGED <<initialized, running, fd, shut, starts, after, threadVars>>

\* No socket, no port, no memory or no thread: what was acquired is given back.
OpenFails ==
  /\ owner = "open"
  /\ running' = FALSE
  /\ fd' = 0
  /\ owner' = "idle"
  /\ UNCHANGED <<initialized, handle, shut, starts, after, threadVars>>

\* A thread begins with errno 0.
OpenSucceeds ==
  /\ owner = "open" /\ starts < MaxStarts
  /\ running' = TRUE
  /\ starts' = starts + 1
  /\ fd' = starts' /\ handle' = starts'
  /\ pc' = [pc EXCEPT ![starts'] = "loop"]
  /\ owner' = "idle"
  /\ UNCHANGED <<initialized, shut, after, again, on>>

-----------------------------------------------------------------------------
(* A receiver thread                                                       *)

\* The call of recvfrom: on a closed number it fails with EBADF.
Receive(k) ==
  /\ pc[k] = "loop"
  /\ pc' = [pc EXCEPT ![k] = IF fd = 0 THEN "ended" ELSE "waiting"]
  /\ on' = [on EXCEPT ![k] = fd]
  /\ again' = IF fd = 0 THEN again \ {k} ELSE again
  /\ UNCHANGED ownerVars

\* A datagram of the packet's size, or cut down to it, that is a packet.
GetPacket(k) ==
  /\ pc[k] = "waiting"
  /\ pc' = [pc EXCEPT ![k] = "handling"]
  /\ UNCHANGED <<ownerVars, again, on>>

\* A datagram that is too short or not a packet.
GetOther(k) ==
  /\ pc[k] = "waiting"
  /\ pc' = [pc EXCEPT ![k] = "loop"]
  /\ UNCHANGED <<ownerVars, again, on>>

\* recvfrom returns 0, for an empty datagram or because the socket is shut
\* down.  It leaves errno alone, and the loop looks at errno all the same.
GetNothing(k) ==
  /\ pc[k] = "waiting"
  /\ pc' = [pc EXCEPT ![k] = IF k \in again THEN "loop" ELSE "ended"]
  /\ UNCHANGED <<ownerVars, again, on>>

TimeOut(k) ==
  /\ pc[k] = "waiting" /\ on[k] \notin shut
  /\ pc' = [pc EXCEPT ![k] = "loop"]
  /\ again' = again \cup {k}
  /\ UNCHANGED <<ownerVars, on>>

\* Any other error, a signal for one.
Fail(k) ==
  /\ pc[k] = "waiting"
  /\ pc' = [pc EXCEPT ![k] = "ended"]
  /\ again' = again \ {k}
  /\ UNCHANGED <<ownerVars, on>>

\* The handler returns; what it called may have left any errno.
Handled(k) ==
  /\ pc[k] = "handling"
  /\ pc' = [pc EXCEPT ![k] = "loop"]
  /\ again' \in {again, again \cup {k}, again \ {k}}
  /\ UNCHANGED <<ownerVars, on>>

Thread(k) ==
  \/ Receive(k) \/ GetPacket(k) \/ GetOther(k) \/ GetNothing(k)
  \/ TimeOut(k) \/ Fail(k) \/ Handled(k)

Calls      == Start \/ Stop \/ Cleanup
OwnerSteps == Shutdown \/ Close \/ Join \/ OpenFails \/ OpenSucceeds

RecvNext == Calls \/ OwnerSteps \/ \E k \in Threads : Thread(k)

RecvSpec == RecvInit /\ [][RecvNext]_recvVars

\* A call that has begun goes on; recvfrom returns when its timeout is over at
\* the latest, and a handler returns.
FairSpec == RecvSpec /\ WF_recvVars(OwnerSteps) /\ \A k \in Threads : WF_recvVars(Thread(k))

-----------------------------------------------------------------------------
RecvTypeOK ==
  /\ initialized \in BOOLEAN /\ running \in BOOLEAN
  /\ handle \in 0 .. MaxStarts /\ fd \in 0 .. MaxStarts /\ starts \in 0 .. MaxStarts
  /\ shut \in SUBSET Threads
  /\ owner \in {"idle", "shutdown", "close", "join", "open"} /\ after \in {"idle", "open"}
  /\ pc \in [Threads -> {"unborn", "loop", "waiting", "handling", "ended"}]
  /\ again \in SUBSET Threads
  /\ on \in [Threads -> 0 .. MaxStarts]

Alive(k) == pc[k] \in {"loop", "waiting", "handling"}

\* Between two calls a receiver that is not running has no socket and no
\* thread, so that what its handler uses may be freed (net_solver_cleanup does
\* so), whichever starts failed and however the thread ended.
NothingLeft ==
  owner = "idle" /\ ~running => fd = 0 /\ handle = 0 /\ \A k \in Threads : ~Alive(k)

\* A thread reads and handles what came to its own socket only, and is the
\* one the receiver knows of: no thread of an earlier start takes the packets
\* of the present one through the descriptor number both were given.
OwnSocket ==
  \A k \in Threads :
    /\ Alive(k) => handle = k
    /\ pc[k] \in {"waiting", "handling"} => on[k] = k

\* A stop, and with it a start, a cleanup and the end of the program, returns,
\* although nothing tells the thread to end but its socket going away.
CallsReturn == (owner # "idle") ~> (owner = "idle")
=============================================================================
