--------------------------- MODULE NetSolverProofs --------------------------
(***************************************************************************)
(* A stopped receiver has no thread left, and a thread serves its own      *)
(* socket only, for any number of starts.  The network solver drives its   *)
(* receiver and its swarm as any host does, so that what is proved of them *)
(* holds in it, and with the order of its own steps nothing is freed under *)
(* the handler.                                                            *)
(***************************************************************************)
EXTENDS NetSolver, SwarmProofs

-----------------------------------------------------------------------------
(* The receiver                                                            *)


\* Only the thread of the handle lives, and it reads its own socket; between
\* the parts of a call the receiver is not running, and what it has acquired
\* is given back by the time the host goes on.
RInv ==
  /\ RecvTypeOK
  /\ handle <= starts
  /\ \A k \in Threads : k > starts => pc[k] = "unborn"
  /\ OwnSocket
  /\ fd # 0 => fd = handle
  /\ owner # "idle" => ~running
  /\ ~running /\ owner \in {"idle", "open"} => fd = 0 /\ handle = 0
  /\ owner = "join" => fd = 0

LEMMA InitRInv == RecvInit => RInv
<1> SUFFICES ASSUME RecvInit PROVE RInv
  OBVIOUS
<1>1. initialized \in BOOLEAN /\ running \in BOOLEAN /\ ~running
  BY Zenon DEF RecvInit
<1>2. RecvTypeOK
  BY <1>1, MaxStartsAssumption DEF RecvInit, RecvTypeOK, Threads
<1>3. OwnSocket
  BY DEF RecvInit, OwnSocket, Alive
<1> QED
  BY <1>1, <1>2, <1>3 DEF RecvInit, RInv

\* The calls of the host and the steps of a stop.
LEMMA StopRInv ==
  ASSUME RInv, Calls \/ Shutdown \/ Close \/ Join
  PROVE  RInv'
<1>1. ASSUME NEW next \in {"idle", "open"}, BeginStop(next), initialized' \in BOOLEAN
      PROVE  RInv'
  BY <1>1, MaxStartsAssumption
     DEF RInv, BeginStop, RecvTypeOK, OwnSocket, Alive, threadVars
<1>2. CASE Calls
  <2>1. CASE Start
    BY <1>1, <2>1 DEF Start, RInv, RecvTypeOK
  <2>2. CASE Stop
    BY <1>1, <2>2 DEF Stop, RInv, RecvTypeOK
  <2>3. CASE Cleanup
    BY <1>1, <2>3 DEF Cleanup
  <2> QED
    BY <1>2, <2>1, <2>2, <2>3 DEF Calls
<1>3. CASE Shutdown
  BY <1>3, MaxStartsAssumption
     DEF RInv, Shutdown, RecvTypeOK, OwnSocket, Alive, Threads, threadVars
<1>4. CASE Close
  BY <1>4, MaxStartsAssumption
     DEF RInv, Close, RecvTypeOK, OwnSocket, Alive, threadVars
<1>5. CASE Join
  \* Had another thread been alive, it would have been the one joined.
  <2>1. \A k \in Threads : ~Alive(k)
    BY <1>5, MaxStartsAssumption DEF RInv, Join, RecvTypeOK, OwnSocket, Alive, Threads
  <2> QED
    BY <1>5, <2>1, MaxStartsAssumption
       DEF RInv, Join, RecvTypeOK, OwnSocket, Alive, Threads, threadVars
<1> QED
  BY <1>2, <1>3, <1>4, <1>5

\* The two ends of a start.
LEMMA OpenRInv ==
  ASSUME RInv, OpenFails \/ OpenSucceeds
  PROVE  RInv'
<1>1. handle = 0 /\ fd = 0 /\ \A k \in Threads : ~Alive(k)
  BY MaxStartsAssumption DEF RInv, OpenFails, OpenSucceeds, OwnSocket, Threads
<1>2. CASE OpenFails
  BY <1>1, <1>2, MaxStartsAssumption
     DEF RInv, OpenFails, RecvTypeOK, OwnSocket, Alive, threadVars
<1>3. CASE OpenSucceeds
  <2>1. starts' \in Threads /\ starts' = starts + 1
    BY <1>3, MaxStartsAssumption DEF RInv, OpenSucceeds, RecvTypeOK, Threads
  <2>2. RecvTypeOK'
    BY <1>3, <2>1, MaxStartsAssumption DEF RInv, OpenSucceeds, RecvTypeOK, Threads
  <2>3. OwnSocket'
    BY <1>1, <1>3, <2>1, MaxStartsAssumption
       DEF RInv, OpenSucceeds, RecvTypeOK, OwnSocket, Alive, Threads
  <2>4. \A k \in Threads : k > starts' => pc'[k] = "unborn"
    BY <1>3, <2>1, MaxStartsAssumption DEF RInv, OpenSucceeds, RecvTypeOK, Threads
  <2> QED
    BY <1>3, <2>1, <2>2, <2>3, <2>4, MaxStartsAssumption DEF RInv, OpenSucceeds, RecvTypeOK
<1> QED
  BY <1>2, <1>3

\* A thread moves on its own: it stays the one thread alive, and what it calls
\* recvfrom on is the socket of the handle, its own.
LEMMA ThreadRInv ==
  ASSUME RInv, NEW k \in Threads, Thread(k)
  PROVE  RInv'
<1>1. Alive(k) /\ handle = k /\ k <= starts /\ UNCHANGED ownerVars
  BY MaxStartsAssumption
     DEF RInv, Thread, Receive, GetPacket, GetOther, GetNothing, TimeOut, Fail,
         Handled, Alive, OwnSocket, RecvTypeOK, Threads, ownerVars
<1>2. RecvTypeOK'
  BY ZenonT(30), <1>1, MaxStartsAssumption
     DEF RInv, Thread, Receive, GetPacket, GetOther, GetNothing, TimeOut, Fail,
         Handled, RecvTypeOK, Threads, ownerVars
<1>3. \A j \in Threads : j # k => pc'[j] = pc[j] /\ on'[j] = on[j]
  BY DEF RInv, RecvTypeOK, Thread, Receive, GetPacket, GetOther, GetNothing, TimeOut, Fail,
         Handled
<1>4. pc'[k] \in {"waiting", "handling"} => on'[k] = k
  BY <1>1 DEF RInv, RecvTypeOK, OwnSocket, Thread, Receive, GetPacket, GetOther, GetNothing,
              TimeOut, Fail, Handled
<1>5. OwnSocket'
  BY <1>1, <1>3, <1>4 DEF RInv, OwnSocket, Alive, ownerVars
<1> QED
  BY SMTT(30), <1>1, <1>2, <1>3, <1>5, MaxStartsAssumption DEF RInv, ownerVars, RecvTypeOK, Threads

LEMMA NextRInv == RInv /\ [RecvNext]_recvVars => RInv'
<1> SUFFICES ASSUME RInv, [RecvNext]_recvVars PROVE RInv'
  OBVIOUS
<1>1. CASE UNCHANGED recvVars
  BY <1>1 DEF recvVars, ownerVars, threadVars, RInv, RecvTypeOK, OwnSocket, Alive
<1>2. CASE RecvNext
  BY <1>2, StopRInv, OpenRInv, ThreadRInv DEF RecvNext, OwnerSteps
<1> QED
  BY <1>1, <1>2

LEMMA AlwaysRInv == RecvSpec => []RInv
BY InitRInv, NextRInv, PTL DEF RecvSpec

\* A thread handles only what came to its own socket, and the receiver knows
\* of it, however often the receiver is restarted.
THEOREM ThreadsKeepToTheirSocket == RecvSpec => []OwnSocket
<1>1. RInv => OwnSocket
  BY DEF RInv
<1> QED
  BY <1>1, AlwaysRInv, PTL

\* A receiver that is not running has neither socket nor thread: what the
\* handler uses may be freed once a stop has returned.
THEOREM StoppedMeansGone == RecvSpec => []NothingLeft
<1>1. RInv => NothingLeft
  BY MaxStartsAssumption DEF RInv, NothingLeft, OwnSocket, Threads
<1> QED
  BY <1>1, AlwaysRInv, PTL


-----------------------------------------------------------------------------
(* Every step of the solver is a step of the receiver or none.             *)

LEMMA MainDrivesReceiver ==
  ASSUME Main \/ Signal
  PROVE  [RecvNext]_recvVars
<1>1. CASE StartReceiver \/ StopReceiver \/ FreeAll
  BY <1>1 DEF StartReceiver, StopReceiver, FreeAll, RecvNext, Calls
<1>2. CASE InitSucceeds \/ InitFails \/ CloseSender \/ Signal
  BY <1>2 DEF InitSucceeds, InitFails, CloseSender, Signal, Receiverless
<1> QED
  BY <1>1, <1>2 DEF Main

LEMMA ThreadDrivesReceiver ==
  ASSUME NEW k \in Threads, NetThread(k)
  PROVE  [RecvNext]_recvVars
<1>1. CASE Listen(k) \/ OtherHandler(k) \/ TakePacket(k) \/ Return(k)
  BY <1>1 DEF Listen, OtherHandler, TakePacket, Return, Thread, RecvNext
<1>2. CASE ResetDomains(k) \/ FlashFrame(k) \/ NextDomain(k) \/ AllSent(k)
           \/ ResetAll(k) \/ BakeAgain(k)
  BY <1>2 DEF ResetDomains, FlashFrame, NextDomain, AllSent, ResetAll, BakeAgain, Handler,
              Receiverless
<1> QED
  BY <1>1, <1>2 DEF NetThread

LEMMA StepDrivesReceiver == [NetNext]_netVars => [RecvNext]_recvVars
<1> SUFFICES ASSUME [NetNext]_netVars PROVE [RecvNext]_recvVars
  OBVIOUS
<1>1. CASE UNCHANGED netVars
  BY <1>1 DEF netVars
<1>2. CASE NetNext
  BY <1>2, MainDrivesReceiver, ThreadDrivesReceiver DEF NetNext, CallGoesOn, RecvNext
<1> QED
  BY <1>1, <1>2

\* The solver, with its signals, its failing starts and its packets, is one of
\* the hosts that UdpReceiver allows for.
THEOREM SolverDrivesReceiver == NetSpec => RecvSpec
<1>1. NetInit => RecvInit
  BY DEF NetInit
<1> QED
  BY <1>1, StepDrivesReceiver, PTL DEF NetSpec, RecvSpec

-----------------------------------------------------------------------------
(* What the main thread frees, and when.                                   *)

\* Outside the main loop and the stop that ends it no thread is alive; inside,
\* nothing has been freed yet.
Quiet == owner = "idle" /\ ~running /\ \A k \in Threads : ~Alive(k)

NInv ==
  /\ main \in {"init", "start", "loop", "close", "cleanup", "ended", "other"}
  /\ main \in {"init", "start", "cleanup", "ended"} => Quiet
  /\ main = "close" => ~running /\ (owner = "idle" \/ after = "idle") /\ owner # "open"
  /\ main \in {"start", "loop", "close"} => sender = "open" /\ ~freed
  /\ main = "init" => ~freed

LEMMA InitNInv == NetInit => NInv
<1> SUFFICES ASSUME NetInit PROVE NInv
  OBVIOUS
<1>1. Quiet
  BY DEF NetInit, RecvInit, Quiet, Alive
<1> QED
  BY <1>1 DEF NetInit, RecvInit, NInv

LEMMA MainNInv ==
  ASSUME NInv, RInv, Main \/ Signal
  PROVE  NInv'
<1>1. CASE InitSucceeds
  BY <1>1 DEF InitSucceeds, OpenSender, Receiverless, recvVars, ownerVars, threadVars, NInv, Quiet, Alive
<1>2. CASE InitFails
  BY <1>2 DEF InitFails, Receiverless, recvVars, ownerVars, threadVars, NInv, Quiet, Alive
<1>3. CASE StartReceiver
  BY <1>3 DEF StartReceiver, MainGoes, NInv
<1>4. CASE StopReceiver
  BY <1>4 DEF StopReceiver, MainGoes, Stop, BeginStop, NInv
<1>5. CASE CloseSender
  <2>1. owner = "idle" /\ ~running
    BY <1>5 DEF CloseSender, MainGoes, NInv
  <2>2. Quiet
    BY <2>1, MaxStartsAssumption DEF RInv, Quiet, OwnSocket, Threads
  <2> QED
    BY <1>5, <2>2 DEF CloseSender, MainGoes, Receiverless, recvVars, ownerVars, threadVars, NInv,
                      Quiet, Alive
<1>6. CASE FreeAll
  BY <1>6 DEF FreeAll, MainGoes, Cleanup, BeginStop, threadVars, NInv, Quiet, Alive
<1>7. CASE Signal
  BY <1>7 DEF Signal, Receiverless, recvVars, ownerVars, threadVars, NInv, Quiet, Alive
<1> QED
  BY <1>1, <1>2, <1>3, <1>4, <1>5, <1>6, <1>7 DEF Main

\* While a call on the receiver goes on, the main thread is in its loop or in
\* its stop.
LEMMA CallNInv ==
  ASSUME NInv, CallGoesOn
  PROVE  NInv'
<1>1. owner # "idle"
  BY DEF CallGoesOn, OwnerSteps, Shutdown, Close, Join, OpenFails, OpenSucceeds
<1>2. main \in {"loop", "close", "other"} /\ UNCHANGED <<main, sender, freed>>
  BY <1>1 DEF NInv, Quiet, CallGoesOn, solverVars
<1>3. CASE main = "close"
  <2>1. ~running' /\ (owner' = "idle" \/ after' = "idle") /\ owner' # "open"
    BY <1>1, <1>3 DEF NInv, CallGoesOn, OwnerSteps, Shutdown, Close, Join, OpenFails, OpenSucceeds
  <2> QED
    BY <1>2, <1>3, <2>1 DEF NInv
<1> QED
  BY <1>2, <1>3 DEF NInv

LEMMA ThreadNInv ==
  ASSUME NInv, RInv, NEW k \in Threads, NetThread(k)
  PROVE  NInv'
<1>1. UNCHANGED <<main, sender, freed>>
  BY DEF NetThread, Listen, OtherHandler, TakePacket, ResetDomains, FlashFrame, NextDomain,
         AllSent, ResetAll, BakeAgain, Return, Handler, solverVars
<1>2. UNCHANGED ownerVars /\ Alive(k)
  <2>1. CASE Listen(k)
    BY <2>1 DEF Listen, Receive, GetOther, GetNothing, TimeOut, Fail, Alive, ownerVars
  <2>2. CASE OtherHandler(k) \/ TakePacket(k) \/ Return(k)
    BY <2>2 DEF OtherHandler, TakePacket, Return, GetPacket, Handled, Alive, ownerVars
  <2>3. CASE ResetDomains(k) \/ FlashFrame(k) \/ NextDomain(k) \/ AllSent(k)
             \/ ResetAll(k) \/ BakeAgain(k)
    BY <2>3 DEF ResetDomains, FlashFrame, NextDomain, AllSent, ResetAll, BakeAgain, Handler,
                Receiverless, recvVars, Alive
  <2> QED
    BY <2>1, <2>2, <2>3 DEF NetThread
<1>3. main \in {"loop", "close", "other"}
  BY <1>2 DEF NInv, Quiet
<1> QED
  BY <1>1, <1>2, <1>3 DEF NInv, ownerVars

LEMMA NextNInv == NInv /\ RInv /\ [NetNext]_netVars => NInv'
<1> SUFFICES ASSUME NInv, RInv, [NetNext]_netVars PROVE NInv'
  OBVIOUS
<1>1. CASE UNCHANGED netVars
  BY <1>1 DEF netVars, recvVars, ownerVars, threadVars, solverVars, NInv, Quiet, Alive
<1>2. CASE main = "other" /\ Calls /\ UNCHANGED solverVars
  BY <1>2 DEF NInv, solverVars
<1>3. CASE NetNext
  BY <1>2, <1>3, MainNInv, CallNInv, ThreadNInv DEF NetNext
<1> QED
  BY <1>1, <1>3

\* No handler is ever left without its sender or its swarm, for any number of
\* threads and whatever the swarm, the bake and the packets are.
THEOREM HandlerKeepsItsGround == NetSpec => []NothingFreedUnderHandler
<1>1. NetSpec => []RInv
  BY SolverDrivesReceiver, AlwaysRInv, PTL
<1>2. NInv => NothingFreedUnderHandler
  BY DEF NInv, NothingFreedUnderHandler, Quiet, Alive
<1> QED
  BY <1>1, <1>2, InitNInv, NextNInv, PTL DEF NetSpec

-----------------------------------------------------------------------------
(* The packet in hand                                                      *)

\* What the handler is at belongs to the one thread that is in it.
Serving == main # "other" /\ \E k \in Threads : pc[k] = "handling"

Jobs ==
  [at : {"none", "reset", "flash", "send", "reset all", "bake", "done"},
   packet : Packets \cup {<<>>}, left : SUBSET Domains, sent : BOOLEAN]

Baked == BakedConfig(FreshConfig, Bake)

\* Nothing is left of the frames of the past but row_out.
Forgotten == rt.locked = {} /\ rt.thr = [t \in Tiles |-> 0] /\ rt.snap = ZeroSnap

\* The runtime state is what a pass of the packet's frame has made of some
\* other, with the solver's bake.
Answering == job.packet.frame \in Frames /\ \E r : rt = FlashOnce(cfg, r, job.packet.frame)

JobInv ==
  /\ job \in Jobs
  /\ job.at # "none" => Serving /\ job.packet \in Packets
  /\ job.at \in {"reset", "flash"} => ~job.sent
  /\ job.at = "send" => Answering
  /\ job.at = "bake" => Forgotten
  /\ job.at = "done" /\ job.sent /\ resetting => Forgotten
  /\ cfg \in {FreshConfig, Baked}
  /\ main \in {"start", "loop", "close", "cleanup"} => cfg = Baked

\* What a bake writes and what it keeps.
ConfigFields ==
  {"n", "w", "topoW", "mask", "busW", "busR", "par", "weight", "mode", "bakeId", "applied",
   "strait", "double"}

LEMMA BakedFields ==
  ASSUME NEW c, DOMAIN c = ConfigFields
  PROVE  LET b == BakedConfig(c, Bake) IN
           /\ DOMAIN b = ConfigFields /\ b = [x \in ConfigFields |-> b[x]]
           /\ b.n = ActiveCount(Bake) /\ b.w = FieldWidth(ActiveCount(Bake), Bake.w)
           /\ b.topoW = Bake.w /\ b.mode = Bake.mode /\ b.bakeId = Bake.bakeId
           /\ b.applied = TRUE /\ b.strait = Bake.strait /\ b.double = c.double
           /\ b.mask = CopyTiles(Bake.mask, c.mask, Bake.n)
           /\ b.busW = CopyFlags(Bake.busW, c.busW, Bake.n)
           /\ b.busR = CopyFlags(Bake.busR, c.busR, Bake.n)
           /\ b.par = CopyTiles(Bake.par, c.par, Bake.n)
           /\ b.weight = CopyTiles(Bake.weight, c.weight, Bake.n)
<1> DEFINE b == BakedConfig(c, Bake)
<1>1. DOMAIN b = ConfigFields /\ b = [x \in ConfigFields |-> b[x]]
  BY ZenonT(30) DEF BakedConfig, ConfigFields
<1>2. /\ b.n = ActiveCount(Bake) /\ b.w = FieldWidth(ActiveCount(Bake), Bake.w)
      /\ b.topoW = Bake.w /\ b.mode = Bake.mode /\ b.bakeId = Bake.bakeId
      /\ b.applied = TRUE /\ b.strait = Bake.strait /\ b.double = c.double
  BY DEF BakedConfig, ConfigFields
<1>3. /\ b.mask = CopyTiles(Bake.mask, c.mask, Bake.n)
      /\ b.busW = CopyFlags(Bake.busW, c.busW, Bake.n)
      /\ b.busR = CopyFlags(Bake.busR, c.busR, Bake.n)
      /\ b.par = CopyTiles(Bake.par, c.par, Bake.n)
      /\ b.weight = CopyTiles(Bake.weight, c.weight, Bake.n)
  BY DEF BakedConfig, ConfigFields
<1>4. QED
  BY <1>1, <1>2, <1>3

\* A bake of what is baked already changes nothing.
LEMMA BakedTwice == \A c \in {FreshConfig, Baked} : BakedConfig(c, Bake) = Baked
<1>1. /\ \A new, old, k : CopyTiles(new, CopyTiles(new, old, k), k) = CopyTiles(new, old, k)
      /\ \A new, k : CopyFlags(new, CopyFlags(new, {}, k), k) = CopyFlags(new, {}, k)
  BY DEF CopyTiles, CopyFlags
<1>2. DOMAIN FreshConfig = ConfigFields /\ FreshConfig.busW = {} /\ FreshConfig.busR = {}
  BY DEF FreshConfig, ConfigFields
<1> DEFINE twice == BakedConfig(Baked, Bake)
<1>3. /\ DOMAIN Baked = ConfigFields /\ Baked = [x \in ConfigFields |-> Baked[x]]
      /\ Baked.n = ActiveCount(Bake) /\ Baked.w = FieldWidth(ActiveCount(Bake), Bake.w)
      /\ Baked.topoW = Bake.w /\ Baked.mode = Bake.mode /\ Baked.bakeId = Bake.bakeId
      /\ Baked.applied = TRUE /\ Baked.strait = Bake.strait
      /\ Baked.mask = CopyTiles(Bake.mask, FreshConfig.mask, Bake.n)
      /\ Baked.busW = CopyFlags(Bake.busW, {}, Bake.n)
      /\ Baked.busR = CopyFlags(Bake.busR, {}, Bake.n)
      /\ Baked.par = CopyTiles(Bake.par, FreshConfig.par, Bake.n)
      /\ Baked.weight = CopyTiles(Bake.weight, FreshConfig.weight, Bake.n)
  BY ZenonT(30), <1>2, BakedFields DEF Baked
<1>4. /\ twice = [x \in ConfigFields |-> twice[x]]
      /\ twice.n = ActiveCount(Bake) /\ twice.w = FieldWidth(ActiveCount(Bake), Bake.w)
      /\ twice.topoW = Bake.w /\ twice.mode = Bake.mode /\ twice.bakeId = Bake.bakeId
      /\ twice.applied = TRUE /\ twice.strait = Bake.strait /\ twice.double = Baked.double
      /\ twice.mask = CopyTiles(Bake.mask, Baked.mask, Bake.n)
      /\ twice.busW = CopyFlags(Bake.busW, Baked.busW, Bake.n)
      /\ twice.busR = CopyFlags(Bake.busR, Baked.busR, Bake.n)
      /\ twice.par = CopyTiles(Bake.par, Baked.par, Bake.n)
      /\ twice.weight = CopyTiles(Bake.weight, Baked.weight, Bake.n)
  BY <1>3, BakedFields
<1> HIDE DEF twice
<1>5. twice.mask = Baked.mask /\ twice.par = Baked.par /\ twice.weight = Baked.weight
  <2>1. ASSUME NEW new, NEW old, NEW b, NEW t, NEW k,
               b = CopyTiles(new, old, k), t = CopyTiles(new, b, k)
        PROVE  t = b
    BY <1>1, <2>1
  <2>2. QED
    BY <1>3, <1>4, <2>1
<1>6. twice.busW = Baked.busW /\ twice.busR = Baked.busR
  <2>1. ASSUME NEW new, NEW b, NEW t, NEW k,
               b = CopyFlags(new, {}, k), t = CopyFlags(new, b, k)
        PROVE  t = b
    BY <1>1, <2>1
  <2>2. QED
    BY <1>3, <1>4, <2>1
<1>7. \A x \in ConfigFields : twice[x] = Baked[x]
  <2>1. /\ twice.n = Baked.n /\ twice.w = Baked.w /\ twice.topoW = Baked.topoW
        /\ twice.mode = Baked.mode /\ twice.bakeId = Baked.bakeId
        /\ twice.applied = Baked.applied /\ twice.strait = Baked.strait
        /\ twice.double = Baked.double
    BY <1>3, <1>4
  <2>2. QED
    BY <1>5, <1>6, <2>1, Zenon DEF ConfigFields
<1>8. twice = Baked
  BY <1>3, <1>4, <1>7
<1>9. QED
  BY <1>8 DEF twice, Baked

LEMMA OneThread ==
  ASSUME RInv, NEW k \in Threads, NEW j \in Threads, Alive(k), Alive(j)
  PROVE  k = j
BY DEF RInv, OwnSocket

\* Where nothing is in hand, and what does not touch it.
LEMMA ServedMeansBaked ==
  ASSUME NInv, JobInv, job.at # "none"
  PROVE  cfg = Baked /\ main \in {"loop", "close"}
<1>1. \E k \in Threads : Alive(k)
  BY DEF JobInv, Serving, Alive
<1>2. main \in {"loop", "close"}
  BY <1>1 DEF JobInv, Serving, NInv, Quiet
<1>3. QED
  BY <1>2 DEF JobInv

LEMMA InitJob == NetInit => JobInv
<1> SUFFICES ASSUME NetInit PROVE JobInv
  OBVIOUS
<1>1. job = NoJob /\ cfg = FreshConfig /\ main \in {"init", "other"}
  BY DEF NetInit, Init
<1>2. NoJob \in Jobs /\ NoJob.at = "none"
  BY DEF NoJob, Jobs
<1>3. QED
  BY <1>1, <1>2 DEF JobInv

\* The main thread and the calls on the receiver.
LEMMA MainKeepsJob ==
  ASSUME RInv, NInv, JobInv, Main \/ Signal \/ CallGoesOn \/ (Calls /\ UNCHANGED solverVars)
  PROVE  JobInv'
<1>1. ASSUME UNCHANGED <<vars, resetting, job>>, Serving => Serving',
             main' \in {"start", "loop", "close", "cleanup"} => cfg = Baked
      PROVE  JobInv'
  BY <1>1 DEF JobInv, vars, Answering, Forgotten
<1>2. CASE InitSucceeds
  <2>1. main = "init" /\ cfg' = BakedConfig(cfg, Bake) /\ job' = job
    BY <1>2 DEF InitSucceeds, EvBake
  <2>2. job.at = "none"
    BY <2>1, ServedMeansBaked
  <2>3. cfg' = Baked
    BY <2>1, BakedTwice DEF JobInv
  <2>4. QED
    BY <2>1, <2>2, <2>3 DEF JobInv
<1>3. CASE InitFails \/ Signal
  BY <1>1, <1>3 DEF InitFails, Signal, Receiverless, recvVars, threadVars, vars, Serving, JobInv
<1>4. CASE StartReceiver \/ StopReceiver \/ CloseSender \/ FreeAll
  BY <1>1, <1>4 DEF StartReceiver, StopReceiver, CloseSender, FreeAll, MainGoes, Start, Stop,
                    Cleanup, BeginStop, Receiverless, recvVars, threadVars, vars, Serving, JobInv
<1>5. CASE CallGoesOn
  <2>1. \A k \in Threads : pc[k] = "handling" => pc'[k] = "handling"
    BY <1>5, MaxStartsAssumption
       DEF CallGoesOn, OwnerSteps, Shutdown, Close, Join, OpenFails, OpenSucceeds, threadVars,
           RInv, RecvTypeOK, Threads
  <2>2. QED
    BY <1>1, <1>5, <2>1 DEF CallGoesOn, solverVars, Serving, JobInv
<1>6. CASE Calls /\ UNCHANGED solverVars
  BY <1>1, <1>6 DEF Calls, Start, Stop, Cleanup, BeginStop, threadVars, solverVars, Serving, JobInv
<1>7. QED
  BY <1>2, <1>3, <1>4, <1>5, <1>6 DEF Main


\* The thread in its loop, and a packet taken.
LEMMA ListenKeepsJob ==
  ASSUME RInv, NInv, JobInv, NEW k \in Threads, Listen(k) \/ OtherHandler(k)
  PROVE  JobInv'
<1>1. UNCHANGED <<vars, main, resetting, job>>
  BY DEF Listen, OtherHandler, solverVars
<1>2. main # "other" => \A j \in Threads : pc[j] = "handling" => pc'[j] = "handling"
  BY DEF Listen, OtherHandler, Receive, GetOther, GetNothing, TimeOut, Fail, RInv, RecvTypeOK
<1>3. Serving => Serving'
  BY <1>1, <1>2 DEF Serving
<1>4. QED
  BY <1>1, <1>3 DEF JobInv, vars, Answering, Forgotten

LEMMA TakeKeepsJob ==
  ASSUME RInv, NInv, JobInv, NEW k \in Threads, TakePacket(k)
  PROVE  JobInv'
<1>1. PICK p \in Packets :
        job' = [at |-> IF p.mask \in {{}, Domains} THEN "flash" ELSE "reset",
                packet |-> p, left |-> {}, sent |-> FALSE]
  BY DEF TakePacket
<1>2. job' \in Jobs /\ job'.at \in {"flash", "reset"} /\ job'.packet \in Packets /\ ~job'.sent
  BY <1>1 DEF Jobs
<1>3. UNCHANGED <<cfg, main>> /\ Serving'
  BY DEF TakePacket, GetPacket, vars, Serving, RInv, RecvTypeOK
<1>4. QED
  BY <1>2, <1>3 DEF JobInv

\* The steps of the handler.
LEMMA HandlerKeepsJob ==
  ASSUME RInv, NInv, JobInv, NEW k \in Threads,
         ResetDomains(k) \/ FlashFrame(k) \/ NextDomain(k) \/ AllSent(k) \/ ResetAll(k)
           \/ BakeAgain(k) \/ Return(k)
  PROVE  JobInv'
<1>1. job.at # "none"
  BY DEF ResetDomains, FlashFrame, NextDomain, AllSent, ResetAll, BakeAgain, Return, Handler
<1>2. cfg = Baked
  BY <1>1, ServedMeansBaked
<1>t. job \in Jobs
  BY DEF JobInv
<1>3. ASSUME UNCHANGED <<main, resetting, recvVars>>, cfg' = cfg, job' \in Jobs,
             job'.packet = job.packet, job'.at \in {"reset", "flash"} => ~job'.sent,
             job'.at = "send" => Answering',
             job'.at = "bake" => Forgotten',
             job'.at = "done" /\ job'.sent /\ resetting => Forgotten'
      PROVE  JobInv'
  BY <1>1, <1>3 DEF JobInv, Serving, recvVars, threadVars
<1>4. CASE ResetDomains(k)
  <2>1. job' = [job EXCEPT !.at = "flash"] /\ cfg' = cfg /\ job.at = "reset"
        /\ UNCHANGED <<main, resetting, recvVars>>
    BY <1>4 DEF ResetDomains, Handler, EvResetDomain, Receiverless
  <2>2. job' \in Jobs /\ job'.at = "flash" /\ job'.packet = job.packet /\ ~job'.sent
    BY <1>t, <2>1 DEF Jobs, JobInv
  <2>3. QED
    BY <1>3, <2>1, <2>2
<1>5. CASE FlashFrame(k)
  <2>1. UNCHANGED <<main, resetting, recvVars>> /\ ~job.sent
    BY <1>5 DEF FlashFrame, Handler, Receiverless, JobInv
  <2>2. CASE /\ job.packet.frame \in Frames /\ EvFlash(job.packet.frame)
             /\ job' = [job EXCEPT !.at = "send", !.left = Domains]
    <3>1. job' \in Jobs /\ job'.at = "send" /\ job'.packet = job.packet
      BY <1>t, <2>2 DEF Jobs
    <3>2. cfg' = cfg /\ \E r : rt' = FlashOnce(cfg, r, job.packet.frame)
      BY <2>2, LastPass
    <3>3. QED
      BY <1>3, <2>1, <2>2, <3>1, <3>2 DEF Answering
  <2>3. CASE EvFlashBadIngress /\ job' = [job EXCEPT !.at = "done"]
    <3>1. job' \in Jobs /\ job'.at = "done" /\ job'.packet = job.packet /\ ~job'.sent
      BY <1>t, <2>1, <2>3 DEF Jobs
    <3>2. QED
      BY <1>3, <2>1, <2>3, <3>1 DEF EvFlashBadIngress
  <2>4. QED
    BY <1>5, <2>2, <2>3 DEF FlashFrame
<1>6. CASE NextDomain(k)
  <2>1. UNCHANGED <<main, resetting, recvVars, vars>> /\ job.at = "send"
    BY <1>6 DEF NextDomain, Handler, Receiverless
  <2>2. \E sent \in BOOLEAN : job' = [job EXCEPT !.left = @ \ {Min(job.left)}, !.sent = sent]
    <3>1. CASE job' = [job EXCEPT !.left = @ \ {Min(job.left)}]
      BY <1>t, <3>1 DEF Jobs
    <3>2. QED
      BY <1>6, <3>1 DEF NextDomain
  <2>3. job' \in Jobs /\ job'.at = "send" /\ job'.packet = job.packet
    BY ZenonT(30), <1>t, <2>1, <2>2 DEF Jobs
  <2>4. Answering'
    BY <2>1, <2>3 DEF Answering, JobInv, vars
  <2>5. QED
    BY <1>3, <2>1, <2>3, <2>4 DEF vars
<1>7. CASE AllSent(k)
  <2>1. UNCHANGED <<main, resetting, recvVars, vars>>
        /\ job' = [job EXCEPT !.at = IF resetting /\ job.sent THEN "reset all" ELSE "done"]
    BY <1>7 DEF AllSent, Handler, Receiverless
  <2>2. job' \in Jobs /\ job'.at \in {"reset all", "done"} /\ job'.packet = job.packet
        /\ (job'.at = "done" => ~(resetting /\ job'.sent))
    BY <1>t, <2>1 DEF Jobs
  <2>3. QED
    BY <1>3, <2>1, <2>2 DEF vars
<1>8. CASE ResetAll(k)
  <2>1. UNCHANGED <<main, resetting, recvVars, cfg>> /\ job' = [job EXCEPT !.at = "bake"]
        /\ FullReset
    BY <1>8 DEF ResetAll, Handler, Receiverless, FullReset
  <2>2. job' \in Jobs /\ job'.at = "bake" /\ job'.packet = job.packet
    BY <1>t, <2>1 DEF Jobs
  <2>3. Forgotten'
    BY <2>1 DEF FullReset, Forgotten
  <2>4. QED
    BY <1>3, <2>1, <2>2, <2>3
<1>9. CASE BakeAgain(k)
  <2>1. UNCHANGED <<main, resetting, recvVars, rt>> /\ job' = [job EXCEPT !.at = "done"]
        /\ job.at = "bake"
    BY <1>9 DEF BakeAgain, Handler, Receiverless, EvBake, EvBakeRefused
  <2>2. job' \in Jobs /\ job'.at = "done" /\ job'.packet = job.packet
    BY <1>t, <2>1 DEF Jobs
  <2>3. Forgotten'
    BY <2>1 DEF Forgotten, JobInv
  <2>4. cfg' = cfg
    BY <1>2, <1>9, BakedTwice DEF BakeAgain, EvBake, EvBakeRefused
  <2>5. QED
    BY <1>3, <2>1, <2>2, <2>3, <2>4
<1>10. CASE Return(k)
  <2>1. job' = NoJob /\ UNCHANGED <<cfg, main>>
    BY <1>10 DEF Return, vars
  <2>2. NoJob \in Jobs /\ NoJob.at = "none"
    BY DEF NoJob, Jobs
  <2>3. QED
    BY <1>2, <2>1, <2>2 DEF JobInv
<1>11. QED
  BY <1>4, <1>5, <1>6, <1>7, <1>8, <1>9, <1>10

LEMMA NextJob == RInv /\ NInv /\ JobInv /\ [NetNext]_netVars => JobInv'
<1> SUFFICES ASSUME RInv, NInv, JobInv, [NetNext]_netVars PROVE JobInv'
  OBVIOUS
<1>1. CASE UNCHANGED netVars
  BY <1>1 DEF netVars, solverVars, recvVars, threadVars, vars, JobInv, Serving, Answering, Forgotten
<1>2. CASE NetNext
  BY <1>2, MainKeepsJob, ListenKeepsJob, TakeKeepsJob, HandlerKeepsJob DEF NetNext, NetThread
<1>3. QED
  BY <1>1, <1>2

LEMMA AlwaysJob == NetSpec => [](RInv /\ NInv /\ JobInv)
<1>1. NetSpec => []RInv
  BY SolverDrivesReceiver, AlwaysRInv, PTL
<1>2. QED
  BY <1>1, InitNInv, NextNInv, InitJob, NextJob, PTL DEF NetSpec

\* With reset_on_solution the swarm is as it was when the receiver started,
\* whatever the bake, the frames and the number of solutions before.
THEOREM SolutionsAreForgotten == NetSpec => []SolvedIsForgotten
<1>1. NInv /\ JobInv => SolvedIsForgotten
  <2> SUFFICES ASSUME NInv, JobInv, resetting, job.sent, job.at = "done"
               PROVE  /\ rt.locked = {} /\ \A t \in Tiles : rt.thr[t] = 0
                      /\ rt.snap = ZeroSnap /\ cfg = BakedConfig(FreshConfig, Bake)
    BY DEF SolvedIsForgotten
  <2>1. Forgotten
    BY DEF JobInv
  <2>2. cfg = Baked
    BY ServedMeansBaked
  <2>3. QED
    BY <2>1, <2>2 DEF Forgotten, Baked
<1>2. QED
  BY <1>1, AlwaysJob, PTL


-----------------------------------------------------------------------------
(* The swarm and the answers                                               *)

IsNetHost == host = NetHost

\* The solver's calls are those of a host of Swarm.
LEMMA StepDrivesSwarm ==
  ASSUME RInv, NInv, JobInv, [NetNext]_netVars, IsNetHost
  PROVE  [Next]_vars /\ IsNetHost'
<1>h. /\ Bake \in host.images /\ host.resets = Masks
  BY DEF IsNetHost, NetHost
<1>1. CASE UNCHANGED netVars \/ CallGoesOn \/ (Calls /\ UNCHANGED solverVars)
  BY <1>1 DEF netVars, solverVars, CallGoesOn, vars, IsNetHost
<1>2. CASE Signal \/ InitFails \/ StartReceiver \/ StopReceiver \/ CloseSender \/ FreeAll
  BY <1>2 DEF Signal, InitFails, StartReceiver, StopReceiver, CloseSender, FreeAll, MainGoes, vars, IsNetHost
<1>3. CASE InitSucceeds
  BY <1>h, <1>3 DEF InitSucceeds, Next, HostCall, IsNetHost
<1>4. ASSUME NEW k \in Threads, NetThread(k)
      PROVE  [Next]_vars /\ IsNetHost'
  <2>1. CASE Listen(k) \/ OtherHandler(k) \/ TakePacket(k) \/ NextDomain(k) \/ AllSent(k)
             \/ Return(k)
    BY <2>1 DEF Listen, OtherHandler, TakePacket, NextDomain, AllSent, Return, solverVars, vars, IsNetHost
  <2>2. CASE ResetDomains(k)
    <3>1. job.packet.mask \in Masks
      BY <2>2 DEF ResetDomains, Handler, JobInv, Packets
    <3>2. QED
      BY <1>h, <2>2, <3>1 DEF ResetDomains, Handler, Next, HostCall, IsNetHost
  <2>3. CASE FlashFrame(k) \/ ResetAll(k) \/ BakeAgain(k)
    BY <1>h, <2>3 DEF FlashFrame, ResetAll, BakeAgain, Handler, Next, HostCall, IsNetHost
  <2>4. QED
    BY <1>4, <2>1, <2>2, <2>3 DEF NetThread
<1>5. QED
  BY <1>1, <1>2, <1>3, <1>4 DEF NetNext, Main

\* The handler and the main thread together drive the swarm as one host of
\* Swarm does that bakes one image and edits nothing: the two threads' calls
\* interleave to a sequence of calls.
THEOREM SolverDrivesSwarm == NetSpec => Spec
<1>1. NetInit => Init /\ IsNetHost
  BY DEF NetInit, IsNetHost
<1>2. RInv /\ NInv /\ JobInv /\ [NetNext]_netVars /\ IsNetHost
        => [Next]_vars /\ IsNetHost'
  BY StepDrivesSwarm
<1>3. QED
  BY <1>1, <1>2, AlwaysJob, PTL DEF NetSpec, Spec

\* Whatever the packets are, and the order they come in: what is sent is a tile
\* that has locked in the pass over the packet in hand and is still locked, in
\* its own domain and with a pattern.
THEOREM AnswersAreWinners == NetSpec => AnswersWinners
<1> DEFINE Answers ==
      out' # out =>
        LET w == out'.tile
        IN  /\ job.packet.frame \in Frames
            /\ w \in rt.locked /\ rt.snap.v[w].fire
            /\ cfg.par[w].dom = out'.dom /\ out'.pat # 0
<1>1. RInv /\ NInv /\ JobInv /\ CoreOK /\ [NetNext]_netVars => Answers
  <2> SUFFICES ASSUME JobInv, CoreOK, [NetNext]_netVars, out' # out PROVE Answers
    OBVIOUS
  <2>1. PICK k \in Threads : NextDomain(k)
    BY DEF NetNext, netVars, solverVars, CallGoesOn, Main, Signal, InitSucceeds, InitFails,
           StartReceiver, StopReceiver, CloseSender, FreeAll, MainGoes, NetThread, Listen,
           OtherHandler, TakePacket, ResetDomains, FlashFrame, AllSent, ResetAll, BakeAgain, Return
  <2> DEFINE d == Min(job.left)
             w == rt.snap.winner[d]
             fire(r) == Fire(cfg, r, job.packet.frame, ActiveSet(cfg, r.locked))
  <2>2. /\ w # NoTile /\ job.left # {} /\ job.at = "send"
        /\ out' = [dom |-> d, tile |-> w, pat |-> cfg.par[w].pat,
                   collide |-> d \in rt.snap.collide, bus |-> rt.snap.bus]
    BY <2>1 DEF NextDomain, Handler, Sends, Solution
  <2>3. d \in Domains
    <3>1. job.left \subseteq Domains
      BY DEF JobInv, Jobs
    <3>2. job.left \in SUBSET Nat
      <4>1. Domains \subseteq Nat
        BY DomainsAssumption
      <4>2. QED
        BY <3>1, <4>1
    <3>3. PICK m \in job.left : \A n \in job.left : m <= n
      BY <2>2, <3>2, LeastNat
    <3>4. d \in job.left
      BY <3>3 DEF Min
    <3>5. QED
      BY <3>1, <3>4
  <2>4. PICK r : rt = FlashOnce(cfg, r, job.packet.frame)
    BY <2>2 DEF JobInv, Answering
  <2>5. w \in rt.locked /\ w \in Field(cfg) /\ cfg.par[w].dom = d
    <3> DEFINE g == job.packet.frame
    <3> HIDE DEF d, g
    <3>1. rt = FlashOnce(cfg, r, g)
      BY <2>4 DEF g
    <3>2. FlashOnce(cfg, r, g).snap.winner[d] # NoTile
      BY <2>2, <3>1
    <3>3. QED
      BY <2>3, <3>1, <3>2, FlashWinnerStays
  <2>6. w = Winner(cfg.par, fire(r), d)
    BY <2>3, <2>4, FlashSnap
  <2>7. w \in fire(r) /\ cfg.par[w].pat # 0
    BY <2>2, <2>6 DEF Winner, IsWinner, Contenders
  <2>8. rt.snap.v[w].fire
    BY <2>4, <2>5, <2>7, FlashFire, FieldInTiles DEF CoreOK
  <2>9. QED
    BY <2>2, <2>5, <2>7, <2>8 DEF JobInv, Answering
<1>2. NetSpec => []CoreOK
  BY SolverDrivesSwarm, SwarmIsAny, AnyCore, PTL
<1>3. QED
  BY <1>1, <1>2, AlwaysJob, PTL DEF NetSpec, AnswersWinners

=============================================================================
