------------------------------ MODULE NetSolver -----------------------------
(***************************************************************************)
(* The network solver (src/net_solver/net_solver.c, POSIX build): its main *)
(* thread, the receiver it starts with the thread that receiver runs, the  *)
(* swarm that thread flashes and the sender it answers through, in         *)
(* interleaving.  The receiver is UdpReceiver, whose actions are steps     *)
(* here; the calls on the swarm are the actions of Swarm.                  *)
(*                                                                         *)
(* The network may lose, repeat and reorder datagrams: any packet may come *)
(* at any time.  A packet is [frame, mask]: the levels in bus16, which may *)
(* be out of range, and reset_mask16 as a set of domains.  The totals that *)
(* are printed at the end and the tags are left out.                       *)
(*                                                                         *)
(* main = "other" stands for any other program with a receiver: it calls   *)
(* start, stop and cleanup in every order and has a handler of its own.    *)
(***************************************************************************)
EXTENDS UdpReceiver, Swarm

CONSTANTS
  Bake,        \* what the bake file holds: the image of its blob
  Masks        \* reset masks that come in packets

\* The solver as a host of Swarm: one bake, resets, no edits and no buffer.
NetHost ==
  [images |-> {Bake}, resets |-> Masks, params |-> {}, masks |-> {}, weights |-> {},
   patterns |-> {}, limits |-> {}, locks |-> {}, doubles |-> {}, bakeIds |-> {},
   tiles |-> {}, buffers |-> {}]

ASSUME NetHostAssumption == NetHost \in Hosts

VARIABLES
  main,       \* where the main thread is
  signalled,  \* g_running has been cleared
  resetting,  \* reset_on_solution
  sender,     \* "none", "open" or "closed"
  freed,      \* the swarm and the bake data have been freed
  job,        \* what the handler is at: [at, packet, left, sent]
  out         \* the last solution sent

solverVars == <<vars, main, signalled, resetting, sender, freed, job, out>>
netVars    == <<recvVars, solverVars>>

Packets == [frame : Frames \cup BadFrames, mask : Masks]

NoJob == [at |-> "none", packet |-> <<>>, left |-> {}, sent |-> FALSE]
NoOut == <<>>

NetInit ==
  /\ RecvInit
  /\ Init /\ host = NetHost
  /\ main \in {"init", "other"}
  /\ signalled = FALSE /\ freed = FALSE /\ sender = "none"
  /\ resetting \in BOOLEAN /\ (main = "other" => ~resetting)
  /\ job = NoJob /\ out = NoOut

-----------------------------------------------------------------------------
(***************************************************************************)
(* The main thread.  While a call on the receiver is in progress, owner is *)
(* not "idle" and main waits for it to return.                             *)
(***************************************************************************)
Receiverless == UNCHANGED recvVars

\* d8_udp_sender_open and d8_udp_sender_close; a send on a closed sender fails.
OpenSender == sender' = "open"
ShutSender == sender' = "closed"

\* net_solver_init: the bake is applied and the sender is open.
InitSucceeds ==
  /\ main = "init"
  /\ EvBake(Bake)
  /\ OpenSender
  /\ main' = "start"
  /\ UNCHANGED <<host, signalled, resetting, freed, job, out>> /\ Receiverless

\* Any step of it fails: the program returns 1 at once.
InitFails ==
  /\ main = "init"
  /\ main' = "ended"
  /\ UNCHANGED <<vars, signalled, resetting, sender, freed, job, out>>
  /\ Receiverless

MainGoes(from, to) ==
  /\ main = from /\ owner = "idle"
  /\ main' = to
  /\ UNCHANGED <<vars, signalled, resetting, job, out>>

\* net_solver_start.  Whether the start succeeds is not looked at.
StartReceiver ==
  /\ MainGoes("start", "loop")
  /\ Start
  /\ UNCHANGED <<sender, freed>>

\* A bug the properties catch: the sender is closed and the rest freed before
\* the receiver has been stopped.
FreeFirst ==
  /\ signalled
  /\ MainGoes("loop", "close")
  /\ ShutSender /\ freed' = TRUE
  /\ Receiverless

\* A bug the properties catch: there is nothing to stop when no receiver runs.
StopRunning ==
  /\ signalled /\ running
  /\ MainGoes("loop", "close")
  /\ Stop
  /\ UNCHANGED <<sender, freed>>

\* The loop ends once a signal has come, and net_solver_stop begins.
StopReceiver ==
  /\ signalled
  /\ MainGoes("loop", "close")
  /\ Stop
  /\ UNCHANGED <<sender, freed>>

CloseSender ==
  /\ MainGoes("close", "cleanup")
  /\ ShutSender
  /\ UNCHANGED freed /\ Receiverless

\* net_solver_cleanup
FreeAll ==
  /\ MainGoes("cleanup", "ended")
  /\ freed' = TRUE
  /\ Cleanup
  /\ UNCHANGED sender

\* SIGINT or SIGTERM
Signal ==
  /\ main # "other" /\ ~signalled
  /\ signalled' = TRUE
  /\ UNCHANGED <<vars, main, resetting, sender, freed, job, out>> /\ Receiverless

Main ==
  \/ InitSucceeds \/ InitFails \/ StartReceiver \/ StopReceiver
  \/ CloseSender \/ FreeAll

-----------------------------------------------------------------------------
(***************************************************************************)
(* on_udp_packet_received, on the receiver's thread k.                     *)
(***************************************************************************)
TakePacket(k) ==
  /\ main # "other"
  /\ GetPacket(k)
  /\ \E p \in Packets :
       job' = [at |-> IF p.mask \in {{}, Domains} THEN "flash" ELSE "reset",
               packet |-> p, left |-> {}, sent |-> FALSE]
  /\ UNCHANGED <<vars, main, signalled, resetting, sender, freed, out>>

\* A step of the handler, from one place in it to another.
Handler(k, from) ==
  /\ pc[k] = "handling" /\ job.at = from
  /\ UNCHANGED <<host, main, signalled, resetting, sender, freed>> /\ Receiverless

\* A mask of no or of all domains has been taken for none.
ResetDomains(k) ==
  /\ Handler(k, "reset")
  /\ EvResetDomain(job.packet.mask)
  /\ job' = [job EXCEPT !.at = "flash"]
  /\ UNCHANGED out

\* A bug the properties catch: a flash that failed is taken for one that found
\* what the snapshot shows.
FlashUnchecked(k) ==
  /\ Handler(k, "flash")
  /\ \/ job.packet.frame \in Frames /\ EvFlash(job.packet.frame)
     \/ job.packet.frame \in BadFrames /\ EvFlashBadIngress
  /\ job' = [job EXCEPT !.at = "send", !.left = Domains]
  /\ UNCHANGED out

FlashFrame(k) ==
  /\ Handler(k, "flash")
  /\ \/ /\ job.packet.frame \in Frames
        /\ EvFlash(job.packet.frame)
        /\ job' = [job EXCEPT !.at = "send", !.left = Domains]
     \/ /\ job.packet.frame \in BadFrames
        /\ EvFlashBadIngress
        /\ job' = [job EXCEPT !.at = "done"]
  /\ UNCHANGED out

Solution(d) ==
  LET w == rt.snap.winner[d]
  IN  [dom |-> d, tile |-> w, pat |-> cfg.par[w].pat,
       collide |-> d \in rt.snap.collide, bus |-> rt.snap.bus]

\* d8_udp_sender_send succeeds.
Sends(d) == sender = "open" /\ out' = Solution(d)

\* One domain after the other; what is not sent is not tried again.
NextDomain(k) ==
  /\ Handler(k, "send") /\ job.left # {}
  /\ LET d == Min(job.left)
     IN  \/ /\ job' = [job EXCEPT !.left = @ \ {d}]
            /\ UNCHANGED out
         \/ /\ rt.snap.winner[d] # NoTile
            /\ Sends(d)
            /\ job' = [job EXCEPT !.left = @ \ {d}, !.sent = TRUE]
  /\ UNCHANGED vars

AllSent(k) ==
  /\ Handler(k, "send") /\ job.left = {}
  /\ job' = [job EXCEPT !.at = IF resetting /\ job.sent THEN "reset all" ELSE "done"]
  /\ UNCHANGED <<vars, out>>

\* A bug the properties catch: the bake alone is trusted to reset the runtime.
BakeResets(k) ==
  /\ Handler(k, "reset all")
  /\ job' = [job EXCEPT !.at = "bake"]
  /\ UNCHANGED <<vars, out>>

ResetAll(k) ==
  /\ Handler(k, "reset all")
  /\ FullReset
  /\ job' = [job EXCEPT !.at = "bake"]
  /\ UNCHANGED out

\* The status is not looked at: the bake fails when there is no memory.
BakeAgain(k) ==
  /\ Handler(k, "bake")
  /\ EvBake(Bake) \/ EvBakeRefused
  /\ job' = [job EXCEPT !.at = "done"]
  /\ UNCHANGED out

Return(k) ==
  /\ job.at = "done"
  /\ Handled(k)
  /\ job' = NoJob
  /\ UNCHANGED <<vars, main, signalled, resetting, sender, freed, out>>

\* The steps of the thread that are none of the handler's.
Listen(k) ==
  /\ Receive(k) \/ GetOther(k) \/ GetNothing(k) \/ TimeOut(k) \/ Fail(k)
  /\ UNCHANGED solverVars

\* The handler of another program.
OtherHandler(k) ==
  /\ main = "other"
  /\ GetPacket(k) \/ Handled(k)
  /\ UNCHANGED solverVars

NetThread(k) ==
  \/ Listen(k) \/ OtherHandler(k) \/ TakePacket(k) \/ ResetDomains(k) \/ FlashFrame(k)
  \/ NextDomain(k) \/ AllSent(k) \/ ResetAll(k) \/ BakeAgain(k) \/ Return(k)

CallGoesOn == OwnerSteps /\ UNCHANGED solverVars

NetNext ==
  \/ Main
  \/ Signal
  \/ main = "other" /\ Calls /\ UNCHANGED solverVars
  \/ CallGoesOn
  \/ \E k \in Threads : NetThread(k)

NetSpec == NetInit /\ [][NetNext]_netVars

\* A step of thread k: in its loop, or in the handler it is in.
Moves(k) == pc'[k] # pc[k] \/ (pc[k] = "handling" /\ job' # job)

\* The main thread runs on, so does a call it is in; recvfrom returns when its
\* timeout is over at the latest, and the handler does not block.  The last is
\* weak fairness of NetThread(k), which can step whenever thread k is alive.
NetFairSpec ==
  /\ NetSpec
  /\ WF_netVars(Main) /\ WF_netVars(CallGoesOn)
  /\ \A k \in Threads : []<>(~Alive(k)) \/ []<><<Moves(k)>>_netVars

-----------------------------------------------------------------------------
(***************************************************************************)
(* Properties                                                              *)
(***************************************************************************)

\* What the handler works with is there while it works: the main thread closes
\* the sender and frees the swarm without a lock or a look at the thread, so
\* that only the join inside the stop keeps the two apart.
NothingFreedUnderHandler ==
  main # "other" /\ (\E k \in Threads : pc[k] = "handling") => sender = "open" /\ ~freed

\* A solution is an answer to the packet in hand: a tile that has locked in
\* that packet's flash, in the domain named and with its pattern.  None is sent
\* from the snapshot of an earlier frame or of a reset, in which the winner
\* fields read 0, the number of a tile.
AnswersWinners ==
  [][out' # out =>
       LET w == out'.tile
       IN  /\ job.packet.frame \in Frames
           /\ w \in rt.locked /\ rt.snap.v[w].fire
           /\ cfg.par[w].dom = out'.dom /\ out'.pat # 0]_netVars

\* With reset_on_solution nothing of the frames up to a solution has a part in
\* those after it, although EV_BAKE alone leaves locks and accumulators as they
\* are: the swarm is as it was when the receiver was started.  Only row_out,
\* which no reset clears, may differ.
SolvedIsForgotten ==
  resetting /\ job.sent /\ job.at = "done" =>
    /\ rt.locked = {} /\ \A t \in Tiles : rt.thr[t] = 0
    /\ rt.snap = ZeroSnap
    /\ cfg = BakedConfig(FreshConfig, Bake)

\* A signal ends the program, wherever the receiver's thread is and whether it
\* was ever started.
SignalEnds == signalled ~> main = "ended"
=============================================================================
