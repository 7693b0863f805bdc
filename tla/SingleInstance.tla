--------------------------- MODULE SingleInstance ---------------------------
(***************************************************************************)
(* Launches of AudioLens by one user: who becomes the instance, and how    *)
(* the others hand it their command lines.  src/src/app/main.cpp decides,  *)
(* control_channel.cpp carries the requests over a named pipe, and         *)
(* MainWindow carries them out.                                            *)
(*                                                                         *)
(* Every process runs main() once.  Timeouts may expire at any moment.     *)
(* The pipe is external: its name belongs to the process that listens on   *)
(* it and goes with that process; it can be listened on unless it is owned.*)
(* Of a request only what main() and the handler tell apart is kept.       *)
(***************************************************************************)
EXTENDS Naturals, FiniteSets

CONSTANTS Process,     \* the launches
          NoProcess,   \* nobody
          Requests     \* the command lines they are launched with

Flags == {"change", "question", "quit", "typo"}

ASSUME InstanceAssumption ==
  /\ NoProcess \notin Process
  /\ Requests \subseteq SUBSET Flags

VARIABLES
  pc, request, asked,   \* per process: main(), its flags, sendTo... calls
  owner,                \* who listens on the pipe
  link, server,         \* per process: its connection, and to whom
  dialog, quitting,     \* per process: the event loop, see below
  outcome,              \* per process: what its shell is told
  flawed,               \* per process: a part of what it has asked for failed
  carried, vanished     \* history, see below

launch == <<request, asked>>
channel == <<link, server>>
loop == <<dialog, quitting>>
history == <<flawed, carried, vanished>>
vars == <<pc, launch, owner, channel, loop, outcome, history>>

Starting == {"ask", "waiting", "claim", "claimAgain"}
InWindow == {"build", "apply", "applying", "run", "exit"}

Instances == {p \in Process : pc[p] \in InWindow}

ChangesState(flags) == flags \cap {"change", "quit"} # {}
ActsOnRunningInstance(flags) == ChangesState(flags) \/ "question" \in flags

Init ==
  /\ pc = [p \in Process |-> "new"] /\ request = [p \in Process |-> {}]
  /\ asked = [p \in Process |-> 0] /\ owner = NoProcess
  /\ link = [p \in Process |-> "none"] /\ server = [p \in Process |-> NoProcess]
  /\ dialog = [p \in Process |-> NoProcess] /\ quitting = [p \in Process |-> FALSE]
  /\ outcome = [p \in Process |-> "none"]
  /\ flawed = [p \in Process |-> FALSE]
  /\ carried = [p \in Process |-> 0] /\ vanished = FALSE

Goto(p, place) == pc' = [pc EXCEPT ![p] = place]
Link(p, state) == link' = [link EXCEPT ![p] = state]

Return(p, code) ==
  /\ Goto(p, "gone")
  /\ outcome' = [outcome EXCEPT ![p] = code]

-----------------------------------------------------------------------------
(* The launched process.                                                   *)

(* A command line that does not parse is settled by the process itself.    *)
Launch(p, flags) ==
  /\ pc[p] = "new"
  /\ request' = [request EXCEPT ![p] = flags]
  /\ IF "typo" \in flags THEN Return(p, "usage")
     ELSE Goto(p, "ask") /\ UNCHANGED outcome
  /\ UNCHANGED <<asked, owner, channel, loop, history>>

(* Nobody listens.  The first time a question, or --quit, has its answer   *)
(* and anything else goes on to claim the name; the second time it has     *)
(* failed to, and carries on without.                                      *)
FindNobody(p) ==
  /\ pc[p] = "ask" /\ owner = NoProcess
  /\ asked' = [asked EXCEPT ![p] = @ + 1]
  /\ IF asked[p] = 1
     THEN Goto(p, "build") /\ UNCHANGED outcome
     ELSE IF "quit" \in request[p]
               \/ (ActsOnRunningInstance(request[p]) /\ ~ChangesState(request[p]))
     THEN Return(p, "notRunning")
     ELSE Goto(p, "claim") /\ UNCHANGED outcome
  /\ UNCHANGED <<request, owner, channel, loop, history>>

Connect(p) ==
  /\ pc[p] = "ask" /\ owner # NoProcess
  /\ asked' = [asked EXCEPT ![p] = @ + 1]
  /\ server' = [server EXCEPT ![p] = owner] /\ Link(p, "open")
  /\ Goto(p, "waiting")
  /\ UNCHANGED <<request, owner, loop, outcome, history>>

Send(p) ==
  /\ pc[p] = "waiting" /\ link[p] = "open"
  /\ Link(p, "sent")
  /\ UNCHANGED <<pc, launch, owner, server, loop, outcome, history>>

Receive(p) ==
  /\ pc[p] = "waiting" /\ link[p] \in {"done", "refused"}
  /\ Return(p, link[p])
  /\ UNCHANGED <<launch, owner, channel, loop, history>>

(* Mutant: an instance that does not answer is taken for none.             *)
GiveUp_StartsAnyway(p) ==
  /\ pc[p] = "waiting" /\ link[p] \notin {"done", "refused"}
  /\ Goto(p, "build")
  /\ UNCHANGED <<launch, owner, channel, loop, outcome, history>>

(* Mutant: without a timeout only a broken connection ends the wait.       *)
GiveUp_Never(p) ==
  /\ pc[p] = "waiting" /\ link[p] = "broken"
  /\ Return(p, "unreachable")
  /\ UNCHANGED <<launch, owner, channel, loop, history>>

(* The connection has broken, or one of the waits has timed out.  What has *)
(* been sent stays in the pipe.                                            *)
GiveUp(p) ==
  /\ pc[p] = "waiting" /\ link[p] \notin {"done", "refused"}
  /\ Return(p, "unreachable")
  /\ UNCHANGED <<launch, owner, channel, loop, history>>

(* Too busy to connect within half a second.                               *)
ConnectFails(p) ==
  /\ pc[p] = "ask" /\ owner # NoProcess
  /\ Return(p, "unreachable")
  /\ UNCHANGED <<launch, owner, channel, loop, history>>

(* ControlServer::listen() tries twice.                                    *)
Claim(p) ==
  /\ pc[p] \in {"claim", "claimAgain"} /\ owner = NoProcess
  /\ owner' = p
  /\ Goto(p, "build")
  /\ UNCHANGED <<launch, channel, loop, outcome, history>>

(* Mutant: having lost the name it carries on without asking.              *)
LoseClaim_GoesOn(p) ==
  /\ pc[p] \in {"claim", "claimAgain"} /\ owner # NoProcess
  /\ Goto(p, IF pc[p] = "claim" THEN "claimAgain" ELSE "build")
  /\ UNCHANGED <<launch, owner, channel, loop, outcome, history>>

(* Then it asks again.                                                     *)
LoseClaim(p) ==
  /\ pc[p] \in {"claim", "claimAgain"} /\ owner # NoProcess
  /\ Goto(p, IF pc[p] = "claim" THEN "claimAgain" ELSE "ask")
  /\ UNCHANGED <<launch, owner, channel, loop, outcome, history>>

Client(p) ==
  \/ FindNobody(p) \/ Connect(p) \/ ConnectFails(p) \/ Send(p)
  \/ Receive(p) \/ GiveUp(p) \/ Claim(p) \/ LoseClaim(p)

-----------------------------------------------------------------------------
(* The instance.  dialog is whose request has opened the modal warning     *)
(* (its own at startup), in whose event loop requests go on being served;  *)
(* one such dialog at a time is modelled.                                  *)

Served(s) == pc[s] \in {"apply", "applying", "run"}
LoopRuns(s) == dialog[s] # NoProcess \/ pc[s] = "run"
Open(s, p) == dialog' = [dialog EXCEPT ![s] = p]

(* The constructor restores a run, which may warn; then served is set.     *)
BuildWarns(s) ==
  /\ pc[s] = "build" /\ dialog[s] = NoProcess
  /\ Open(s, s)
  /\ UNCHANGED <<pc, launch, owner, channel, quitting, outcome, history>>

Built(s) ==
  /\ pc[s] = "build" /\ dialog[s] = NoProcess
  /\ Goto(s, "apply")
  /\ UNCHANGED <<launch, owner, channel, loop, outcome, history>>

(* The request of the instance itself.                                     *)
ApplyOwn(s) ==
  /\ pc[s] = "apply"
  /\ Goto(s, "applying")
  /\ IF ActsOnRunningInstance(request[s])
     THEN /\ carried' = [carried EXCEPT ![s] = @ + 1]
          /\ UNCHANGED dialog \/ Open(s, s)
     ELSE UNCHANGED <<carried, dialog>>
  /\ UNCHANGED <<launch, owner, channel, quitting, outcome, flawed, vanished>>

(* QApplication::exec().                                                   *)
Exec(s) ==
  /\ pc[s] = "applying" /\ dialog[s] = NoProcess
  /\ Goto(s, "run")
  /\ UNCHANGED <<launch, owner, channel, loop, outcome, history>>

(* quit() does nothing before exec() has been entered.                     *)
QuitIsLost(s) ==
  /\ pc[s] = "applying" /\ dialog[s] # NoProcess /\ quitting[s]
  /\ quitting' = [quitting EXCEPT ![s] = FALSE]
  /\ UNCHANGED <<pc, launch, owner, channel, dialog, outcome, history>>

(* Without a window the handler says no.                                   *)
ServeEarly(s, p) ==
  /\ ~Served(s)
  /\ Link(p, "refused")
  /\ UNCHANGED <<dialog, quitting, flawed, carried>>

(* Mutant: the answer does not depend on what has become of the request.   *)
Answer_Done(p, failed) == Link(p, "done")

(* Yes, unless a part of the request has failed.                           *)
Answer(p, failed) == Link(p, IF failed THEN "refused" ELSE "done")

(* With one it carries the request out, flag by flag, and past the ones    *)
(* that fail: a device or a preset that is not there, a start.  A change   *)
(* may open the warning, which leaves the rest and the answer for later.   *)
(* --quit is queued.                                                       *)
ServeInWindow(s, p) ==
  /\ Served(s)
  /\ carried' = [carried EXCEPT ![p] = @ + 1]
  /\ \E failed \in {FALSE, "change" \in request[p]} :
       /\ flawed' = [flawed EXCEPT ![p] = failed]
       /\ \/ /\ Answer(p, failed)
             /\ quitting' = [quitting EXCEPT ![s] = @ \/ "quit" \in request[p]]
             /\ UNCHANGED dialog
          \/ /\ "change" \in request[p] /\ dialog[s] = NoProcess
             /\ Link(p, "handled") /\ Open(s, p)
             /\ UNCHANGED quitting

Serve(s, p) ==
  /\ LoopRuns(s) /\ server[p] = s /\ link[p] = "sent"
  /\ ServeEarly(s, p) \/ ServeInWindow(s, p)
  /\ UNCHANGED <<pc, launch, owner, server, outcome, vanished>>

(* The warning is closed.  A request that opened it is seen to its end,    *)
(* which finds the engine running or not, and answered, if its connection  *)
(* is still there.                                                         *)
CloseDialog(s) ==
  /\ dialog[s] # NoProcess
  /\ Open(s, NoProcess)
  /\ LET p == dialog[s] IN
     /\ \/ link[p] # "handled" /\ UNCHANGED <<link, flawed>>
        \/ /\ link[p] = "handled"
           /\ \E failed \in {flawed[p], TRUE} :
                Answer(p, failed) /\ flawed' = [flawed EXCEPT ![p] = failed]
     /\ quitting' = [quitting EXCEPT ![s] = @ \/ (p # s /\ "quit" \in request[p])]
  /\ UNCHANGED <<pc, launch, owner, server, outcome, carried, vanished>>

(* Five seconds after it has connected a peer is cut off, also one that    *)
(* has spoken and is waiting for its answer.                               *)
CutOff(s, p) ==
  /\ LoopRuns(s) /\ server[p] = s /\ link[p] \in {"open", "sent", "handled"}
  /\ Link(p, "broken")
  /\ UNCHANGED <<pc, launch, owner, server, loop, outcome, history>>

(* The tray menu.                                                          *)
TrayQuit(s) ==
  /\ pc[s] = "run" /\ ~quitting[s]
  /\ quitting' = [quitting EXCEPT ![s] = TRUE]
  /\ UNCHANGED <<pc, launch, owner, channel, dialog, outcome, history>>

LoopEnds(s) ==
  /\ pc[s] = "run" /\ quitting[s] /\ dialog[s] = NoProcess
  /\ Goto(s, "exit")
  /\ UNCHANGED <<launch, owner, channel, loop, outcome, history>>

(* The end of a process, and with it of its pipe.  vanished says that the  *)
(* listener went while another launch, which it had kept from the name,    *)
(* had yet to ask again.                                                   *)
Gone(s) ==
  /\ Goto(s, "gone")
  /\ owner' = IF owner = s THEN NoProcess ELSE owner
  /\ link' = [p \in Process |->
                IF server[p] = s /\ link[p] \in {"open", "sent", "handled"}
                THEN "broken" ELSE link[p]]
  /\ dialog' = [dialog EXCEPT ![s] = NoProcess]
  /\ quitting' = [quitting EXCEPT ![s] = FALSE]
  /\ vanished' = (vanished
       \/ (owner = s /\ \E p \in Process : pc[p] = "ask" /\ asked[p] = 1))
  /\ UNCHANGED <<launch, server, outcome, flawed, carried>>

Exit(s) == pc[s] = "exit" /\ Gone(s)

Killed(s) == pc[s] \in Starting \cup InWindow /\ Gone(s)

Instance(s) ==
  \/ BuildWarns(s) \/ Built(s) \/ ApplyOwn(s) \/ Exec(s) \/ QuitIsLost(s)
  \/ \E p \in Process : Serve(s, p) \/ CutOff(s, p)
  \/ CloseDialog(s) \/ TrayQuit(s) \/ LoopEnds(s) \/ Exit(s) \/ Killed(s)

-----------------------------------------------------------------------------
Next ==
  \E p \in Process :
    \/ \E flags \in Requests : Launch(p, flags)
    \/ Client(p)
    \/ Instance(p)

(* A launched process runs, and its waits time out.  Nothing is asked of   *)
(* the instance it talks to.                                               *)
Fairness == \A p \in Process : WF_vars(Client(p))

Spec == Init /\ [][Next]_vars /\ Fairness

-----------------------------------------------------------------------------
(* Type correctness: a launch asks at most twice, the name belongs to an   *)
(* instance, and only connections to it are being served (main.cpp         *)
(* 150-219, control_channel.cpp 129-178).                                  *)
TypeOK ==
  /\ pc \in [Process -> {"new", "gone"} \cup Starting \cup InWindow]
  /\ request \in [Process -> SUBSET Flags] /\ asked \in [Process -> 0..2]
  /\ owner \in {NoProcess} \cup Instances
  /\ link \in [Process -> {"none", "open", "sent", "handled", "done", "refused", "broken"}]
  /\ server \in [Process -> Process \cup {NoProcess}]
  /\ \A p \in Process : link[p] = "handled" => dialog[server[p]] = p
  /\ dialog \in [Process -> Process \cup {NoProcess}] /\ quitting \in [Process -> BOOLEAN]
  /\ outcome \in [Process -> {"none", "usage", "notRunning", "done", "refused", "unreachable"}]
  /\ flawed \in [Process -> BOOLEAN] /\ vanished \in BOOLEAN

(* However many launches race, there is one instance, unless one that has  *)
(* lost the name saw its owner vanish before it could ask again: that one  *)
(* carries on without the channel, and the next launch is a second         *)
(* instance, though "Claiming the name does settle it" (main.cpp 189-219). *)
AloneUnlessVanished == Cardinality(Instances) > 1 => vanished

(* A command line is carried out at most once, in one process: a launch    *)
(* that has handed its request over, or may have, never carries it out     *)
(* itself (control_channel.h 22-35), whoever dies or gives up when.        *)
CarriedOutOnce == carried \in [Process -> 0..1]

(* What the shell is told is true: done means carried out, all of it; "not *)
(* running" that nothing was done; a refusal that nothing was, or that a   *)
(* part of it failed, the rest having been carried out (control_channel.h  *)
(* 52; main.cpp 150-187, 200-210; "could not be carried out", README 176). *)
ToldTheTruth ==
  \A p \in Process :
    /\ outcome[p] = "done" => carried[p] = 1 /\ ~flawed[p]
    /\ outcome[p] \in {"usage", "notRunning"} => carried[p] = 0
    /\ outcome[p] = "refused" => carried[p] = 0 \/ flawed[p]

(* Where a launch is says what it has asked, connected to and done.        *)
PlaceTells(p) ==
  /\ pc[p] = "new" => asked[p] = 0
  /\ pc[p] = "ask" => asked[p] \in 0..1
  /\ pc[p] \in {"claim", "claimAgain"} => asked[p] = 1
  /\ pc[p] \notin {"waiting", "gone"} => link[p] = "none"
  /\ pc[p] \in {"new", "ask", "claim", "claimAgain", "build", "apply"} => carried[p] = 0
  /\ pc[p] \notin {"build", "applying", "run"} => dialog[p] = NoProcess

(* So does its connection ...                                              *)
LinkTells(p) ==
  /\ link[p] = "none" \/ server[p] \in Process
  /\ link[p] \in {"open", "sent"} => carried[p] = 0
  /\ link[p] \in {"handled", "done"} => carried[p] = 1
  /\ link[p] = "done" => ~flawed[p]
  /\ link[p] = "refused" => carried[p] = 0 \/ flawed[p]

(* ... and what its shell was told.                                        *)
OutcomeTells(p) ==
  /\ outcome[p] # "none" => pc[p] = "gone"
  /\ outcome[p] \in {"usage", "notRunning"} => link[p] = "none" /\ carried[p] = 0
  /\ outcome[p] \in {"done", "refused"} => link[p] = outcome[p]

(* Every instance is the one that listens, and whoever has lost the name   *)
(* finds it listening, unless it has vanished.                             *)
OnlyTheOwner ==
  \/ vanished
  \/ /\ Instances \subseteq {owner}
     /\ \A p \in Process : pc[p] = "ask" /\ asked[p] = 1 => owner # NoProcess

IInv ==
  /\ TypeOK /\ OnlyTheOwner /\ CarriedOutOnce
  /\ \A p \in Process : PlaceTells(p) /\ LinkTells(p) /\ OutcomeTells(p)

(* Every launch comes to an end or to a window, "short enough that a       *)
(* wedged instance does not hang the shell it was typed into"              *)
(* (control_channel.cpp 23-32).                                            *)
LaunchConcludes ==
  \A p \in Process : pc[p] = "ask" ~> pc[p] \in InWindow \cup {"gone"}
=============================================================================
