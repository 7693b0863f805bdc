------------------------ MODULE SingleInstanceProofs ------------------------
(* Proofs about SingleInstance, for any number of launches.                *)
EXTENDS SingleInstance, FiniteSetTheorems, TLAPS

LEMMA LaunchIInv ==
  ASSUME IInv, NEW s \in Process, NEW flags \in Requests, Launch(s, flags)
  PROVE  IInv'
<1> USE DEF Launch, Goto, Return, launch, channel, loop, history
<1>1. TypeOK'
  BY InstanceAssumption DEF IInv, TypeOK, Instances, InWindow, Starting, Flags, PlaceTells, LinkTells
<1>2. OnlyTheOwner'
  BY DEF IInv, TypeOK, OnlyTheOwner, Instances, InWindow, Starting, PlaceTells
<1>3. CarriedOutOnce'
  BY DEF IInv, TypeOK, CarriedOutOnce, PlaceTells, LinkTells
<1>4. ASSUME NEW q \in Process PROVE (PlaceTells(q) /\ LinkTells(q) /\ OutcomeTells(q))'
  BY DEF IInv, TypeOK, CarriedOutOnce, PlaceTells, LinkTells, OutcomeTells, Starting, InWindow
<1>5. QED
  BY <1>1, <1>2, <1>3, <1>4 DEF IInv

LEMMA FindNobodyIInv ==
  ASSUME IInv, NEW s \in Process, FindNobody(s)
  PROVE  IInv'
<1> USE DEF FindNobody, Goto, Return, launch, channel, loop, history
<1>1. TypeOK'
  BY InstanceAssumption DEF IInv, TypeOK, Instances, InWindow, Starting, Flags, PlaceTells, LinkTells
<1>2. OnlyTheOwner'
  BY DEF IInv, TypeOK, OnlyTheOwner, Instances, InWindow, Starting, PlaceTells
<1>3. CarriedOutOnce'
  BY DEF IInv, TypeOK, CarriedOutOnce, PlaceTells, LinkTells
<1>4. ASSUME NEW q \in Process PROVE (PlaceTells(q) /\ LinkTells(q) /\ OutcomeTells(q))'
  BY DEF IInv, TypeOK, CarriedOutOnce, PlaceTells, LinkTells, OutcomeTells, Starting, InWindow
<1>5. QED
  BY <1>1, <1>2, <1>3, <1>4 DEF IInv

LEMMA ConnectIInv ==
  ASSUME IInv, NEW s \in Process, Connect(s)
  PROVE  IInv'
<1> USE DEF Connect, Goto, Link, launch, channel, loop, history
<1>1. TypeOK'
  BY InstanceAssumption DEF IInv, TypeOK, Instances, InWindow, Starting, Flags, PlaceTells, LinkTells
<1>2. OnlyTheOwner'
  BY DEF IInv, TypeOK, OnlyTheOwner, Instances, InWindow, Starting, PlaceTells
<1>3. CarriedOutOnce'
  BY DEF IInv, TypeOK, CarriedOutOnce, PlaceTells, LinkTells
<1>4. ASSUME NEW q \in Process PROVE (PlaceTells(q) /\ LinkTells(q) /\ OutcomeTells(q))'
  BY DEF IInv, TypeOK, CarriedOutOnce, PlaceTells, LinkTells, OutcomeTells, Starting, InWindow,
     Instances
<1>5. QED
  BY <1>1, <1>2, <1>3, <1>4 DEF IInv

LEMMA ConnectFailsIInv ==
  ASSUME IInv, NEW s \in Process, ConnectFails(s)
  PROVE  IInv'
<1> USE DEF ConnectFails, Goto, Return, launch, channel, loop, history
<1>1. TypeOK'
  BY InstanceAssumption DEF IInv, TypeOK, Instances, InWindow, Starting, Flags, PlaceTells, LinkTells
<1>2. OnlyTheOwner'
  BY DEF IInv, TypeOK, OnlyTheOwner, Instances, InWindow, Starting, PlaceTells
<1>3. CarriedOutOnce'
  BY DEF IInv, TypeOK, CarriedOutOnce, PlaceTells, LinkTells
<1>4. ASSUME NEW q \in Process PROVE (PlaceTells(q) /\ LinkTells(q) /\ OutcomeTells(q))'
  BY DEF IInv, TypeOK, CarriedOutOnce, PlaceTells, LinkTells, OutcomeTells, Starting, InWindow
<1>5. QED
  BY <1>1, <1>2, <1>3, <1>4 DEF IInv

LEMMA SendIInv ==
  ASSUME IInv, NEW s \in Process, Send(s)
  PROVE  IInv'
<1> USE DEF Send, Link, launch, channel, loop, history
<1>1. TypeOK'
  BY InstanceAssumption DEF IInv, TypeOK, Instances, InWindow, Starting, Flags, PlaceTells, LinkTells
<1>2. OnlyTheOwner'
  BY DEF IInv, TypeOK, OnlyTheOwner, Instances, InWindow, Starting, PlaceTells
<1>3. CarriedOutOnce'
  BY DEF IInv, TypeOK, CarriedOutOnce, PlaceTells, LinkTells
<1>4. ASSUME NEW q \in Process PROVE (PlaceTells(q) /\ LinkTells(q) /\ OutcomeTells(q))'
  BY DEF IInv, TypeOK, CarriedOutOnce, PlaceTells, LinkTells, OutcomeTells, Starting, InWindow
<1>5. QED
  BY <1>1, <1>2, <1>3, <1>4 DEF IInv

LEMMA ReceiveIInv ==
  ASSUME IInv, NEW s \in Process, Receive(s)
  PROVE  IInv'
<1> USE DEF Receive, Goto, Return, launch, channel, loop, history
<1>1. TypeOK'
  BY InstanceAssumption DEF IInv, TypeOK, Instances, InWindow, Starting, Flags, PlaceTells, LinkTells
<1>2. OnlyTheOwner'
  BY DEF IInv, TypeOK, OnlyTheOwner, Instances, InWindow, Starting, PlaceTells
<1>3. CarriedOutOnce'
  BY DEF IInv, TypeOK, CarriedOutOnce, PlaceTells, LinkTells
<1>4. ASSUME NEW q \in Process PROVE (PlaceTells(q) /\ LinkTells(q) /\ OutcomeTells(q))'
  BY DEF IInv, TypeOK, CarriedOutOnce, PlaceTells, LinkTells, OutcomeTells, Starting, InWindow
<1>5. QED
  BY <1>1, <1>2, <1>3, <1>4 DEF IInv

LEMMA GiveUpIInv ==
  ASSUME IInv, NEW s \in Process, GiveUp(s)
  PROVE  IInv'
<1> USE DEF GiveUp, Goto, Return, launch, channel, loop, history
<1>1. TypeOK'
  BY InstanceAssumption DEF IInv, TypeOK, Instances, InWindow, Starting, Flags, PlaceTells, LinkTells
<1>2. OnlyTheOwner'
  BY DEF IInv, TypeOK, OnlyTheOwner, Instances, InWindow, Starting, PlaceTells
<1>3. CarriedOutOnce'
  BY DEF IInv, TypeOK, CarriedOutOnce, PlaceTells, LinkTells
<1>4. ASSUME NEW q \in Process PROVE (PlaceTells(q) /\ LinkTells(q) /\ OutcomeTells(q))'
  BY DEF IInv, TypeOK, CarriedOutOnce, PlaceTells, LinkTells, OutcomeTells, Starting, InWindow
<1>5. QED
  BY <1>1, <1>2, <1>3, <1>4 DEF IInv

LEMMA ClaimIInv ==
  ASSUME IInv, NEW s \in Process, Claim(s)
  PROVE  IInv'
<1> USE DEF Claim, Goto, launch, channel, loop, history
<1>1. TypeOK'
  BY InstanceAssumption DEF IInv, TypeOK, Instances, InWindow, Starting, Flags, PlaceTells, LinkTells
<1>2. OnlyTheOwner'
  <2> SUFFICES ASSUME ~vanished PROVE OnlyTheOwner'
    BY DEF OnlyTheOwner
  <2>1. Instances = {} /\ owner' = s /\ s # NoProcess
    BY InstanceAssumption DEF IInv, OnlyTheOwner, Instances
  <2>2. Instances' \subseteq {s}
    BY <2>1 DEF IInv, TypeOK, Instances
  <2>3. QED
    BY <2>1, <2>2 DEF OnlyTheOwner
<1>3. CarriedOutOnce'
  BY DEF IInv, TypeOK, CarriedOutOnce, PlaceTells, LinkTells
<1>4. ASSUME NEW q \in Process PROVE (PlaceTells(q) /\ LinkTells(q) /\ OutcomeTells(q))'
  BY DEF IInv, TypeOK, CarriedOutOnce, PlaceTells, LinkTells, OutcomeTells, Starting, InWindow
<1>5. QED
  BY <1>1, <1>2, <1>3, <1>4 DEF IInv

LEMMA LoseClaimIInv ==
  ASSUME IInv, NEW s \in Process, LoseClaim(s)
  PROVE  IInv'
<1> USE DEF LoseClaim, Goto, launch, channel, loop, history
<1>1. TypeOK'
  BY InstanceAssumption DEF IInv, TypeOK, Instances, InWindow, Starting, Flags, PlaceTells, LinkTells
<1>2. OnlyTheOwner'
  BY DEF IInv, TypeOK, OnlyTheOwner, Instances, InWindow, Starting, PlaceTells
<1>3. CarriedOutOnce'
  BY DEF IInv, TypeOK, CarriedOutOnce, PlaceTells, LinkTells
<1>4. ASSUME NEW q \in Process PROVE (PlaceTells(q) /\ LinkTells(q) /\ OutcomeTells(q))'
  BY DEF IInv, TypeOK, CarriedOutOnce, PlaceTells, LinkTells, OutcomeTells, Starting, InWindow
<1>5. QED
  BY <1>1, <1>2, <1>3, <1>4 DEF IInv

LEMMA BuildWarnsIInv ==
  ASSUME IInv, NEW s \in Process, BuildWarns(s)
  PROVE  IInv'
<1> USE DEF BuildWarns, Open, launch, channel, loop, history
<1>1. TypeOK'
  BY InstanceAssumption DEF IInv, TypeOK, Instances, InWindow, Starting, Flags, PlaceTells, LinkTells
<1>2. OnlyTheOwner'
  BY DEF IInv, TypeOK, OnlyTheOwner, Instances, InWindow, Starting, PlaceTells
<1>3. CarriedOutOnce'
  BY DEF IInv, TypeOK, CarriedOutOnce, PlaceTells, LinkTells
<1>4. ASSUME NEW q \in Process PROVE (PlaceTells(q) /\ LinkTells(q) /\ OutcomeTells(q))'
  BY DEF IInv, TypeOK, CarriedOutOnce, PlaceTells, LinkTells, OutcomeTells, Starting, InWindow
<1>5. QED
  BY <1>1, <1>2, <1>3, <1>4 DEF IInv

LEMMA BuiltIInv ==
  ASSUME IInv, NEW s \in Process, Built(s)
  PROVE  IInv'
<1> USE DEF Built, Goto, launch, channel, loop, history
<1>1. TypeOK'
  BY InstanceAssumption DEF IInv, TypeOK, Instances, InWindow, Starting, Flags, PlaceTells, LinkTells
<1>2. OnlyTheOwner'
  BY DEF IInv, TypeOK, OnlyTheOwner, Instances, InWindow, Starting, PlaceTells
<1>3. CarriedOutOnce'
  BY DEF IInv, TypeOK, CarriedOutOnce, PlaceTells, LinkTells
<1>4. ASSUME NEW q \in Process PROVE (PlaceTells(q) /\ LinkTells(q) /\ OutcomeTells(q))'
  BY DEF IInv, TypeOK, CarriedOutOnce, PlaceTells, LinkTells, OutcomeTells, Starting, InWindow
<1>5. QED
  BY <1>1, <1>2, <1>3, <1>4 DEF IInv

LEMMA ApplyOwnIInv ==
  ASSUME IInv, NEW s \in Process, ApplyOwn(s)
  PROVE  IInv'
<1> USE DEF ApplyOwn, Goto, Open, launch, channel, loop, history
<1>1. TypeOK'
  BY InstanceAssumption DEF IInv, TypeOK, Instances, InWindow, Starting, Flags, PlaceTells, LinkTells
<1>2. OnlyTheOwner'
  BY DEF IInv, TypeOK, OnlyTheOwner, Instances, InWindow, Starting, PlaceTells
<1>3. CarriedOutOnce'
  BY DEF IInv, TypeOK, CarriedOutOnce, PlaceTells, LinkTells
<1>4. ASSUME NEW q \in Process PROVE (PlaceTells(q) /\ LinkTells(q) /\ OutcomeTells(q))'
  BY DEF IInv, TypeOK, CarriedOutOnce, PlaceTells, LinkTells, OutcomeTells, Starting, InWindow
<1>5. QED
  BY <1>1, <1>2, <1>3, <1>4 DEF IInv

LEMMA ExecIInv ==
  ASSUME IInv, NEW s \in Process, Exec(s)
  PROVE  IInv'
<1> USE DEF Exec, Goto, launch, channel, loop, history
<1>1. TypeOK'
  BY InstanceAssumption DEF IInv, TypeOK, Instances, InWindow, Starting, Flags, PlaceTells, LinkTells
<1>2. OnlyTheOwner'
  BY DEF IInv, TypeOK, OnlyTheOwner, Instances, InWindow, Starting, PlaceTells
<1>3. CarriedOutOnce'
  BY DEF IInv, TypeOK, CarriedOutOnce, PlaceTells, LinkTells
<1>4. ASSUME NEW q \in Process PROVE (PlaceTells(q) /\ LinkTells(q) /\ OutcomeTells(q))'
  BY DEF IInv, TypeOK, CarriedOutOnce, PlaceTells, LinkTells, OutcomeTells, Starting, InWindow
<1>5. QED
  BY <1>1, <1>2, <1>3, <1>4 DEF IInv

LEMMA QuitIsLostIInv ==
  ASSUME IInv, NEW s \in Process, QuitIsLost(s)
  PROVE  IInv'
<1> USE DEF QuitIsLost, launch, channel, loop, history
<1>1. TypeOK'
  BY InstanceAssumption DEF IInv, TypeOK, Instances, InWindow, Starting, Flags, PlaceTells, LinkTells
<1>2. OnlyTheOwner'
  BY DEF IInv, TypeOK, OnlyTheOwner, Instances, InWindow, Starting, PlaceTells
<1>3. CarriedOutOnce'
  BY DEF IInv, TypeOK, CarriedOutOnce, PlaceTells, LinkTells
<1>4. ASSUME NEW q \in Process PROVE (PlaceTells(q) /\ LinkTells(q) /\ OutcomeTells(q))'
  BY DEF IInv, TypeOK, CarriedOutOnce, PlaceTells, LinkTells, OutcomeTells, Starting, InWindow
<1>5. QED
  BY <1>1, <1>2, <1>3, <1>4 DEF IInv

LEMMA ServeIInv ==
  ASSUME IInv, NEW s \in Process, NEW p \in Process, Serve(s, p)
  PROVE  IInv'
<1> USE DEF Serve, ServeEarly, ServeInWindow, Answer, Served, LoopRuns, Link, Open, launch, channel, loop, history
<1>1. TypeOK'
  <2>1. quitting' \in [Process -> BOOLEAN]
    <3>1. quitting' = quitting \/ \E b \in BOOLEAN : quitting' = [quitting EXCEPT ![s] = b]
      <4>1. CASE ServeEarly(s, p)
        BY <4>1
      <4>2. CASE ServeInWindow(s, p)
        <5>1. (quitting[s] \/ "quit" \in request[p]) \in BOOLEAN
          OBVIOUS
        <5>2. QED
          BY <4>2, <5>1
      <4>3. QED
        BY <4>1, <4>2
    <3>2. QED
      BY <3>1 DEF IInv, TypeOK
  <2>2. /\ link' \in [Process -> {"none", "open", "sent", "handled", "done", "refused", "broken"}]
        /\ dialog' \in [Process -> Process \cup {NoProcess}]
    BY DEF IInv, TypeOK
  <2>3. ASSUME NEW q \in Process, link'[q] = "handled"
        PROVE  dialog'[server'[q]] = q
    BY <2>3, InstanceAssumption DEF IInv, TypeOK, LinkTells
  <2>4. flawed' \in [Process -> BOOLEAN]
    <3>1. flawed' = flawed \/ \E b \in BOOLEAN : flawed' = [flawed EXCEPT ![p] = b]
      <4>1. CASE ServeEarly(s, p)
        BY <4>1
      <4>2. CASE ServeInWindow(s, p)
        <5>1. {FALSE, "change" \in request[p]} \subseteq BOOLEAN
          OBVIOUS
        <5> QED
          BY <4>2, <5>1
      <4> QED
        BY <4>1, <4>2
    <3> QED
      BY <3>1 DEF IInv, TypeOK
  <2>5. QED
    BY <2>1, <2>2, <2>3, <2>4 DEF IInv, TypeOK, Instances
<1>2. OnlyTheOwner'
  BY DEF IInv, TypeOK, OnlyTheOwner, Instances, InWindow, Starting, PlaceTells
<1>3. CarriedOutOnce'
  BY DEF IInv, TypeOK, CarriedOutOnce, PlaceTells, LinkTells
<1>4. ASSUME NEW q \in Process PROVE (PlaceTells(q) /\ LinkTells(q) /\ OutcomeTells(q))'
  BY DEF IInv, TypeOK, CarriedOutOnce, PlaceTells, LinkTells, OutcomeTells, Starting, InWindow
<1>5. QED
  BY <1>1, <1>2, <1>3, <1>4 DEF IInv

LEMMA CloseDialogIInv ==
  ASSUME IInv, NEW s \in Process, CloseDialog(s)
  PROVE  IInv'
<1> USE DEF Open, launch, channel, loop, history
<1> DEFINE p == dialog[s]
<1>0. p \in Process
  BY DEF CloseDialog, IInv, TypeOK
<1>1. \/ UNCHANGED <<link, flawed>> /\ link[p] # "handled"
      \/ \E failed \in BOOLEAN :
           /\ link[p] = "handled" /\ (flawed[p] => failed)
           /\ flawed' = [flawed EXCEPT ![p] = failed]
           /\ link' = [link EXCEPT ![p] = IF failed THEN "refused" ELSE "done"]
  <2>1. CASE link[p] # "handled"
    BY <2>1 DEF CloseDialog
  <2>2. CASE link[p] = "handled"
    <3>1. PICK failed \in {flawed[p], TRUE} :
            Answer(p, failed) /\ flawed' = [flawed EXCEPT ![p] = failed]
      BY <2>2 DEF CloseDialog
    <3>2. flawed[p] \in BOOLEAN
      BY <1>0 DEF IInv, TypeOK
    <3>3. failed \in BOOLEAN /\ (flawed[p] => failed)
      BY <3>1, <3>2
    <3> QED
      BY <2>2, <3>1, <3>3 DEF Answer, Link
  <2> QED
    BY <2>1, <2>2
<1>2. UNCHANGED <<pc, request, asked, owner, server, outcome, carried, vanished>>
  BY DEF CloseDialog
<1>3. dialog' = [dialog EXCEPT ![s] = NoProcess]
  BY DEF CloseDialog
<1>4. TypeOK'
  <2>1. quitting' \in [Process -> BOOLEAN]
    <3>1. PICK b \in BOOLEAN : quitting' = [quitting EXCEPT ![s] = b]
      <4>1. (quitting[s] \/ (p # s /\ "quit" \in request[p])) \in BOOLEAN
        OBVIOUS
      <4> QED
        BY <4>1 DEF CloseDialog
    <3> QED
      BY <3>1 DEF IInv, TypeOK
  <2>2. flawed' \in [Process -> BOOLEAN]
    BY <1>1 DEF IInv, TypeOK
  <2>3. /\ link' \in [Process ->
                       {"none", "open", "sent", "handled", "done", "refused", "broken"}]
        /\ dialog' \in [Process -> Process \cup {NoProcess}]
    BY <1>1, <1>3 DEF IInv, TypeOK
  <2>4. ASSUME NEW q \in Process, link'[q] = "handled" PROVE dialog'[server'[q]] = q
    BY <1>0, <1>1, <1>2, <1>3, <2>4 DEF IInv, TypeOK
  <2> QED
    BY <1>2, <2>1, <2>2, <2>3, <2>4 DEF IInv, TypeOK, Instances
<1>5. OnlyTheOwner' /\ CarriedOutOnce'
  BY <1>2 DEF IInv, OnlyTheOwner, CarriedOutOnce, Instances
<1>6. ASSUME NEW q \in Process PROVE (PlaceTells(q) /\ LinkTells(q) /\ OutcomeTells(q))'
  <2>1. PlaceTells(q)'
    BY <1>1, <1>2, <1>3 DEF IInv, TypeOK, PlaceTells
  <2>2. LinkTells(q)'
    BY <1>0, <1>1, <1>2 DEF IInv, TypeOK, LinkTells
  <2>3. OutcomeTells(q)'
    BY <1>0, <1>1, <1>2 DEF IInv, TypeOK, OutcomeTells
  <2> QED
    BY <2>1, <2>2, <2>3
<1>7. QED
  BY <1>4, <1>5, <1>6 DEF IInv

LEMMA CutOffIInv ==
  ASSUME IInv, NEW s \in Process, NEW p \in Process, CutOff(s, p)
  PROVE  IInv'
<1> USE DEF CutOff, LoopRuns, Link, launch, channel, loop, history
<1>1. TypeOK'
  BY InstanceAssumption DEF IInv, TypeOK, Instances, InWindow, Starting, Flags, PlaceTells, LinkTells
<1>2. OnlyTheOwner'
  BY DEF IInv, TypeOK, OnlyTheOwner, Instances, InWindow, Starting, PlaceTells
<1>3. CarriedOutOnce'
  BY DEF IInv, TypeOK, CarriedOutOnce, PlaceTells, LinkTells
<1>4. ASSUME NEW q \in Process PROVE (PlaceTells(q) /\ LinkTells(q) /\ OutcomeTells(q))'
  BY DEF IInv, TypeOK, CarriedOutOnce, PlaceTells, LinkTells, OutcomeTells, Starting, InWindow
<1>5. QED
  BY <1>1, <1>2, <1>3, <1>4 DEF IInv

LEMMA TrayQuitIInv ==
  ASSUME IInv, NEW s \in Process, TrayQuit(s)
  PROVE  IInv'
<1> USE DEF TrayQuit, launch, channel, loop, history
<1>1. TypeOK'
  BY InstanceAssumption DEF IInv, TypeOK, Instances, InWindow, Starting, Flags, PlaceTells, LinkTells
<1>2. OnlyTheOwner'
  BY DEF IInv, TypeOK, OnlyTheOwner, Instances, InWindow, Starting, PlaceTells
<1>3. CarriedOutOnce'
  BY DEF IInv, TypeOK, CarriedOutOnce, PlaceTells, LinkTells
<1>4. ASSUME NEW q \in Process PROVE (PlaceTells(q) /\ LinkTells(q) /\ OutcomeTells(q))'
  BY DEF IInv, TypeOK, CarriedOutOnce, PlaceTells, LinkTells, OutcomeTells, Starting, InWindow
<1>5. QED
  BY <1>1, <1>2, <1>3, <1>4 DEF IInv

LEMMA LoopEndsIInv ==
  ASSUME IInv, NEW s \in Process, LoopEnds(s)
  PROVE  IInv'
<1> USE DEF LoopEnds, Goto, launch, channel, loop, history
<1>1. TypeOK'
  BY InstanceAssumption DEF IInv, TypeOK, Instances, InWindow, Starting, Flags, PlaceTells, LinkTells
<1>2. OnlyTheOwner'
  BY DEF IInv, TypeOK, OnlyTheOwner, Instances, InWindow, Starting, PlaceTells
<1>3. CarriedOutOnce'
  BY DEF IInv, TypeOK, CarriedOutOnce, PlaceTells, LinkTells
<1>4. ASSUME NEW q \in Process PROVE (PlaceTells(q) /\ LinkTells(q) /\ OutcomeTells(q))'
  BY DEF IInv, TypeOK, CarriedOutOnce, PlaceTells, LinkTells, OutcomeTells, Starting, InWindow
<1>5. QED
  BY <1>1, <1>2, <1>3, <1>4 DEF IInv

LEMMA GoneIInv ==
  ASSUME IInv, NEW s \in Process, Gone(s)
  PROVE  IInv'
<1> USE DEF Gone, Goto, launch, channel, loop, history
<1>1. TypeOK'
  BY InstanceAssumption DEF IInv, TypeOK, Instances, InWindow, Starting, Flags, PlaceTells, LinkTells
<1>2. OnlyTheOwner'
  <2> SUFFICES ASSUME ~vanished' PROVE OnlyTheOwner'
    BY DEF OnlyTheOwner
  <2>1. ~vanished /\ Instances \subseteq {owner}
    BY DEF IInv, TypeOK, OnlyTheOwner
  <2>2. Instances' = Instances \ {s}
    BY DEF IInv, TypeOK, Instances, InWindow
  <2>3. CASE owner = s
    BY <2>1, <2>2, <2>3 DEF IInv, TypeOK, OnlyTheOwner
  <2>4. CASE owner # s
    BY <2>1, <2>2, <2>4 DEF IInv, TypeOK, OnlyTheOwner
  <2>5. QED
    BY <2>3, <2>4
<1>3. CarriedOutOnce'
  BY DEF IInv, TypeOK, CarriedOutOnce, PlaceTells, LinkTells
<1>4. ASSUME NEW q \in Process PROVE (PlaceTells(q) /\ LinkTells(q) /\ OutcomeTells(q))'
  BY DEF IInv, TypeOK, CarriedOutOnce, PlaceTells, LinkTells, OutcomeTells, Starting, InWindow
<1>5. QED
  BY <1>1, <1>2, <1>3, <1>4 DEF IInv

-----------------------------------------------------------------------------
LEMMA InitIInv == Init => IInv
<1> SUFFICES ASSUME Init PROVE IInv
  OBVIOUS
<1>1. Instances = {}
  BY DEF Init, Instances, InWindow
<1>2. TypeOK
  <2>1. quitting \in [Process -> BOOLEAN] /\ vanished \in BOOLEAN
    BY DEF Init
  <2>2. pc \in [Process -> {"new", "gone"} \cup Starting \cup InWindow]
    BY DEF Init
  <2>3. request \in [Process -> SUBSET Flags] /\ asked \in [Process -> 0..2]
    BY DEF Init
  <2>4. QED
    BY <2>1, <2>2, <2>3 DEF Init, TypeOK
<1>3. OnlyTheOwner /\ CarriedOutOnce
  BY <1>1 DEF Init, OnlyTheOwner, CarriedOutOnce
<1>4. ASSUME NEW p \in Process PROVE PlaceTells(p) /\ LinkTells(p) /\ OutcomeTells(p)
  BY DEF Init, PlaceTells, LinkTells, OutcomeTells
<1>5. QED
  BY <1>2, <1>3, <1>4 DEF IInv

LEMMA NextIInv == IInv /\ [Next]_vars => IInv'
<1> SUFFICES ASSUME IInv, [Next]_vars PROVE IInv'
  OBVIOUS
<1>1. CASE UNCHANGED vars
  BY <1>1 DEF vars, launch, channel, loop, history, IInv, TypeOK, OnlyTheOwner, CarriedOutOnce,
     PlaceTells, LinkTells, OutcomeTells, Instances
<1>2. ASSUME NEW s \in Process, NEW flags \in Requests, Launch(s, flags) PROVE IInv'
  BY <1>2, LaunchIInv
<1>3. ASSUME NEW s \in Process, Client(s) PROVE IInv'
  BY <1>3, FindNobodyIInv, ConnectIInv, ConnectFailsIInv, SendIInv, ReceiveIInv, GiveUpIInv,
     ClaimIInv, LoseClaimIInv DEF Client
<1>4. ASSUME NEW s \in Process, Instance(s) PROVE IInv'
  BY <1>4, BuildWarnsIInv, BuiltIInv, ApplyOwnIInv, ExecIInv, QuitIsLostIInv, ServeIInv,
     CloseDialogIInv, CutOffIInv, TrayQuitIInv, LoopEndsIInv, GoneIInv
     DEF Instance, Exit, Killed
<1>5. QED
  BY <1>1, <1>2, <1>3, <1>4 DEF Next

(* The inductive invariant of the launches.                                *)
THEOREM InstanceInvariant == Spec => []IInv
<1>1. QED
  BY InitIInv, NextIInv, PTL DEF Spec

(* A launch asks at most twice, the name belongs to an instance, and only  *)
(* connections to it are being served (main.cpp 150-219).                  *)
THEOREM TypeCorrect == Spec => []TypeOK
<1>1. IInv => TypeOK
  BY DEF IInv
<1>2. QED
  BY <1>1, InstanceInvariant, PTL

(* However many launches race, there is one instance, unless one that has  *)
(* lost the name saw its owner vanish before asking (main.cpp 189-219).    *)
THEOREM AloneOrVanished == Spec => []AloneUnlessVanished
<1>1. IInv => AloneUnlessVanished
  <2> SUFFICES ASSUME IInv, ~vanished PROVE ~(Cardinality(Instances) > 1)
    BY DEF AloneUnlessVanished
  <2>1. Instances \subseteq {owner}
    BY DEF IInv, OnlyTheOwner
  <2>2. Cardinality({owner}) = 1 /\ IsFiniteSet({owner})
    BY FS_Singleton
  <2>3. Cardinality(Instances) \in Nat /\ Cardinality(Instances) =< 1
    BY <2>1, <2>2, FS_Subset, FS_CardinalityType
  <2>4. QED
    BY <2>3
<1>2. QED
  BY <1>1, InstanceInvariant, PTL

(* No command line is carried out twice, whoever dies or gives up when     *)
(* (control_channel.h 22-35).                                              *)
THEOREM AtMostOnce == Spec => []CarriedOutOnce
<1>1. IInv => CarriedOutOnce
  BY DEF IInv
<1>2. QED
  BY <1>1, InstanceInvariant, PTL

(* What the shell is told is what happened: done is all of the request,    *)
(* and a refusal none of it, or all but what failed (main.cpp 150-187,     *)
(* main_window.cpp 1415-1544).                                             *)
THEOREM ShellsAreToldTheTruth == Spec => []ToldTheTruth
<1>1. IInv => ToldTheTruth
  BY DEF IInv, ToldTheTruth, LinkTells, OutcomeTells
<1>2. QED
  BY <1>1, InstanceInvariant, PTL

-----------------------------------------------------------------------------
(* How long a launch can last: what LaunchConcludes owes to the code, next *)
(* to the process running and its waits timing out.                        *)

(* Steps of its own that a launch has still to take, at most.              *)
StepsLeft(p) ==
  CASE pc[p] = "ask" /\ asked[p] = 0 -> 6
    [] pc[p] = "claim" -> 5
    [] pc[p] = "claimAgain" -> 4
    [] pc[p] = "ask" /\ asked[p] # 0 -> 3
    [] pc[p] = "waiting" /\ link[p] = "open" -> 2
    [] pc[p] = "waiting" /\ link[p] # "open" -> 1
    [] OTHER -> 0

LEMMA StepsLeftType == ASSUME NEW p \in Process PROVE StepsLeft(p) \in Nat
BY DEF StepsLeft

LEMMA OwnStepShortens ==
  ASSUME IInv, NEW p \in Process, Client(p)
  PROVE  StepsLeft(p)' < StepsLeft(p)
<1>1. /\ pc \in [Process -> {"new", "gone"} \cup Starting \cup InWindow]
      /\ asked \in [Process -> 0..2]
      /\ link \in [Process ->
                     {"none", "open", "sent", "handled", "done", "refused", "broken"}]
      /\ pc[p] = "ask" => asked[p] \in 0..1
      /\ pc[p] \in {"claim", "claimAgain"} => asked[p] = 1
  BY DEF IInv, TypeOK, PlaceTells
<1> USE DEF Goto, Link, Return, launch, channel, history
<1>2. CASE FindNobody(p)
  BY <1>1, <1>2 DEF FindNobody, StepsLeft
<1>3. CASE Connect(p)
  BY <1>1, <1>3 DEF Connect, StepsLeft
<1>4. CASE ConnectFails(p)
  BY <1>1, <1>4 DEF ConnectFails, StepsLeft
<1>5. CASE Send(p)
  BY <1>1, <1>5 DEF Send, StepsLeft
<1>6. CASE Receive(p)
  BY <1>1, <1>6 DEF Receive, StepsLeft
<1>7. CASE GiveUp(p)
  BY <1>1, <1>7 DEF GiveUp, StepsLeft
<1>8. CASE Claim(p)
  BY <1>1, <1>8 DEF Claim, StepsLeft
<1>9. CASE LoseClaim(p)
  BY <1>1, <1>9 DEF LoseClaim, StepsLeft
<1> QED
  BY <1>2, <1>3, <1>4, <1>5, <1>6, <1>7, <1>8, <1>9 DEF Client

(* What another process does leaves a launch where it is, or breaks or     *)
(* answers its connection.                                                 *)
LEMMA OthersDoNotLengthen ==
  ASSUME IInv, NEW p \in Process, pc[p] \in Starting,
         NEW q \in Process, q # p, Client(q) \/ Instance(q) \/ \E f \in Requests : Launch(q, f)
  PROVE  StepsLeft(p)' =< StepsLeft(p)
<1>1. /\ pc \in [Process -> {"new", "gone"} \cup Starting \cup InWindow]
      /\ asked \in [Process -> 0..2]
      /\ link \in [Process ->
                     {"none", "open", "sent", "handled", "done", "refused", "broken"}]
  BY DEF IInv, TypeOK
<1> USE DEF Goto, Link, Return, launch, channel, history
<1>2. pc'[p] = pc[p] /\ asked'[p] = asked[p] /\ (link'[p] = "open" => link[p] = "open")
  <2>1. CASE Client(q)
    BY <1>1, <2>1 DEF Client, FindNobody, Connect, ConnectFails, Send, Receive, GiveUp,
                      Claim, LoseClaim
  <2>2. CASE \E f \in Requests : Launch(q, f)
    BY <1>1, <2>2 DEF Launch
  <2>3. CASE \E r \in Process : Serve(q, r) \/ CutOff(q, r)
    BY <1>1, <2>3 DEF Serve, ServeEarly, ServeInWindow, Answer, CutOff
  <2>4. CASE CloseDialog(q)
    BY <1>1, <2>4 DEF CloseDialog, Answer
  <2>5. CASE Exit(q) \/ Killed(q)
    BY <1>1, <2>5 DEF Exit, Killed, Gone
  <2>6. CASE BuildWarns(q) \/ Built(q) \/ ApplyOwn(q) \/ Exec(q) \/ QuitIsLost(q)
    BY <1>1, <2>6 DEF BuildWarns, Built, ApplyOwn, Exec, QuitIsLost
  <2>7. CASE TrayQuit(q) \/ LoopEnds(q)
    BY <1>1, <2>7 DEF TrayQuit, LoopEnds
  <2> QED
    BY <2>1, <2>2, <2>3, <2>4, <2>5, <2>6, <2>7 DEF Instance
<1> QED
  BY <1>1, <1>2 DEF StepsLeft, Starting

(* A launch is over, or has its window, after six steps of its own: no     *)
(* answer, no loss of the name and no other launch sends it back.          *)
THEOREM LaunchesAreShort ==
  Spec => [][\A p \in Process : pc[p] \in Starting =>
               /\ StepsLeft(p) \in 1..6 /\ StepsLeft(p)' =< StepsLeft(p)
               /\ Client(p) => StepsLeft(p)' < StepsLeft(p)]_vars
<1>1. ASSUME IInv, Next, NEW p \in Process, pc[p] \in Starting
      PROVE  /\ StepsLeft(p) \in 1..6 /\ StepsLeft(p)' =< StepsLeft(p)
             /\ Client(p) => StepsLeft(p)' < StepsLeft(p)
  <2>1. StepsLeft(p) \in 1..6
    BY <1>1 DEF StepsLeft, Starting
  <2>2. StepsLeft(p)' \in Nat
    BY DEF StepsLeft
  <2>3. CASE Client(p)
    BY <1>1, <2>1, <2>2, <2>3, OwnStepShortens
  <2>4. CASE Killed(p)
    <3>1. pc'[p] = "gone"
      BY <1>1, <2>4 DEF Killed, Gone, Goto, IInv, TypeOK
    <3>2. StepsLeft(p)' = 0
      BY <3>1 DEF StepsLeft
    <3> QED
      BY <2>1, <2>4, <3>2
  <2>5. CASE Instance(p) /\ ~ Killed(p)
    <3>1. pc[p] \notin InWindow /\ dialog[p] = NoProcess
      BY <1>1 DEF IInv, PlaceTells, Starting, InWindow
    <3>2. ~ LoopRuns(p) /\ ~ CloseDialog(p)
      BY <3>1 DEF LoopRuns, CloseDialog, InWindow
    <3>3. \A r \in Process : ~ Serve(p, r) /\ ~ CutOff(p, r)
      BY <3>2 DEF Serve, CutOff
    <3> QED
      BY <2>5, <3>1, <3>2, <3>3
         DEF Instance, InWindow, BuildWarns, Built, ApplyOwn, Exec, QuitIsLost, TrayQuit,
             LoopEnds, Exit
  <2>6. CASE \E q \in Process \ {p} :
               Client(q) \/ Instance(q) \/ \E f \in Requests : Launch(q, f)
    <3>1. StepsLeft(p)' =< StepsLeft(p)
      BY <1>1, <2>6, OthersDoNotLengthen
    <3> QED
      BY <2>1, <2>3, <3>1
  <2>7. ~ \E f \in Requests : Launch(p, f)
    BY <1>1 DEF Launch, Starting
  <2> QED
    BY <1>1, <2>3, <2>4, <2>5, <2>6, <2>7 DEF Next
<1>2. ASSUME IInv, [Next]_vars
      PROVE  [\A p \in Process : pc[p] \in Starting =>
                 /\ StepsLeft(p) \in 1..6 /\ StepsLeft(p)' =< StepsLeft(p)
                 /\ Client(p) => StepsLeft(p)' < StepsLeft(p)]_vars
  BY <1>1, <1>2
<1> QED
  BY <1>2, InstanceInvariant, PTL DEF Spec

=============================================================================
