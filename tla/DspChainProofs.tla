--------------------------- MODULE DspChainProofs ---------------------------
(***************************************************************************)
(* Proofs about the chain and the limiter at its end.  DspChain, for every *)
(* range of gains and any number of publications: the sequence lock keeps  *)
(* torn parameter sets from the audio thread.  Limiter, for every window,  *)
(* every set of peaks and every ceiling for which the gains are whole: the *)
(* queue yields the smallest gain asked for in the window, and the gain is *)
(* there before the peak is.                                               *)
(***************************************************************************)
EXTENDS DspChain, Limiter, FiniteSetTheorems, TLAPS

LEMMA GainRange == 0 \in Gain /\ Gain \subseteq Int
BY ChainAssumption DEF Gain

LEMMA DefaultIsResolved == Default \in Resolved /\ Default \in Parameters
BY GainRange DEF Default, Resolved, Parameters

(* Two sets that agree in every field are the same set.                    *)
LEMMA SetsAgree ==
  ASSUME NEW p \in Parameters, NEW q \in Parameters,
         \A f \in Field : p[f] = q[f]
  PROVE  p = q
<1>1. p.passthrough = q.passthrough /\ p.gain = q.gain
  BY DEF Field
<1>2. QED
  BY <1>1 DEF Parameters

LEMMA ResolvedAreParameters == Resolved \subseteq Parameters
BY DEF Resolved

LEMMA InitIInv == Init => IInv
<1> SUFFICES ASSUME Init PROVE IInv
  OBVIOUS
<1>1. TypeOK
  BY DefaultIsResolved DEF Init, TypeOK
<1>2. WriterOrder
  BY DefaultIsResolved DEF Init, WriterOrder
<1>3. CopyIsCurrent
  BY DEF Init, CopyIsCurrent
<1>4. BuiltIsNear
  BY ChainAssumption DEF Init, Default, BuiltIsNear, NearlyEqual
<1>5. QED
  BY <1>1, <1>2, <1>3, <1>4 DEF IInv

(* Nothing but the ramp touches what is heard.                             *)
LEMMA NearStays ==
  ASSUME BuiltIsNear, UNCHANGED <<current, built>>
  PROVE  BuiltIsNear'
BY DEF BuiltIsNear

-----------------------------------------------------------------------------
LEMMA BeginPublishIInv ==
  ASSUME IInv, NEW p \in Resolved, BeginPublish(p)
  PROVE  IInv'
<1> USE DEF BeginPublish, lock, fetch, sets
<1>1. TypeOK'
  BY DEF IInv, TypeOK
<1>2. WriterOrder'
  BY DEF IInv, TypeOK, WriterOrder
<1>3. CopyIsCurrent'
  BY DEF IInv, TypeOK, CopyIsCurrent
<1>4. QED
  BY <1>1, <1>2, <1>3, NearStays DEF IInv

(* The number is odd while fields are written, so no copy that is still    *)
(* current is disturbed.                                                   *)
LEMMA PublishFieldIInv ==
  ASSUME IInv, NEW f \in Field, PublishField(f)
  PROVE  IInv'
<1>1. /\ shared' \in Parameters
      /\ shared'[f] = next[f]
      /\ \A g \in Field \ {f} : shared'[g] = shared[g]
  <2>1. shared \in Parameters /\ next \in Parameters
    BY ResolvedAreParameters DEF IInv, TypeOK
  <2>2. shared' = [shared EXCEPT ![f] = next[f]]
    BY DEF PublishField
  <2>3. CASE f = "passthrough"
    BY <2>1, <2>2, <2>3 DEF Parameters, Field
  <2>4. CASE f = "gain"
    BY <2>1, <2>2, <2>4 DEF Parameters, Field
  <2>5. QED
    BY <2>3, <2>4 DEF Field
<1>2. TypeOK'
  BY <1>1 DEF IInv, TypeOK, PublishField, fetch, sets
<1>3. WriterOrder'
  BY <1>1 DEF IInv, WriterOrder, PublishField
<1>4. CopyIsCurrent'
  BY DEF IInv, WriterOrder, CopyIsCurrent, PublishField, fetch
<1>5. QED
  BY <1>2, <1>3, <1>4, NearStays DEF IInv, PublishField, sets

LEMMA EndPublishIInv ==
  ASSUME IInv, EndPublish
  PROVE  IInv'
<1> USE DEF EndPublish, fetch, sets
<1>1. shared = next
  BY SetsAgree, ResolvedAreParameters DEF IInv, TypeOK, WriterOrder
<1>2. TypeOK'
  BY DEF IInv, TypeOK
<1>3. WriterOrder'
  BY <1>1 DEF IInv, TypeOK, WriterOrder
<1>4. CopyIsCurrent'
  BY DEF IInv, TypeOK, CopyIsCurrent
<1>5. QED
  BY <1>2, <1>3, <1>4, NearStays DEF IInv

LEMMA StartStopIInv ==
  ASSUME IInv, MarkDirty \/ Prepare \/ Stop
  PROVE  IInv'
<1> USE DEF IInv, TypeOK, WriterOrder, CopyIsCurrent, BuiltIsNear, lock, writer, fetch, sets
<1>1. CASE MarkDirty
  BY <1>1 DEF MarkDirty
<1>2. CASE Prepare
  <2>1. shared \in Resolved /\ shared.gain \in Int
    BY <1>2, GainRange DEF Prepare, Resolved, Parameters
  <2>2. current' = shared /\ built' = shared
    BY <1>2 DEF Prepare
  <2>4. BuiltIsNear'
    BY <2>1, <2>2, ChainAssumption DEF BuiltIsNear, NearlyEqual
  <2>3. QED
    BY <1>2, <2>1, <2>2, <2>4, ResolvedAreParameters DEF Prepare
<1>3. CASE Stop
  BY <1>3 DEF Stop
<1>4. QED
  BY <1>1, <1>2, <1>3

LEMMA FetchFieldIInv ==
  ASSUME IInv, NEW f \in Field, FetchField(f)
  PROVE  IInv'
<1>1. /\ copy' \in Parameters
      /\ copy'[f] = shared[f]
      /\ \A g \in Field \ {f} : copy'[g] = copy[g]
  <2>1. shared \in Parameters /\ copy \in Parameters
    BY DEF IInv, TypeOK
  <2>2. copy' = [copy EXCEPT ![f] = shared[f]]
    BY DEF FetchField
  <2>3. CASE f = "passthrough"
    BY <2>1, <2>2, <2>3 DEF Parameters, Field
  <2>4. CASE f = "gain"
    BY <2>1, <2>2, <2>4 DEF Parameters, Field
  <2>5. QED
    BY <2>3, <2>4 DEF Field
<1>2. TypeOK'
  BY <1>1 DEF IInv, TypeOK, FetchField, lock, writer, sets
<1>3. WriterOrder'
  BY DEF IInv, WriterOrder, FetchField, lock, writer
<1>4. CopyIsCurrent'
  BY <1>1 DEF IInv, CopyIsCurrent, FetchField, lock
<1>5. QED
  BY <1>2, <1>3, <1>4, NearStays DEF IInv, FetchField, sets

(* A copy whose number has not moved is a complete published set.          *)
LEMMA VerifiedCopy ==
  ASSUME IInv, rpc = "copy", missing = {}, seq = before
  PROVE  copy = shared /\ wpc # "copy" /\ shared \in Resolved
<1>1. wpc # "copy"
  BY DEF IInv, WriterOrder, CopyIsCurrent
<1>2. copy = shared
  BY SetsAgree DEF IInv, TypeOK, CopyIsCurrent
<1>3. QED
  BY <1>1, <1>2 DEF IInv, WriterOrder

LEMMA EndFetchIInv ==
  ASSUME IInv, EndFetch
  PROVE  IInv'
<1>1. target' \in Resolved
  BY VerifiedCopy DEF EndFetch, IInv, TypeOK
<1>2. QED
  BY <1>1, NearStays DEF EndFetch, IInv, TypeOK, WriterOrder, CopyIsCurrent, lock,
     writer, fetch

(* Whether it rebuilds or not, the gain in force stays near the ramp.      *)
LEMMA RampKeepsNear ==
  ASSUME IInv, NEW g \in Gain, Apply(g)
  PROVE  BuiltIsNear'
<1>1. current' \in Parameters
  BY ResolvedAreParameters DEF Apply, Parameters, IInv, TypeOK
<1>2. CASE NeedRebuild(current')
  <2>1. built' = current' /\ current'.gain \in Int
    BY <1>1, <1>2, GainRange DEF Apply, Rebuild, Parameters
  <2>2. current'.gain - current'.gain = 0
    BY <2>1
  <2>3. QED
    BY <2>1, <2>2, ChainAssumption DEF BuiltIsNear, NearlyEqual
<1>3. CASE ~ NeedRebuild(current')
  <2>1. built' = built
    BY <1>3 DEF Apply, Rebuild
  <2>2. /\ current'.passthrough = built.passthrough
        /\ current'.gain - built.gain < Tolerance
        /\ built.gain - current'.gain < Tolerance
    BY <1>3 DEF NeedRebuild, NearlyEqual
  <2>3. QED
    BY <2>1, <2>2 DEF BuiltIsNear, NearlyEqual
<1>4. QED
  BY <1>2, <1>3

LEMMA ReaderIInv ==
  ASSUME IInv, SeeDirty \/ BeginFetch \/ ClearDirty \/ (\E g \in Gain : Apply(g))
  PROVE  IInv'
<1> USE DEF IInv, TypeOK, WriterOrder, CopyIsCurrent, BuiltIsNear, lock, writer, fetch, sets
<1>1. CASE SeeDirty
  BY <1>1 DEF SeeDirty
<1>2. CASE BeginFetch
  <2>1. before' = seq /\ (rpc' = "copy" => before' % 2 = 0 /\ missing' = Field)
    BY <1>2 DEF BeginFetch
  <2>2. QED
    BY <1>2, <2>1 DEF BeginFetch
<1>3. CASE ClearDirty
  BY <1>3 DEF ClearDirty
<1>4. CASE \E g \in Gain : Apply(g)
  <2>1. PICK g \in Gain : Apply(g)
    BY <1>4
  <2>2. current' \in Parameters
    BY <2>1, ResolvedAreParameters DEF Apply, Parameters
  <2>3. built' \in Parameters
    BY <2>1, <2>2 DEF Apply, Rebuild
  <2>4. BuiltIsNear'
    BY <2>1, RampKeepsNear
  <2>5. QED
    BY <2>1, <2>2, <2>3, <2>4 DEF Apply
<1>5. QED
  BY <1>1, <1>2, <1>3, <1>4

-----------------------------------------------------------------------------
LEMMA NextIInv == IInv /\ [Next]_vars => IInv'
<1> SUFFICES ASSUME IInv, [Next]_vars PROVE IInv'
  OBVIOUS
<1>1. CASE Publish
  BY <1>1, BeginPublishIInv, PublishFieldIInv, EndPublishIInv, StartStopIInv DEF Publish
<1>2. CASE Prepare \/ Stop
  BY <1>2, StartStopIInv
<1>3. CASE Process
  BY <1>3, ReaderIInv, FetchFieldIInv, EndFetchIInv DEF Process
<1>4. CASE UNCHANGED vars
  BY <1>4, NearStays
     DEF vars, IInv, TypeOK, WriterOrder, CopyIsCurrent, lock, writer, fetch, sets
<1>5. QED
  BY <1>1, <1>2, <1>3, <1>4 DEF Next

(* The inductive invariant of the parameter exchange.                      *)
THEOREM ChainInvariant == Spec => []IInv
<1>1. Init => IInv
  BY InitIInv
<1>2. IInv /\ [Next]_vars => IInv'
  BY NextIInv
<1>3. QED
  BY <1>1, <1>2, PTL DEF Spec

(* Everything stays in its type, and the set the audio thread steers       *)
(* towards is always one that resolveParameters() can produce.             *)
THEOREM TypeCorrect == Spec => []TypeOK
<1>1. IInv => TypeOK
  BY DEF IInv
<1>2. QED
  BY <1>1, ChainInvariant, PTL

(* The audio thread only ever adopts the complete set that is published at *)
(* that moment (dsp_chain.cpp:106-121).                                    *)
THEOREM NoTornSet == Spec => TakesWholeSet
<1>1. IInv /\ [Next]_vars => [target' # target => target' = shared /\ wpc # "copy"]_vars
  <2> SUFFICES ASSUME IInv, Next, target' # target
               PROVE  target' = shared /\ wpc # "copy"
    OBVIOUS
  <2>1. Prepare \/ EndFetch
    BY DEF Next, Publish, BeginPublish, PublishField, EndPublish, MarkDirty, Stop,
       Process, SeeDirty, BeginFetch, FetchField, ClearDirty, Apply, sets
  <2>2. CASE Prepare
    BY <2>2 DEF Prepare
  <2>3. CASE EndFetch
    BY <2>3, VerifiedCopy DEF EndFetch
  <2>4. QED
    BY <2>1, <2>2, <2>3
<1>2. QED
  BY <1>1, ChainInvariant, PTL DEF Spec, TakesWholeSet

(* On the path without a limiter the level is never raised: there the      *)
(* audio thread steers towards a set that has no boost                     *)
(* (dsp_chain.cpp:311-318).                                                *)
THEOREM PassthroughIsQuiet == Spec => PassthroughNeverRaises
<1> DEFINE Quiet == rpc = "apply" /\ built'.passthrough =>
                      built'.gain =< 0 \/ built'.gain < built.gain + Tolerance
<1>1. IInv /\ [Next]_vars => [Quiet]_vars
  <2> SUFFICES ASSUME IInv, Next, rpc = "apply", built'.passthrough
               PROVE  built'.gain =< 0 \/ built'.gain < built.gain + Tolerance
    OBVIOUS
  <2>1. /\ current \in Parameters /\ built \in Parameters /\ target \in Parameters
        /\ target.passthrough => target.gain =< 0
    BY DEF IInv, TypeOK, Resolved
  <2>2. current.gain \in Int /\ built.gain \in Int /\ target.gain \in Int /\ Tolerance > 0
    BY <2>1, ChainAssumption DEF Parameters, Gain
  <2>3. CASE built' = built
    BY <2>2, <2>3, ChainAssumption
  <2>4. CASE built' # built
    <3>1. PICK g \in Gain : Apply(g)
      BY <2>4 DEF Next, Publish, BeginPublish, PublishField, EndPublish, MarkDirty,
         Prepare, Stop, Process, SeeDirty, BeginFetch, FetchField, EndFetch, ClearDirty,
         sets
    <3>2. /\ built' = [passthrough |-> target.passthrough, gain |-> g]
          /\ g \in Approach(current.gain, target.gain) /\ g \in Int
      BY <2>4, <3>1, ChainAssumption DEF Apply, Rebuild, Gain
    <3>3. target.gain =< 0 /\ built'.gain = g
      BY <2>1, <3>2
    <3>4. g =< target.gain \/ g =< current.gain
      BY <2>2, <3>2 DEF Approach
    <3>5. current.gain < built.gain + Tolerance
      BY <2>2, ChainAssumption DEF IInv, BuiltIsNear, NearlyEqual
    <3>6. CASE g =< target.gain
      BY <2>2, <3>2, <3>3, <3>6
    <3>7. CASE g =< current.gain
      BY <2>2, <3>2, <3>3, <3>5, <3>7, ChainAssumption
    <3>8. QED
      BY <3>4, <3>6, <3>7
  <2>5. QED
    BY <2>3, <2>4
<1>2. QED
  BY <1>1, ChainInvariant, PTL DEF Spec, PassthroughNeverRaises

-----------------------------------------------------------------------------
(* What PublishedIsHeard owes to the code, next to the audio thread being  *)
(* scheduled: a published set that is not lost in the clearing of the flag *)
(* is on its way, and every step of the audio thread brings it nearer.     *)

(* The audio thread has adopted what is published, or will look at it.     *)
Due == target = shared \/ (dirty /\ rpc # "clear")

Gap(a, b) == IF a =< b THEN b - a ELSE a - b

(* How far the ramped set is from its target: the gain, and the switch.    *)
Unheard(set, goal) ==
  Gap(set.gain, goal.gain) + (IF set.passthrough = goal.passthrough THEN 0 ELSE 1)

Count(fields) ==
  (IF "passthrough" \in fields THEN 1 ELSE 0) + (IF "gain" \in fields THEN 1 ELSE 0)

(* Steps left in this round of the audio thread.                           *)
RoundLeft(pc, fields) ==
  CASE pc = "block" -> 8 [] pc = "fetch" -> 7 [] pc = "copy" -> 4 + Count(fields)
    [] pc = "clear" -> 3 [] OTHER -> 2

(* Steps left until the set is adopted; a copy begun before it was         *)
(* published is in vain.                                                   *)
AdoptionLeft(pc, fields, vain) ==
  CASE pc = "copy" /\ vain -> 10 + Count(fields)
    [] pc = "copy" /\ ~vain -> 4 + Count(fields)
    [] pc = "fetch" -> 7 [] pc = "block" -> 8 [] OTHER -> 9

HearingLeft ==
  IF target = shared THEN 7 * Unheard(current, target) + RoundLeft(rpc, missing)
  ELSE 14 * MaxGain + 16 + AdoptionLeft(rpc, missing, before # seq)

LEMMA GapShrinks ==
  ASSUME NEW v \in Gain, NEW goal \in Gain, NEW g \in Approach(v, goal)
  PROVE  /\ g \in Gain /\ Gap(g, goal) \in Nat
         /\ Gap(v, goal) \in 0 .. 2 * MaxGain
         /\ v # goal => Gap(g, goal) < Gap(v, goal)
         /\ v = goal => Gap(g, goal) = 0 /\ Gap(v, goal) = 0
BY ChainAssumption DEF Gain, Approach, Gap

LEMMA CountType == \A fields : Count(fields) \in 0 .. 2
BY DEF Count

LEMMA CountFalls ==
  ASSUME NEW fields, NEW f \in fields, f \in Field
  PROVE  Count(fields \ {f}) < Count(fields)
<1>1. CASE f = "gain"
  BY <1>1 DEF Count
<1>2. CASE f = "passthrough"
  BY <1>2 DEF Count
<1> QED
  BY <1>1, <1>2 DEF Field

LEMMA UnheardType ==
  ASSUME NEW a \in Parameters, NEW b \in Parameters
  PROVE  /\ Unheard(a, b) \in 0 .. 2 * MaxGain + 1
         /\ Unheard(a, b) = 0 => a.passthrough = b.passthrough /\ a.gain = b.gain
<1>1. PICK v \in Gain, w \in Gain : a.gain = v /\ b.gain = w
  BY DEF Parameters
<1>2. Gap(v, w) \in 0 .. 2 * MaxGain /\ (Gap(v, w) = 0 => v = w)
  BY ChainAssumption DEF Gain, Gap
<1> QED
  BY <1>1, <1>2, ChainAssumption DEF Unheard

LEMMA HearingLeftType ==
  ASSUME IInv
  PROVE  HearingLeft \in Nat
<1>1. Unheard(current, target) \in Nat
  BY UnheardType, ResolvedAreParameters, ChainAssumption DEF IInv, TypeOK
<1>2. RoundLeft(rpc, missing) \in Nat /\ AdoptionLeft(rpc, missing, before # seq) \in Nat
  BY CountType DEF RoundLeft, AdoptionLeft
<1> QED
  BY <1>1, <1>2, ChainAssumption DEF HearingLeft

(* A set that has been adopted and reached by the ramp is heard.           *)
LEMMA ReachedIsHeard ==
  ASSUME IInv, target = shared, Unheard(current, target) = 0
  PROVE  HeardAs(shared)
BY UnheardType, ResolvedAreParameters DEF IInv, TypeOK, BuiltIsNear, HeardAs

LEMMA ApplyBringsNearer ==
  ASSUME IInv, NEW g \in Gain, Apply(g), Unheard(current, target) # 0
  PROVE  Unheard(current', target) < Unheard(current, target)
<1>1. /\ current \in Parameters /\ target \in Parameters
      /\ current'.gain = g /\ current'.passthrough = target.passthrough
      /\ g \in Approach(current.gain, target.gain)
  BY ResolvedAreParameters DEF IInv, TypeOK, Apply
<1>2. PICK v \in Gain, w \in Gain : current.gain = v /\ target.gain = w
  BY <1>1 DEF Parameters
<1>3. /\ Gap(g, w) \in Nat /\ Gap(v, w) \in Nat
      /\ v # w => Gap(g, w) < Gap(v, w)
      /\ v = w => Gap(g, w) = 0 /\ Gap(v, w) = 0
  BY <1>1, <1>2, GapShrinks
<1>4. Unheard(current', target) = Gap(g, w) + 0
  BY <1>1, <1>2 DEF Unheard
<1>5. Unheard(current, target) =
        Gap(v, w) + (IF current.passthrough = target.passthrough THEN 0 ELSE 1)
  BY <1>2 DEF Unheard
<1>6. CASE v = w
  BY <1>3, <1>4, <1>5, <1>6
<1>7. CASE v # w
  BY <1>3, <1>4, <1>5, <1>7
<1> QED
  BY <1>6, <1>7

(* The steps of the audio thread while nothing is being published.         *)
LEMMA ProcessBringsNearer ==
  ASSUME IInv, IInv', wpc = "idle", rpc # "stopped", Due, ~HeardAs(shared), Process
  PROVE  Due' /\ HearingLeft' < HearingLeft
<1>1. /\ UNCHANGED <<seq, shared, wpc>>
      /\ rpc \in {"block", "fetch", "copy", "clear", "apply"}
  BY DEF Process, SeeDirty, BeginFetch, FetchField, EndFetch, ClearDirty, Apply, lock, writer,
     IInv, TypeOK
<1>2. /\ target = shared => Unheard(current, target) # 0
      /\ Unheard(current, target) \in 0 .. 2 * MaxGain + 1
      /\ Unheard(current', target') \in 0 .. 2 * MaxGain + 1
      /\ MaxGain \in Nat
  BY ReachedIsHeard, UnheardType, ResolvedAreParameters, ChainAssumption DEF IInv, TypeOK
<1>3. Count(missing) \in 0 .. 2 /\ Count(missing') \in 0 .. 2
  BY CountType
<1>4. /\ target = shared => HearingLeft = 7 * Unheard(current, target) + RoundLeft(rpc, missing)
      /\ target # shared =>
           HearingLeft = 14 * MaxGain + 16 + AdoptionLeft(rpc, missing, before # seq)
      /\ target' = shared' =>
           HearingLeft' = 7 * Unheard(current', target') + RoundLeft(rpc', missing')
      /\ target' # shared' =>
           HearingLeft' = 14 * MaxGain + 16 + AdoptionLeft(rpc', missing', before' # seq')
  BY DEF HearingLeft
<1>5. CASE SeeDirty
  <2>1. UNCHANGED <<current, target, dirty, missing, before>> /\ rpc = "block"
    BY <1>5 DEF SeeDirty, fetch, sets
  <2>2. CASE target = shared
    <3>1. rpc' \in {"fetch", "apply"}
      BY <1>5 DEF SeeDirty
    <3>2. RoundLeft(rpc, missing) = 8 /\ RoundLeft(rpc', missing') \in {7, 2}
      BY <2>1, <3>1 DEF RoundLeft
    <3> QED
      BY <1>1, <1>2, <1>4, <2>1, <2>2, <3>2 DEF Due
  <2>3. CASE target # shared
    <3>1. dirty /\ rpc' = "fetch"
      BY <1>5, <2>3 DEF SeeDirty, Due
    <3>2. /\ AdoptionLeft(rpc, missing, before # seq) = 8
          /\ AdoptionLeft(rpc', missing', before' # seq') = 7
      BY <2>1, <3>1 DEF AdoptionLeft
    <3> QED
      BY <1>1, <1>2, <1>4, <2>1, <2>3, <3>1, <3>2 DEF Due
  <2> QED
    BY <2>2, <2>3
<1>6. CASE BeginFetch
  <2>1. /\ UNCHANGED <<current, target, dirty>>
        /\ rpc = "fetch" /\ rpc' = "copy" /\ before' = seq
    BY <1>6 DEF BeginFetch, sets, IInv, WriterOrder
  <2>2. /\ RoundLeft(rpc, missing) = 7 /\ RoundLeft(rpc', missing') \in 4 .. 6
        /\ AdoptionLeft(rpc, missing, before # seq) = 7
        /\ AdoptionLeft(rpc', missing', before' # seq') \in 4 .. 6
    BY <1>1, <1>3, <2>1 DEF RoundLeft, AdoptionLeft
  <2> QED
    BY <1>1, <1>2, <1>4, <2>1, <2>2 DEF Due
<1>7. CASE \E f \in Field : FetchField(f)
  <2>1. PICK f \in Field : FetchField(f)
    BY <1>7
  <2>2. /\ UNCHANGED <<current, target, dirty, before>>
        /\ rpc = "copy" /\ rpc' = "copy" /\ f \in missing /\ missing' = missing \ {f}
    BY <2>1 DEF FetchField, sets
  <2>3. Count(missing') < Count(missing)
    BY <2>2, CountFalls
  <2>4. /\ RoundLeft(rpc, missing) = 4 + Count(missing)
        /\ RoundLeft(rpc', missing') = 4 + Count(missing')
    BY <2>2 DEF RoundLeft
  <2>5. \/ /\ AdoptionLeft(rpc, missing, before # seq) = 10 + Count(missing)
           /\ AdoptionLeft(rpc', missing', before' # seq') = 10 + Count(missing')
        \/ /\ AdoptionLeft(rpc, missing, before # seq) = 4 + Count(missing)
           /\ AdoptionLeft(rpc', missing', before' # seq') = 4 + Count(missing')
    BY <1>1, <2>2 DEF AdoptionLeft
  <2> QED
    BY <1>1, <1>2, <1>3, <1>4, <2>2, <2>3, <2>4, <2>5 DEF Due
<1>8. CASE EndFetch
  <2>1. UNCHANGED <<current, dirty, missing, before>> /\ rpc = "copy"
    BY <1>8 DEF EndFetch, fetch
  <2>2. CASE seq = before
    <3>1. target' = shared /\ rpc' = "clear"
      <4>1. copy = shared
        BY <1>8, <2>2, SetsAgree DEF EndFetch, IInv, TypeOK, CopyIsCurrent
      <4> QED
        BY <1>8, <2>2, <4>1 DEF EndFetch
    <3>2. /\ RoundLeft(rpc', missing') = 3
          /\ RoundLeft(rpc, missing) \in 4 .. 6
          /\ AdoptionLeft(rpc, missing, before # seq) \in 4 .. 6
      BY <1>3, <2>1, <2>2, <3>1 DEF RoundLeft, AdoptionLeft
    <3>3. target = shared => Unheard(current', target') = Unheard(current, target)
      BY <1>1, <2>1, <3>1
    <3> QED
      BY <1>1, <1>2, <1>4, <3>1, <3>2, <3>3 DEF Due
  <2>3. CASE seq # before
    <3>1. target' = target /\ rpc' = "apply"
      BY <1>8, <2>3 DEF EndFetch
    <3>2. /\ RoundLeft(rpc', missing') = 2 /\ RoundLeft(rpc, missing) \in 4 .. 6
          /\ AdoptionLeft(rpc, missing, before # seq) \in 10 .. 12
          /\ AdoptionLeft(rpc', missing', before' # seq') = 9
      BY <1>3, <2>1, <2>3, <3>1 DEF RoundLeft, AdoptionLeft
    <3> QED
      BY <1>1, <1>2, <1>4, <2>1, <3>1, <3>2 DEF Due
  <2> QED
    BY <2>2, <2>3
<1>9. CASE ClearDirty
  <2>1. /\ UNCHANGED <<current, target, missing, before>>
        /\ rpc = "clear" /\ rpc' = "apply" /\ target = shared
    BY <1>9 DEF ClearDirty, fetch, sets, Due
  <2>2. RoundLeft(rpc, missing) = 3 /\ RoundLeft(rpc', missing') = 2
    BY <2>1 DEF RoundLeft
  <2> QED
    BY <1>1, <1>2, <1>4, <2>1, <2>2 DEF Due
<1>10. CASE \E g \in Gain : Apply(g)
  <2>1. PICK g \in Gain : Apply(g)
    BY <1>10
  <2>2. UNCHANGED <<target, dirty, missing, before>> /\ rpc = "apply" /\ rpc' = "block"
    BY <2>1 DEF Apply, fetch
  <2>3. /\ RoundLeft(rpc, missing) = 2 /\ RoundLeft(rpc', missing') = 8
        /\ AdoptionLeft(rpc, missing, before # seq) = 9
        /\ AdoptionLeft(rpc', missing', before' # seq') = 8
    BY <2>2 DEF RoundLeft, AdoptionLeft
  <2>4. target = shared => Unheard(current', target') < Unheard(current, target)
    BY <1>2, <2>1, <2>2, ApplyBringsNearer
  <2> QED
    BY <1>1, <1>2, <1>4, <2>2, <2>3, <2>4 DEF Due
<1> QED
  BY <1>5, <1>6, <1>7, <1>8, <1>9, <1>10 DEF Process

SetsArrive ==
  /\ wpc = "mark" /\ wpc' = "idle" => Due' \/ rpc = "clear"
  /\ wpc = "idle" /\ rpc # "stopped" /\ Due /\ ~HeardAs(shared) =>
       \/ wpc' # "idle" \/ rpc' = "stopped"
       \/ Due' /\ HearingLeft \in Nat /\ HearingLeft' < HearingLeft

(* What has been published is heard in the end, unless it was published    *)
(* in the short time in which the audio thread clears the flag for the set *)
(* before: from any other moment on each step of the audio thread brings   *)
(* it nearer, until something else is published or the audio stops         *)
(* (dsp_chain.cpp:83-131, 295-304).                                        *)
THEOREM PublishedSetsArrive == Spec => [][SetsArrive]_vars
<1>1. ASSUME IInv, Next PROVE SetsArrive
  <2>1. IInv'
    BY <1>1, NextIInv
  <2>2. HearingLeft \in Nat
    BY <1>1, HearingLeftType
  <2>3. CASE Process
    <3>1. UNCHANGED wpc
      BY <2>3 DEF Process, SeeDirty, BeginFetch, FetchField, EndFetch, ClearDirty, Apply, writer
    <3> QED
      BY <1>1, <2>1, <2>2, <2>3, <3>1, ProcessBringsNearer DEF SetsArrive
  <2>4. CASE Publish
    BY <2>4 DEF Publish, BeginPublish, PublishField, EndPublish, MarkDirty, Due,
       SetsArrive
  <2>5. CASE Prepare \/ Stop
    BY <2>5 DEF Prepare, Stop, SetsArrive
  <2> QED
    BY <1>1, <2>3, <2>4, <2>5 DEF Next
<1>2. ASSUME IInv, [Next]_vars PROVE [SetsArrive]_vars
  BY <1>1, <1>2
<1> QED
  BY <1>2, ChainInvariant, PTL DEF Spec

-----------------------------------------------------------------------------
(* The least-number principle, from the well-foundedness of inclusion on   *)
(* finite sets.                                                            *)
LEMMA Least ==
  ASSUME NEW S \in SUBSET Nat, S # {}
  PROVE  \E n \in S : \A m \in S : n <= m
<1> DEFINE R == StrictSubsetOrdering(Nat)
           T == {1 .. n : n \in S}
<1>1. IsWellFoundedOn(R, FiniteSubsetsOf(Nat))
  BY FS_StrictSubsetOrderingWellFounded, Zenon
<1>2. T \subseteq FiniteSubsetsOf(Nat) /\ T # {}
  <2>1. ASSUME NEW n \in S PROVE IsFiniteSet(1 .. n) /\ 1 .. n \in SUBSET Nat
    BY FS_Interval
  <2> QED
    BY <2>1 DEF FiniteSubsetsOf
<1>3. PICK X \in T : \A Y \in T : ~ (<<Y, X>> \in R)
  <2> HIDE DEF R, T
  <2> QED
    BY <1>1, <1>2, WFMin
<1>4. PICK n \in S : X = 1 .. n
  BY <1>3
<1>5. ASSUME NEW m \in S, m < n PROVE FALSE
  <2>1. 1 .. m \in SUBSET Nat /\ 1 .. n \in SUBSET Nat
    OBVIOUS
  <2>2. 1 .. m \subseteq 1 .. n /\ 1 .. m # 1 .. n
    <3>1. n \in 1 .. n /\ n \notin 1 .. m
      BY <1>5
    <3> QED
      BY <1>5, <3>1
  <2>3. <<1 .. m, 1 .. n>> \in R
    BY <2>1, <2>2 DEF StrictSubsetOrdering
  <2> QED
    BY <1>3, <1>4, <2>3
<1> QED
  BY <1>5

LEMMA Wrap ==
  ASSUME NEW s \in Nat \ {0}, NEW a \in Int, -s <= a, a < 2 * s
  PROVE  a % s = IF a < 0 THEN a + s ELSE IF a < s THEN a ELSE a - s
OBVIOUS

LEMMA Quotient ==
  ASSUME NEW p \in Nat \ {0}, NEW x \in Nat, NEW u \in Nat, x <= u * p
  PROVE  x \div p \in 0 .. u /\ p * (x \div p) <= x
<1> DEFINE q == x \div p
<1>1. q \in Nat /\ x = p * q + (x % p) /\ x % p \in Nat
  BY SMTT(30)
<1> HIDE DEF q
<1>2. q <= u
  <2> SUFFICES ASSUME q >= u + 1 PROVE FALSE
    BY <1>1
  <2>1. p * q >= p * (u + 1)
    BY <1>1
  <2> QED
    BY <1>1, <2>1
<1>3. p * q <= x
  BY <1>1
<1> QED
  BY <1>1, <1>2, <1>3 DEF q

LEMMA LimiterConstants ==
  /\ MaxLookahead \in Nat \ {0} /\ Unity \in Nat \ {0} /\ MaxSamples \in Nat
  /\ Peaks \subseteq Nat /\ Ceilings \subseteq Nat \ {0}
  /\ QueueSize \in Nat \ {0} /\ QueueSize = MaxLookahead + 2
BY LimiterAssumption DEF LimiterAssumption, Ceilings, QueueSize

-----------------------------------------------------------------------------
(* The gains that frames ask for.                                          *)

Frame == [peak : Peaks \union {0}, judgedBy : Ceilings \union {0}]

(* With the gain it asked for, no frame is above its ceiling.              *)
LEMMA AskedForFits ==
  ASSUME NEW frame \in Frame
  PROVE  /\ AskedFor(frame) \in 0 .. Unity
         /\ frame.peak * AskedFor(frame) <= Unity * frame.judgedBy
<1>1. frame.peak \in Nat /\ frame.judgedBy \in Nat /\ Unity \in Nat
  <2>1. frame.peak \in Peaks \union {0} /\ frame.judgedBy \in Ceilings \union {0}
    BY DEF Frame
  <2>2. Peaks \union {0} \subseteq Nat /\ Ceilings \union {0} \subseteq Nat
    BY LimiterConstants
  <2> QED
    BY <2>1, <2>2, LimiterConstants
<1>2. CASE frame.peak > frame.judgedBy
  <2>1. Unity * frame.judgedBy \in Nat /\ Unity * frame.judgedBy <= Unity * frame.peak
    BY <1>1, <1>2
  <2> QED
    BY <1>1, <1>2, <2>1, Quotient DEF AskedFor
<1>3. CASE ~(frame.peak > frame.judgedBy)
  <2>1. AskedFor(frame) = Unity
    BY <1>3 DEF AskedFor
  <2>2. frame.peak * Unity <= Unity * frame.judgedBy
    BY <1>1, <1>3
  <2> QED
    BY <1>1, <2>1, <2>2
<1> QED
  BY <1>2, <1>3

LEMMA SilenceAsksForNothing == Silence \in Frame /\ AskedFor(Silence) = Unity
BY DEF Silence, Frame, AskedFor

(* A frame that comes in asks for the gain that it is recorded with.       *)
LEMMA RequiredIsAskedFor ==
  ASSUME NEW peak \in Peaks, ceiling \in Ceilings
  PROVE  /\ [peak |-> peak, judgedBy |-> ceiling] \in Frame
         /\ RequiredGain(peak) = AskedFor([peak |-> peak, judgedBy |-> ceiling])
BY DEF Frame, RequiredGain, AskedFor

(* The gain comes down all the way before the frame has passed.            *)
LEMMA AttackIsInTime ==
  ASSUME <<ceiling, lookahead>> \in Settings
  PROVE  AttackStep \in Nat /\ (lookahead + 1) * AttackStep >= Unity
<1>1. Unity \in Nat \ {0} /\ lookahead \in Nat \ {0}
  BY LimiterAssumption DEF LimiterAssumption
<1>2. CASE lookahead <= 2
  <2>1. (lookahead + 1) * Unity >= Unity
    BY <1>1
  <2> QED
    BY <1>1, <1>2, <2>1 DEF AttackStep
<1>3. CASE ~(lookahead <= 2)
  <2> DEFINE q == (2 * Unity) \div lookahead
  <2>1. (2 * Unity) % lookahead = 0
    BY <1>1, <1>3, LimiterAssumption DEF LimiterAssumption
  <2>2. q \in Nat /\ 2 * Unity = lookahead * q + ((2 * Unity) % lookahead)
    BY <1>1, SMTT(30)
  <2>3. AttackStep = q
    BY <1>1, <1>3 DEF AttackStep
  <2> HIDE DEF q
  <2>4. (lookahead + 1) * q = lookahead * q + q
    BY <1>1, <2>2
  <2>5. (lookahead + 1) * q >= Unity
    BY <1>1, <2>1, <2>2, <2>4
  <2> QED
    BY <2>2, <2>3, <2>5
<1> QED
  BY <1>2, <1>3

-----------------------------------------------------------------------------
(* Places of the queue.                                                    *)

At(head, i) == (head + i) % QueueSize

LEMMA AtTells ==
  ASSUME NEW h \in 0 .. QueueSize - 1, NEW i \in 0 .. QueueSize
  PROVE  /\ At(h, i) \in 0 .. QueueSize - 1
         /\ \/ h + i < QueueSize /\ At(h, i) = h + i
            \/ h + i >= QueueSize /\ At(h, i) = h + i - QueueSize
<1>1. QueueSize \in Nat \ {0}
  BY LimiterConstants
<1>2. PICK b \in Int : b = h + i
  BY <1>1
<1>3. 0 <= b /\ b < 2 * QueueSize /\ -QueueSize <= b
  BY <1>1, <1>2
<1>4. b % QueueSize =
        IF b < 0 THEN b + QueueSize ELSE IF b < QueueSize THEN b ELSE b - QueueSize
  BY <1>1, <1>3, Wrap
<1>5. At(h, i) = b % QueueSize
  BY <1>2 DEF At
<1> QED
  BY <1>1, <1>2, <1>3, <1>4, <1>5

LEMMA AtIsInjective ==
  ASSUME NEW h \in 0 .. QueueSize - 1, NEW i \in 0 .. QueueSize - 1,
         NEW j \in 0 .. QueueSize - 1, At(h, i) = At(h, j)
  PROVE  i = j
<1>1. QueueSize \in Nat \ {0}
  BY LimiterConstants
<1>2. i \in 0 .. QueueSize /\ j \in 0 .. QueueSize
  BY <1>1
<1>3. \/ h + i < QueueSize /\ At(h, i) = h + i
      \/ h + i >= QueueSize /\ At(h, i) = h + i - QueueSize
  BY <1>1, <1>2, AtTells
<1>4. \/ h + j < QueueSize /\ At(h, j) = h + j
      \/ h + j >= QueueSize /\ At(h, j) = h + j - QueueSize
  BY <1>1, <1>2, AtTells
<1> QED
  BY <1>1, <1>3, <1>4

LEMMA AtSum ==
  ASSUME NEW h \in 0 .. QueueSize - 1, NEW i \in 0 .. QueueSize - 1,
         NEW j \in 0 .. QueueSize, i + j <= QueueSize
  PROVE  At(At(h, i), j) = At(h, i + j)
<1>1. QueueSize \in Nat \ {0}
  BY LimiterConstants
<1> DEFINE a == At(h, i)
<1>2. /\ a \in 0 .. QueueSize - 1
      /\ (h + i < QueueSize /\ a = h + i) \/ (h + i >= QueueSize /\ a = h + i - QueueSize)
  BY <1>1, AtTells
<1>3. /\ At(h, i + j) \in Int
      /\ \/ h + (i + j) < QueueSize /\ At(h, i + j) = h + (i + j)
         \/ h + (i + j) >= QueueSize /\ At(h, i + j) = h + (i + j) - QueueSize
  <2>1. i + j \in 0 .. QueueSize
    BY <1>1
  <2> QED
    BY <1>1, <2>1, AtTells
<1>4. /\ At(a, j) \in 0 .. QueueSize - 1
      /\ \/ a + j < QueueSize /\ At(a, j) = a + j
         \/ a + j >= QueueSize /\ At(a, j) = a + j - QueueSize
  <2> HIDE DEF a
  <2> QED
    BY <1>1, <1>2, AtTells
<1> HIDE DEF a
<1>5. At(a, j) = At(h, i + j)
  BY <1>1, <1>2, <1>3, <1>4
<1> QED
  BY <1>5 DEF a

(* How far two places are apart.                                           *)
LEMMA AtSpan ==
  ASSUME NEW h \in 0 .. QueueSize - 1, NEW i \in 0 .. QueueSize,
         NEW j \in 0 .. i, i - j < QueueSize
  PROVE  (At(h, i) - At(h, j)) % QueueSize = i - j
<1>1. QueueSize \in Nat \ {0}
  BY LimiterConstants
<1> DEFINE d == At(h, i) - At(h, j)
<1>2. /\ At(h, i) = h + i \/ (h + i >= QueueSize /\ At(h, i) = h + i - QueueSize)
      /\ At(h, j) = h + j \/ (h + j >= QueueSize /\ At(h, j) = h + j - QueueSize)
      /\ At(h, i) \in 0 .. QueueSize - 1 /\ At(h, j) \in 0 .. QueueSize - 1
  <2>1. j \in 0 .. QueueSize
    BY <1>1
  <2> QED
    BY <1>1, <2>1, AtTells
<1>3. /\ d \in Int /\ -QueueSize <= d /\ d < 2 * QueueSize
      /\ d = i - j \/ d = i - j - QueueSize
  BY <1>1, <1>2
<1> HIDE DEF d
<1>4. d % QueueSize =
        IF d < 0 THEN d + QueueSize ELSE IF d < QueueSize THEN d ELSE d - QueueSize
  BY <1>1, <1>3, Wrap
<1>5. d % QueueSize = i - j
  BY <1>1, <1>3, <1>4
<1> QED
  BY <1>5 DEF d

LEMMA LengthFits ==
  ASSUME LimiterTypeOK
  PROVE  /\ Length \in 0 .. QueueSize - 1
         /\ At(queueHead, Length) = queueTail
<1>1. /\ QueueSize \in Nat \ {0} /\ queueHead \in 0 .. QueueSize - 1
      /\ queueTail \in 0 .. QueueSize - 1
  BY LimiterConstants DEF LimiterTypeOK
<1> DEFINE d == queueTail - queueHead
<1>2. Length = IF d < 0 THEN d + QueueSize ELSE d
  <2>1. d \in Int /\ -QueueSize <= d /\ d < QueueSize /\ d < 2 * QueueSize
    BY <1>1
  <2>2. Length = d % QueueSize
    BY DEF Length
  <2> HIDE DEF d
  <2>3. d % QueueSize =
          IF d < 0 THEN d + QueueSize ELSE IF d < QueueSize THEN d ELSE d - QueueSize
    BY <1>1, <2>1, Wrap
  <2> QED
    BY <2>1, <2>2, <2>3
<1>3. Length \in 0 .. QueueSize - 1
  BY <1>1, <1>2
<1>4. /\ At(queueHead, Length) \in 0 .. QueueSize - 1
      /\ \/ queueHead + Length < QueueSize /\ At(queueHead, Length) = queueHead + Length
         \/ /\ queueHead + Length >= QueueSize
            /\ At(queueHead, Length) = queueHead + Length - QueueSize
  BY <1>1, <1>3, AtTells
<1> QED
  BY <1>1, <1>2, <1>3, <1>4

-----------------------------------------------------------------------------
(* The queue.                                                              *)

(* How many frames ago what is in a slot of the delay line came in.        *)
Age(i) == IF i < delayWrite THEN delayWrite - i ELSE delayWrite - i + lookahead

Line == 0 .. lookahead - 1

(* The entry at a place of the queue.                                      *)
Entry(k) == slots[At(queueHead, k)]

(* Entries are in the order of their arrival and of their gains, and none  *)
(* is older than the window was when it was last looked at.                *)
QueueIsOrdered ==
  \A k \in 0 .. Length - 1 :
    /\ Entry(k).index < sampleIndex
    /\ Entry(k).index + lookahead + 1 >= sampleIndex
    /\ \A m \in k + 1 .. Length - 1 :
         /\ Entry(m).index - Entry(k).index >= m - k
         /\ Entry(k).gain < Entry(m).gain

(* An entry has the gain that its frame has asked for.                     *)
EntriesAreAskedFor ==
  \A k \in 0 .. Length - 1, i \in Line :
    Entry(k).index + Age(i) = sampleIndex => Entry(k).gain = AskedFor(delayLine[i])

(* For every frame in the delay line there is an entry that came no        *)
(* earlier and asks for no more.                                           *)
FramesAreCovered ==
  \A i \in Line :
    IF Age(i) > sampleIndex
    THEN delayLine[i] = Silence
    ELSE \E k \in 0 .. Length - 1 :
           /\ Entry(k).index + Age(i) >= sampleIndex
           /\ Entry(k).gain =< AskedFor(delayLine[i])

(* Since a frame came in the gain has been on its way to what it asked for.*)
GainIsOnItsWay ==
  \A i \in Line :
    Age(i) =< sampleIndex =>
      \/ currentGain =< AskedFor(delayLine[i])
      \/ currentGain + Age(i) * AttackStep =< Unity

LimiterInv ==
  /\ LimiterTypeOK /\ <<ceiling, lookahead>> \in Settings
  /\ QueueIsOrdered /\ EntriesAreAskedFor /\ FramesAreCovered /\ GainIsOnItsWay

LEMMA LimiterTypes ==
  ASSUME LimiterTypeOK
  PROVE  /\ lookahead \in Nat \ {0} /\ lookahead <= MaxLookahead
         /\ sampleIndex \in Nat /\ delayWrite \in Nat /\ delayWrite < lookahead
         /\ currentGain \in 0 .. Unity /\ ceiling \in Nat \ {0} /\ ceiling \in Ceilings
         /\ queueHead \in 0 .. QueueSize - 1 /\ queueTail \in 0 .. QueueSize - 1
         /\ \A i \in Line : delayLine[i] \in Frame
<1>1. ceiling \in Nat \ {0}
  BY LimiterConstants DEF LimiterTypeOK
<1>2. Line \subseteq 0 .. MaxLookahead - 1
  BY LimiterConstants DEF LimiterTypeOK, Line
<1> QED
  BY <1>1, <1>2, LimiterConstants DEF LimiterTypeOK, Frame

LEMMA EntryTypes ==
  ASSUME LimiterTypeOK, NEW k \in 0 .. QueueSize - 1
  PROVE  /\ Entry(k) \in [gain : 0 .. Unity, index : 0 .. MaxSamples]
         /\ Entry(k).gain \in Nat /\ Entry(k).index \in Nat
<1>1. k \in 0 .. QueueSize
  BY LimiterConstants
<1>2. At(queueHead, k) \in 0 .. QueueSize - 1
  BY <1>1, AtTells DEF LimiterTypeOK
<1>3. Entry(k) \in [gain : 0 .. Unity, index : 0 .. MaxSamples]
  BY <1>2 DEF Entry, LimiterTypeOK
<1> QED
  BY <1>3, LimiterConstants

(* The window holds at most one entry per frame, the one before it         *)
(* included.                                                               *)
LEMMA LengthIsBounded ==
  ASSUME LimiterTypeOK, QueueIsOrdered
  PROVE  Length \in 0 .. lookahead + 1 /\ lookahead + 1 < QueueSize
<1>1. Length \in 0 .. QueueSize - 1 /\ QueueSize \in Nat /\ QueueSize = MaxLookahead + 2
  BY LengthFits, LimiterConstants
<1>2. /\ lookahead \in Nat /\ sampleIndex \in Nat
      /\ MaxLookahead \in Nat /\ lookahead <= MaxLookahead
  BY LimiterTypes, LimiterConstants
<1>3. CASE Length <= 1
  BY <1>1, <1>2, <1>3
<1>4. CASE Length > 1
  <2>1. /\ 0 \in 0 .. Length - 1 /\ Length - 1 \in 0 .. Length - 1
        /\ Length - 1 \in 0 + 1 .. Length - 1
    BY <1>1, <1>4
  <2>2. 0 \in 0 .. QueueSize - 1 /\ Length - 1 \in 0 .. QueueSize - 1
    BY <1>1, <1>4
  <2>3. /\ Entry(0).index \in Nat /\ Entry(Length - 1).index \in Nat
        /\ Entry(Length - 1).index < sampleIndex
        /\ Entry(0).index + lookahead + 1 >= sampleIndex
        /\ Entry(Length - 1).index - Entry(0).index >= (Length - 1) - 0
    BY <2>1, <2>2, EntryTypes DEF QueueIsOrdered
  <2> QED
    BY <1>1, <1>2, <2>3
<1> QED
  BY <1>1, <1>3, <1>4

LEMMA KeptTells ==
  ASSUME LimiterTypeOK, QueueIsOrdered, NEW g \in Nat
  PROVE  /\ Kept(g) \in 0 .. Length
         /\ \A k \in 0 .. Kept(g) - 1 : Entry(k).gain < g
         /\ \A k \in Kept(g) .. Length - 1 : Entry(k).gain >= g
<1>1. Length \in Nat /\ Length < QueueSize /\ QueueSize \in Nat
  BY LengthFits, LimiterConstants
<1> DEFINE S == {n \in 0 .. Length : \A k \in n .. Length - 1 : Entry(k).gain >= g}
<1>2. PICK n \in S : \A m \in S : n <= m
  <2>1. Length \in S
    BY <1>1
  <2>2. S \in SUBSET Nat
    BY <1>1
  <2> HIDE DEF S
  <2> QED
    BY <2>1, <2>2, Least
<1>3. n > 0 => Entry(n - 1).gain < g
  <2> SUFFICES ASSUME n > 0, ~ (Entry(n - 1).gain < g) PROVE FALSE
    OBVIOUS
  <2>1. n \in 1 .. Length /\ n - 1 \in 0 .. QueueSize - 1
    BY <1>1
  <2>2. Entry(n - 1).gain >= g
    BY <2>1, EntryTypes
  <2>3. n - 1 \in S
    <3> SUFFICES ASSUME NEW k \in n - 1 .. Length - 1 PROVE Entry(k).gain >= g
      BY <1>1, <2>1
    <3>1. k = n - 1 \/ k \in n .. Length - 1
      BY <1>1, <2>1
    <3> QED
      BY <2>2, <3>1
  <2> QED
    BY <1>2, <2>1, <2>3
<1> DEFINE P(m) == /\ m > 0 => slots[Place(m - 1)].gain < g
                   /\ \A i \in m .. Length - 1 : slots[Place(i)].gain >= g
<1>4. P(n) /\ n \in 0 .. Length
  BY <1>2, <1>3 DEF Entry, At, Place
<1>5. Kept(g) = CHOOSE m \in 0 .. Length : P(m)
  BY DEF Kept
<1> HIDE DEF P
<1>6. Kept(g) \in 0 .. Length /\ P(Kept(g))
  BY <1>4, <1>5
<1>7. /\ Kept(g) > 0 => Entry(Kept(g) - 1).gain < g
      /\ \A k \in Kept(g) .. Length - 1 : Entry(k).gain >= g
  BY <1>6 DEF P, Entry, At, Place
<1>8. ASSUME NEW k \in 0 .. Kept(g) - 1 PROVE Entry(k).gain < g
  <2> DEFINE l == Kept(g) - 1
  <2>1. /\ l \in 0 .. Length - 1 /\ k \in 0 .. Length - 1
        /\ k = l \/ l \in k + 1 .. Length - 1
    BY <1>1, <1>6
  <2>2. k \in 0 .. QueueSize - 1 /\ l \in 0 .. QueueSize - 1
    BY <1>1, <2>1
  <2>3. Entry(k).gain \in Nat /\ Entry(l).gain \in Nat
    BY <2>2, EntryTypes
  <2>4. Entry(l).gain < g
    BY <1>1, <1>6, <1>7, <2>1
  <2>5. k = l \/ Entry(k).gain < Entry(l).gain
    BY <2>1 DEF QueueIsOrdered
  <2> QED
    BY <2>3, <2>4, <2>5
<1> QED
  BY <1>6, <1>7, <1>8

Pushed(g) == [slots EXCEPT ![At(queueHead, Kept(g))] = [gain |-> g, index |-> sampleIndex]]

LEMMA PushedTells ==
  ASSUME LimiterTypeOK, QueueIsOrdered, sampleIndex < MaxSamples, NEW g \in 0 .. Unity
  PROVE  /\ Pushed(g) \in [0 .. QueueSize - 1 -> [gain : 0 .. Unity, index : 0 .. MaxSamples]]
         /\ Kept(g) \in 0 .. QueueSize - 1
         /\ Pushed(g)[At(queueHead, Kept(g))] = [gain |-> g, index |-> sampleIndex]
         /\ \A k \in 0 .. QueueSize - 1 :
              k # Kept(g) => Pushed(g)[At(queueHead, k)] = Entry(k)
<1>1. /\ g \in Nat /\ QueueSize \in Nat /\ MaxSamples \in Nat
      /\ sampleIndex \in 0 .. MaxSamples
  BY LimiterConstants DEF LimiterTypeOK
<1>2. Kept(g) \in 0 .. QueueSize - 1
  BY <1>1, KeptTells, LengthFits
<1>3. /\ queueHead \in 0 .. QueueSize - 1
      /\ slots \in [0 .. QueueSize - 1 -> [gain : 0 .. Unity, index : 0 .. MaxSamples]]
  BY DEF LimiterTypeOK
<1>4. \A k \in 0 .. QueueSize - 1 : At(queueHead, k) \in 0 .. QueueSize - 1
  <2>1. \A k \in 0 .. QueueSize - 1 : k \in 0 .. QueueSize
    BY <1>1
  <2> QED
    BY <1>3, <2>1, AtTells
<1>5. [gain |-> g, index |-> sampleIndex] \in [gain : 0 .. Unity, index : 0 .. MaxSamples]
  BY <1>1
<1>6. \A k \in 0 .. QueueSize - 1 : k # Kept(g) => At(queueHead, k) # At(queueHead, Kept(g))
  BY <1>2, <1>3, AtIsInjective
<1> QED
  BY <1>2, <1>3, <1>4, <1>5, <1>6 DEF Pushed, Entry

(* What a push leaves in the queue: of its n first entries, those smaller  *)
(* than the gain pushed, it retires r, and behind them is the new one.     *)
PushLeaves(g, n, r) ==
  /\ \A k \in 0 .. n - 1 : Entry(k).gain < g
  /\ \A k \in n .. Length - 1 : Entry(k).gain >= g
  /\ \A k \in 0 .. r - 1 : Expired(Entry(k).index)
  /\ r < n => ~ Expired(Entry(r).index)
  /\ n - r <= lookahead
  /\ slots' \in [0 .. QueueSize - 1 -> [gain : 0 .. Unity, index : 0 .. MaxSamples]]
  /\ queueHead' \in 0 .. QueueSize - 1 /\ queueTail' \in 0 .. QueueSize - 1
  /\ Length' = n - r + 1
  /\ \A k \in 0 .. n - r - 1 : Entry(k)' = Entry(r + k)
  /\ Entry(n - r)' = [gain |-> g, index |-> sampleIndex]

LEMMA PushTells ==
  ASSUME LimiterTypeOK, QueueIsOrdered, sampleIndex < MaxSamples,
         NEW g \in 0 .. Unity, PushAndGetMinimum(g)
  PROVE  \E n \in 0 .. Length : \E r \in 0 .. n : PushLeaves(g, n, r)
<1>1. PICK n : n = Kept(g)
  OBVIOUS
<1>2. /\ QueueSize \in Nat \ {0} /\ sampleIndex \in Nat /\ lookahead \in Nat \ {0}
      /\ queueHead \in 0 .. QueueSize - 1 /\ g \in Nat
  BY LimiterConstants, LimiterTypes
<1>3. /\ n \in 0 .. Length /\ Length \in 0 .. lookahead + 1 /\ lookahead + 1 < QueueSize
      /\ \A k \in 0 .. n - 1 : Entry(k).gain < g
      /\ \A k \in n .. Length - 1 : Entry(k).gain >= g
  BY <1>2, <1>1, KeptTells, LengthIsBounded
<1>4. n \in 0 .. QueueSize - 1
  BY <1>2, <1>3
<1> DEFINE P(m) == /\ ~ Expired(Pushed(g)[Place(m)].index)
                   /\ \A i \in 0 .. m - 1 : Expired(Pushed(g)[Place(i)].index)
<1>5. PICK r : r = CHOOSE m \in 0 .. QueueSize - 1 : P(m)
  OBVIOUS
<1>6. /\ slots' = [i \in DOMAIN slots |->
                     IF \E m \in r .. n : i = Place(m) THEN Pushed(g)[i] ELSE Blank]
      /\ queueTail' = At(queueHead, n + 1)
      /\ queueHead' = At(queueHead, r)
  BY <1>5, <1>1 DEF PushAndGetMinimum, Pushed, At, Place
<1>7. ~ Expired(Pushed(g)[At(queueHead, n)].index)
  <2>1. Pushed(g)[At(queueHead, n)] = [gain |-> g, index |-> sampleIndex]
    BY <1>1, PushedTells
  <2>2. Pushed(g)[At(queueHead, n)].index = sampleIndex
    BY <2>1
  <2>3. ~ (sampleIndex + lookahead < sampleIndex)
    BY <1>2
  <2> QED
    BY <2>2, <2>3 DEF Expired
<1>8. r \in 0 .. QueueSize - 1 /\ P(r)
  <2> DEFINE S == {m \in 0 .. QueueSize - 1 : ~ Expired(Pushed(g)[At(queueHead, m)].index)}
  <2>1. n \in S /\ S \in SUBSET Nat
    BY <1>4, <1>7
  <2>2. PICK m \in S : \A j \in S : m <= j
    <3> HIDE DEF S
    <3> QED
      BY <2>1, Least
  <2>3. ASSUME NEW i \in 0 .. m - 1 PROVE Expired(Pushed(g)[At(queueHead, i)].index)
    <3>1. i \in 0 .. QueueSize - 1 /\ ~ (m <= i)
      BY <1>2, <2>2
    <3> QED
      BY <2>2, <3>1
  <2>4. m \in 0 .. QueueSize - 1 /\ P(m)
    BY <2>2, <2>3 DEF At, Place
  <2> HIDE DEF P
  <2> QED
    BY <1>5, <2>4
<1>9. /\ ~ Expired(Pushed(g)[At(queueHead, r)].index)
      /\ \A i \in 0 .. r - 1 : Expired(Pushed(g)[At(queueHead, i)].index)
  BY <1>8 DEF At, Place
<1> HIDE DEF P
<1>10. r \in 0 .. n
  BY <1>2, <1>4, <1>7, <1>8, <1>9
<1>11. /\ \A k \in 0 .. r - 1 : Expired(Entry(k).index)
       /\ r < n => ~ Expired(Entry(r).index)
  <2>1. \A k \in 0 .. QueueSize - 1 : k # n => Pushed(g)[At(queueHead, k)] = Entry(k)
    BY <1>1, PushedTells
  <2>2. \A k \in 0 .. r - 1 : k \in 0 .. QueueSize - 1 /\ k # n
    BY <1>2, <1>4, <1>10
  <2>3. r < n => r # n
    BY <1>2, <1>4, <1>10
  <2> QED
    BY <1>8, <1>9, <2>1, <2>2, <2>3
<1>12. n - r <= lookahead
  <2>1. CASE r = n
    BY <1>2, <1>4, <2>1
  <2>2. CASE r # n
    <3>1. /\ r \in 0 .. Length - 1 /\ n - 1 \in 0 .. Length - 1 /\ r < n
          /\ r \in 0 .. QueueSize - 1 /\ n - 1 \in 0 .. QueueSize - 1
      BY <1>2, <1>3, <1>4, <1>10, <2>2
    <3>2. Entry(r).index \in Nat /\ Entry(n - 1).index \in Nat
      BY <3>1, EntryTypes
    <3>3. Entry(r).index + lookahead >= sampleIndex
      <4>1. ~ Expired(Entry(r).index)
        BY <1>11, <3>1
      <4> QED
        BY <1>2, <3>2, <4>1 DEF Expired
    <3>4. Entry(n - 1).index < sampleIndex
      BY <3>1 DEF QueueIsOrdered
    <3>5. Entry(n - 1).index - Entry(r).index >= (n - 1) - r
      <4>1. r = n - 1 \/ n - 1 \in r + 1 .. Length - 1
        BY <1>2, <1>3, <1>4, <3>1
      <4>2. CASE r = n - 1
        BY <1>4, <3>2, <4>2
      <4>3. CASE n - 1 \in r + 1 .. Length - 1
        BY <3>1, <4>3 DEF QueueIsOrdered
      <4> QED
        BY <4>1, <4>2, <4>3
    <3> QED
      BY <1>2, <1>4, <1>10, <3>2, <3>3, <3>4, <3>5
  <2> QED
    BY <2>1, <2>2
<1>13. /\ n + 1 \in 0 .. QueueSize /\ r \in 0 .. QueueSize
       /\ At(queueHead, r) \in 0 .. QueueSize - 1
       /\ At(queueHead, n + 1) \in 0 .. QueueSize - 1
  <2>1. n + 1 \in 0 .. QueueSize /\ r \in 0 .. QueueSize
    BY <1>2, <1>4, <1>8
  <2> QED
    BY <1>2, <2>1, AtTells
<1>14. Length' = n - r + 1
  <2>1. (At(queueHead, n + 1) - At(queueHead, r)) % QueueSize = (n + 1) - r
    <3>1. r \in 0 .. n + 1 /\ (n + 1) - r < QueueSize
      BY <1>2, <1>3, <1>4, <1>10, <1>12
    <3> QED
      BY <1>2, <1>13, <3>1, AtSpan
  <2>2. Length' = (queueTail' - queueHead') % QueueSize
    BY DEF Length, QueueSize
  <2> QED
    BY <1>4, <1>6, <1>10, <2>1, <2>2
<1>15. \A k \in 0 .. n - r : Entry(k)' = Pushed(g)[At(queueHead, r + k)]
  <2> SUFFICES ASSUME NEW k \in 0 .. n - r PROVE Entry(k)' = Pushed(g)[At(queueHead, r + k)]
    OBVIOUS
  <2>1. /\ k \in 0 .. QueueSize /\ r + k <= QueueSize
        /\ r + k \in 0 .. QueueSize /\ r + k \in r .. n
    BY <1>2, <1>4, <1>10
  <2>2. At(queueHead', k) = At(queueHead, r + k)
    BY <1>2, <1>6, <1>8, <2>1, AtSum
  <2>3. At(queueHead, r + k) \in DOMAIN slots
    BY <1>2, <2>1, AtTells DEF LimiterTypeOK
  <2>4. At(queueHead, r + k) = Place(r + k)
    BY DEF At, Place
  <2>5. slots'[At(queueHead, r + k)] = Pushed(g)[At(queueHead, r + k)]
    BY <1>6, <2>1, <2>3, <2>4
  <2>6. Entry(k)' = slots'[At(queueHead', k)]
    BY DEF Entry, At, QueueSize
  <2> QED
    BY <2>2, <2>5, <2>6
<1>16. Entry(n - r)' = [gain |-> g, index |-> sampleIndex]
  <2>1. n - r \in 0 .. n - r /\ r + (n - r) = n
    BY <1>2, <1>4, <1>10
  <2>2. Pushed(g)[At(queueHead, n)] = [gain |-> g, index |-> sampleIndex]
    BY <1>1, PushedTells
  <2> QED
    BY <1>15, <2>1, <2>2
<1>17. \A k \in 0 .. n - r - 1 : Entry(k)' = Entry(r + k)
  <2> SUFFICES ASSUME NEW k \in 0 .. n - r - 1 PROVE Entry(k)' = Entry(r + k)
    OBVIOUS
  <2>1. k \in 0 .. n - r /\ r + k \in 0 .. QueueSize - 1 /\ r + k # n
    BY <1>2, <1>4, <1>10
  <2>2. Pushed(g)[At(queueHead, r + k)] = Entry(r + k)
    BY <1>1, <2>1, PushedTells
  <2> QED
    BY <1>15, <2>1, <2>2
<1>18. slots' \in [0 .. QueueSize - 1 -> [gain : 0 .. Unity, index : 0 .. MaxSamples]]
  <2>1. Blank \in [gain : 0 .. Unity, index : 0 .. MaxSamples]
    BY LimiterConstants DEF Blank
  <2>2. DOMAIN slots = 0 .. QueueSize - 1
    BY DEF LimiterTypeOK
  <2> QED
    BY <1>6, <2>1, <2>2, PushedTells
<1>19. queueHead' \in 0 .. QueueSize - 1 /\ queueTail' \in 0 .. QueueSize - 1
  BY <1>6, <1>13
<1>20. PushLeaves(g, n, r)
  BY <1>3, <1>11, <1>12, <1>14, <1>16, <1>17, <1>18, <1>19, Zenon DEF PushLeaves
<1> QED
  BY <1>3, <1>10, <1>20

-----------------------------------------------------------------------------
(* A frame.                                                                *)

LEMMA AgeTells ==
  ASSUME LimiterTypeOK
  PROVE  /\ \A i \in Line : Age(i) \in 1 .. lookahead
         /\ delayWrite \in Line /\ Age(delayWrite) = lookahead
         /\ \A a \in 1 .. lookahead : \E i \in Line : Age(i) = a
<1>1. lookahead \in Nat \ {0} /\ delayWrite \in Nat /\ delayWrite < lookahead
  BY LimiterTypes
<1>2. ASSUME NEW a \in 1 .. lookahead PROVE \E i \in Line : Age(i) = a
  <2>1. CASE a <= delayWrite
    <3>1. delayWrite - a \in Line /\ delayWrite - a < delayWrite
      BY <1>1, <2>1 DEF Line
    <3>2. Age(delayWrite - a) = a
      BY <1>1, <3>1 DEF Age
    <3> QED
      BY <3>1, <3>2
  <2>2. CASE ~ (a <= delayWrite)
    <3>1. delayWrite - a + lookahead \in Line /\ ~ (delayWrite - a + lookahead < delayWrite)
      BY <1>1, <2>2 DEF Line
    <3>2. Age(delayWrite - a + lookahead) = a
      BY <1>1, <3>1 DEF Age
    <3> QED
      BY <3>1, <3>2
  <2> QED
    BY <2>1, <2>2
<1> QED
  BY <1>1, <1>2 DEF Line, Age

LEMMA AgesGoOn ==
  ASSUME LimiterTypeOK, delayWrite' = (delayWrite + 1) % lookahead, UNCHANGED lookahead,
         NEW i \in Line
  PROVE  /\ delayWrite' \in 0 .. lookahead - 1
         /\ Age(i)' = IF i = delayWrite THEN 1 ELSE Age(i) + 1
<1>1. lookahead \in Nat \ {0} /\ delayWrite \in Nat /\ delayWrite < lookahead
  BY LimiterTypes
<1>2. \/ delayWrite + 1 < lookahead /\ delayWrite' = delayWrite + 1
      \/ delayWrite + 1 = lookahead /\ delayWrite' = 0
  <2>1. PICK b \in Int : b = delayWrite + 1
    BY <1>1
  <2>2. -lookahead <= b /\ b < 2 * lookahead /\ 0 <= b /\ b <= lookahead
    BY <1>1, <2>1
  <2>3. b % lookahead =
          IF b < 0 THEN b + lookahead ELSE IF b < lookahead THEN b ELSE b - lookahead
    BY <1>1, <2>2, Wrap
  <2>4. delayWrite' = b % lookahead
    BY <2>1
  <2> QED
    BY <1>1, <2>1, <2>2, <2>3, <2>4
<1>3. i \in Nat /\ i < lookahead
  BY <1>1 DEF Line
<1> QED
  BY <1>1, <1>2, <1>3 DEF Age

(* The entry at the head is the smallest gain asked for in the window.     *)
LEMMA TargetTells ==
  ASSUME LimiterInv, sampleIndex < MaxSamples, NEW g \in 0 .. Unity,
         NEW n \in 0 .. Length, NEW r \in 0 .. n, PushLeaves(g, n, r)
  PROVE  /\ slots'[queueHead'] = Entry(0)'
         /\ slots'[queueHead'].gain \in 0 .. Unity
         /\ slots'[queueHead'].gain <= g
         /\ \A i \in Line : slots'[queueHead'].gain <= AskedFor(delayLine[i])
         /\ \/ slots'[queueHead'].gain = g
            \/ \E i \in Line : slots'[queueHead'].gain = AskedFor(delayLine[i])
<1> USE DEF LimiterInv
<1>1. /\ QueueSize \in Nat \ {0} /\ sampleIndex \in Nat /\ lookahead \in Nat \ {0}
      /\ Unity \in Nat /\ Length \in 0 .. lookahead + 1 /\ lookahead + 1 < QueueSize
  BY LimiterConstants, LimiterTypes, LengthIsBounded
<1>2. slots'[queueHead'] = Entry(0)'
  <2>1. queueHead' \in 0 .. QueueSize - 1
    BY DEF PushLeaves
  <2>2. At(queueHead', 0) = queueHead'
    BY <1>1, <2>1, AtTells
  <2>3. Entry(0)' = slots'[At(queueHead', 0)]
    BY DEF Entry, At, QueueSize
  <2> QED
    BY <2>2, <2>3
<1>3. CASE r = n
  <2>1. n - r = 0
    BY <1>1, <1>3
  <2>2. Entry(0)' = [gain |-> g, index |-> sampleIndex]
    BY <2>1 DEF PushLeaves
  <2>3. slots'[queueHead'].gain = g
    BY <1>2, <2>2
  <2>4. ASSUME NEW i \in Line PROVE g <= AskedFor(delayLine[i])
    <3>1. delayLine[i] \in Frame /\ Age(i) \in 1 .. lookahead
      BY LimiterTypes, AgeTells
    <3>2. AskedFor(delayLine[i]) \in 0 .. Unity
      BY <3>1, AskedForFits
    <3>3. CASE Age(i) > sampleIndex
      BY <1>1, <3>3, SilenceAsksForNothing DEF FramesAreCovered
    <3>4. CASE ~ (Age(i) > sampleIndex)
      <4>1. PICK k \in 0 .. Length - 1 : /\ Entry(k).index + Age(i) >= sampleIndex
                                         /\ Entry(k).gain <= AskedFor(delayLine[i])
        BY <3>4 DEF FramesAreCovered
      <4>2. k \in 0 .. QueueSize - 1
        BY <1>1
      <4>3. Entry(k).index \in Nat /\ Entry(k).gain \in Nat
        BY <4>2, EntryTypes
      <4>4. ~ Expired(Entry(k).index)
        BY <1>1, <3>1, <4>1, <4>3 DEF Expired
      <4>5. ~ (k \in 0 .. r - 1)
        BY <4>4 DEF PushLeaves
      <4>6. k \in n .. Length - 1
        BY <1>1, <1>3, <4>5
      <4>7. Entry(k).gain >= g
        BY <4>6 DEF PushLeaves
      <4> QED
        BY <3>2, <4>1, <4>3, <4>7, <1>1
    <3> QED
      BY <3>3, <3>4
  <2> QED
    BY <1>1, <1>2, <2>3, <2>4
<1>4. CASE r # n
  <2>1. /\ r \in 0 .. Length - 1 /\ r < n /\ r \in 0 .. n - 1
        /\ r \in 0 .. QueueSize - 1 /\ 0 \in 0 .. n - r - 1
    BY <1>1, <1>4
  <2>2. r + 0 = r
    BY <2>1
  <2>3. Entry(0)' = Entry(r)
    BY <2>1, <2>2 DEF PushLeaves
  <2>4. /\ Entry(r) \in [gain : 0 .. Unity, index : 0 .. MaxSamples]
        /\ Entry(r).gain \in 0 .. Unity /\ Entry(r).index \in Nat /\ Entry(r).gain \in Nat
    BY <2>1, EntryTypes
  <2>5. Entry(r).gain < g /\ ~ Expired(Entry(r).index) /\ Entry(r).index < sampleIndex
    BY <2>1 DEF PushLeaves, QueueIsOrdered
  <2>6. ASSUME NEW i \in Line PROVE Entry(r).gain <= AskedFor(delayLine[i])
    <3>1. delayLine[i] \in Frame /\ Age(i) \in 1 .. lookahead
      BY LimiterTypes, AgeTells
    <3>2. AskedFor(delayLine[i]) \in 0 .. Unity
      BY <3>1, AskedForFits
    <3>3. CASE Age(i) > sampleIndex
      BY <1>1, <2>4, <3>3, SilenceAsksForNothing DEF FramesAreCovered
    <3>4. CASE ~ (Age(i) > sampleIndex)
      <4>1. PICK k \in 0 .. Length - 1 : /\ Entry(k).index + Age(i) >= sampleIndex
                                         /\ Entry(k).gain <= AskedFor(delayLine[i])
        BY <3>4 DEF FramesAreCovered
      <4>2. k \in 0 .. QueueSize - 1
        BY <1>1
      <4>3. Entry(k).index \in Nat /\ Entry(k).gain \in Nat
        BY <4>2, EntryTypes
      <4>4. ~ Expired(Entry(k).index)
        BY <1>1, <3>1, <4>1, <4>3 DEF Expired
      <4>5. ~ (k \in 0 .. r - 1)
        BY <4>4 DEF PushLeaves
      <4>6. k = r \/ k \in r + 1 .. Length - 1
        BY <1>1, <2>1, <4>5
      <4>7. Entry(k).gain >= Entry(r).gain
        BY <2>1, <2>4, <4>3, <4>6 DEF QueueIsOrdered
      <4> QED
        BY <1>1, <2>4, <3>2, <4>1, <4>3, <4>7
    <3> QED
      BY <3>3, <3>4
  <2>7. \E i \in Line : Entry(r).gain = AskedFor(delayLine[i])
    <3>1. sampleIndex - Entry(r).index \in 1 .. lookahead
      BY <1>1, <2>4, <2>5 DEF Expired
    <3>2. PICK i \in Line : Age(i) = sampleIndex - Entry(r).index
      BY <3>1, AgeTells
    <3>3. Entry(r).index + Age(i) = sampleIndex
      BY <1>1, <2>4, <3>2
    <3> QED
      BY <2>1, <3>3 DEF EntriesAreAskedFor
  <2> QED
    BY <1>1, <1>2, <2>3, <2>4, <2>5, <2>6, <2>7
<1> QED
  BY <1>3, <1>4

(* What a frame does to the queue and the delay line.                      *)
Enters(peak) == [peak |-> peak, judgedBy |-> ceiling]

LEMMA QueueStaysOrdered ==
  ASSUME LimiterInv, sampleIndex < MaxSamples, NEW g \in 0 .. Unity,
         NEW n \in 0 .. Length, NEW r \in 0 .. n, PushLeaves(g, n, r),
         sampleIndex' = sampleIndex + 1, UNCHANGED lookahead
  PROVE  QueueIsOrdered'
<1> USE DEF LimiterInv
<1>1. /\ QueueSize \in Nat \ {0} /\ sampleIndex \in Nat /\ lookahead \in Nat \ {0}
      /\ Unity \in Nat /\ Length \in 0 .. lookahead + 1 /\ lookahead + 1 < QueueSize
      /\ n \in Nat /\ r \in Nat /\ r <= n /\ n <= Length /\ g \in Nat
  BY LimiterConstants, LimiterTypes, LengthIsBounded
<1>2. \A k \in 0 .. n - r - 1 : Entry(k)' = Entry(r + k)
  BY DEF PushLeaves
<1>3. Entry(n - r)' = [gain |-> g, index |-> sampleIndex]
  BY DEF PushLeaves
<1>4. ASSUME NEW k \in 0 .. n - r - 1
      PROVE  /\ r + k \in 0 .. Length - 1
             /\ Entry(r + k).index \in Nat /\ Entry(r + k).gain \in Nat
             /\ Entry(r + k).index < sampleIndex
             /\ Entry(r + k).index + lookahead >= sampleIndex
             /\ Entry(r + k).gain < g
             /\ sampleIndex - Entry(r + k).index >= (n - r) - k
  <2>1. /\ r + k \in 0 .. Length - 1 /\ r + k \in 0 .. QueueSize - 1 /\ r + k \in 0 .. n - 1
        /\ r \in 0 .. Length - 1 /\ r \in 0 .. QueueSize - 1 /\ r < n
        /\ n - 1 \in 0 .. Length - 1 /\ n - 1 \in 0 .. QueueSize - 1
        /\ (k = 0 \/ r + k \in r + 1 .. Length - 1)
        /\ (r + k = n - 1 \/ n - 1 \in (r + k) + 1 .. Length - 1)
    BY <1>1
  <2>2. /\ Entry(r + k).index \in Nat /\ Entry(r + k).gain \in Nat
        /\ Entry(r).index \in Nat /\ Entry(n - 1).index \in Nat
    BY <2>1, EntryTypes
  <2>3. Entry(r + k).index < sampleIndex /\ Entry(n - 1).index < sampleIndex
    BY <2>1 DEF QueueIsOrdered
  <2>4. Entry(r).index + lookahead >= sampleIndex
    <3>1. ~ Expired(Entry(r).index)
      BY <2>1 DEF PushLeaves
    <3> QED
      BY <1>1, <2>2, <3>1 DEF Expired
  <2>5. Entry(r + k).index >= Entry(r).index
    <3>1. CASE k = 0
      <4>1. r + k = r
        BY <1>1, <3>1
      <4> QED
        BY <2>2, <4>1
    <3>2. CASE r + k \in r + 1 .. Length - 1
      <4>1. Entry(r + k).index - Entry(r).index >= (r + k) - r
        BY <2>1, <3>2 DEF QueueIsOrdered
      <4> QED
        BY <1>1, <2>2, <4>1
    <3> QED
      BY <2>1, <3>1, <3>2
  <2>6. Entry(n - 1).index - Entry(r + k).index >= (n - 1) - (r + k)
    <3>1. CASE r + k = n - 1
      <4>1. Entry(n - 1).index = Entry(r + k).index
        BY <3>1
      <4> QED
        BY <1>1, <2>2, <3>1, <4>1
    <3>2. CASE n - 1 \in (r + k) + 1 .. Length - 1
      BY <2>1, <3>2 DEF QueueIsOrdered
    <3> QED
      BY <2>1, <3>1, <3>2
  <2>7. Entry(r + k).gain < g
    BY <2>1 DEF PushLeaves
  <2> QED
    BY <1>1, <2>1, <2>2, <2>3, <2>4, <2>5, <2>6, <2>7
<1>5. ASSUME NEW k \in 0 .. n - r
      PROVE  /\ Entry(k)'.index \in Nat /\ Entry(k)'.index < sampleIndex + 1
             /\ Entry(k)'.index + lookahead >= sampleIndex
  <2>1. CASE k = n - r
    BY <1>1, <1>3, <2>1
  <2>2. CASE k # n - r
    <3>1. k \in 0 .. n - r - 1
      BY <1>1, <2>2
    <3> QED
      BY <1>1, <1>2, <1>4, <3>1
  <2> QED
    BY <2>1, <2>2
<1>6. ASSUME NEW k \in 0 .. n - r, NEW m \in k + 1 .. n - r
      PROVE  /\ Entry(m)'.index - Entry(k)'.index >= m - k
             /\ Entry(k)'.gain < Entry(m)'.gain
  <2>1. k \in 0 .. n - r - 1
    BY <1>1
  <2>2. Entry(k)' = Entry(r + k)
    BY <1>2, <2>1
  <2>3. CASE m = n - r
    <3>1. Entry(m)' = [gain |-> g, index |-> sampleIndex]
      BY <1>3, <2>3
    <3> QED
      BY <1>1, <1>4, <2>1, <2>2, <2>3, <3>1
  <2>4. CASE m # n - r
    <3>1. m \in 0 .. n - r - 1 /\ r + m \in (r + k) + 1 .. Length - 1
      BY <1>1, <2>4
    <3>2. Entry(m)' = Entry(r + m)
      BY <1>2, <3>1
    <3>3. /\ Entry(r + m).index - Entry(r + k).index >= (r + m) - (r + k)
          /\ Entry(r + k).gain < Entry(r + m).gain
      BY <1>4, <2>1, <3>1 DEF QueueIsOrdered
    <3>4. Entry(r + m).index \in Nat /\ Entry(r + k).index \in Nat
      BY <1>4, <2>1, <3>1
    <3> QED
      BY <1>1, <2>2, <3>2, <3>3, <3>4
  <2> QED
    BY <2>3, <2>4
<1>7. Length' - 1 = n - r
  BY <1>1 DEF PushLeaves
<1>8. ASSUME NEW k \in 0 .. Length' - 1
      PROVE  /\ Entry(k)'.index < sampleIndex'
             /\ Entry(k)'.index + lookahead' + 1 >= sampleIndex'
             /\ \A m \in k + 1 .. Length' - 1 :
                  /\ Entry(m)'.index - Entry(k)'.index >= m - k
                  /\ Entry(k)'.gain < Entry(m)'.gain
  BY <1>1, <1>5, <1>6, <1>7
<1> QED
  BY <1>8 DEF QueueIsOrdered

(* What a frame does to the delay line, and what it asks for.              *)
LEMMA EntersTells ==
  ASSUME LimiterInv, NEW peak \in Peaks, ProcessFrame(peak)
  PROVE  /\ Enters(peak) \in Frame /\ RequiredGain(peak) = AskedFor(Enters(peak))
         /\ RequiredGain(peak) \in 0 .. Unity
         /\ Line' = Line /\ delayWrite' \in 0 .. lookahead - 1
         /\ delayWrite \in Line
         /\ \A i \in Line :
              \/ i = delayWrite /\ delayLine'[i] = Enters(peak) /\ Age(i)' = 1
              \/ i # delayWrite /\ delayLine'[i] = delayLine[i] /\ Age(i)' = Age(i) + 1
         /\ sampleIndex < MaxSamples /\ sampleIndex' = sampleIndex + 1
         /\ UNCHANGED <<ceiling, lookahead>>
<1> USE DEF LimiterInv
<1>1. Enters(peak) \in Frame /\ RequiredGain(peak) = AskedFor(Enters(peak))
  BY LimiterTypes, RequiredIsAskedFor DEF Enters
<1>2. RequiredGain(peak) \in 0 .. Unity
  BY <1>1, AskedForFits
<1>3. /\ delayWrite' = (delayWrite + 1) % lookahead
      /\ delayLine' = [delayLine EXCEPT ![delayWrite] = Enters(peak)]
      /\ sampleIndex < MaxSamples /\ sampleIndex' = sampleIndex + 1
      /\ UNCHANGED <<ceiling, lookahead>>
  BY DEF ProcessFrame, Enters
<1>4. Line' = Line
  BY <1>3 DEF Line
<1>5. delayWrite \in Line
  BY AgeTells
<1>6. \A i \in Line : /\ delayWrite' \in 0 .. lookahead - 1
                     /\ Age(i)' = IF i = delayWrite THEN 1 ELSE Age(i) + 1
  BY <1>3, AgesGoOn
<1>7. Line \subseteq DOMAIN delayLine
  BY LimiterConstants DEF LimiterTypeOK, Line
<1>8. /\ delayLine'[delayWrite] = Enters(peak)
      /\ \A i \in Line \ {delayWrite} : delayLine'[i] = delayLine[i]
  BY <1>3, <1>5, <1>7
<1> QED
  BY <1>1, <1>2, <1>3, <1>4, <1>5, <1>6, <1>8

LEMMA EntriesStayAskedFor ==
  ASSUME LimiterInv, NEW peak \in Peaks, ProcessFrame(peak),
         NEW n \in 0 .. Length, NEW r \in 0 .. n, PushLeaves(RequiredGain(peak), n, r)
  PROVE  EntriesAreAskedFor'
<1> USE DEF LimiterInv
<1>1. /\ QueueSize \in Nat \ {0} /\ sampleIndex \in Nat /\ Length \in Nat
      /\ Length < QueueSize
      /\ n \in Nat /\ r \in Nat /\ r <= n /\ n <= Length
  BY LimiterConstants, LimiterTypes, LengthFits
<1>2. /\ \A k \in 0 .. n - r - 1 : Entry(k)' = Entry(r + k)
      /\ Entry(n - r)' = [gain |-> RequiredGain(peak), index |-> sampleIndex]
      /\ Length' - 1 = n - r
  BY <1>1 DEF PushLeaves
<1>3. SUFFICES ASSUME NEW k \in 0 .. n - r, NEW i \in Line,
                      Entry(k)'.index + Age(i)' = sampleIndex + 1
               PROVE  Entry(k)'.gain = AskedFor(delayLine'[i])
  BY <1>2, EntersTells DEF EntriesAreAskedFor
<1>4. Age(i) \in Nat /\ Age(i) >= 1
  BY AgeTells, LimiterTypes
<1>5. CASE k = n - r
  <2>1. Entry(k)'.index = sampleIndex /\ Entry(k)'.gain = RequiredGain(peak)
    BY <1>2, <1>5
  <2>2. i = delayWrite
    BY <1>1, <1>3, <1>4, <2>1, EntersTells
  <2> QED
    BY <2>1, <2>2, EntersTells
<1>6. CASE k # n - r
  <2>1. k \in 0 .. n - r - 1 /\ r + k \in 0 .. Length - 1 /\ r + k \in 0 .. QueueSize - 1
    BY <1>1, <1>6
  <2>2. Entry(k)' = Entry(r + k) /\ Entry(r + k).index \in Nat
    BY <1>2, <2>1, EntryTypes
  <2>3. Entry(r + k).index < sampleIndex
    BY <2>1 DEF QueueIsOrdered
  <2>4. i # delayWrite
    <3> SUFFICES ASSUME i = delayWrite PROVE FALSE
      OBVIOUS
    <3>1. Age(i)' = 1
      BY EntersTells
    <3> QED
      BY <1>1, <1>3, <2>2, <2>3, <3>1
  <2>5. Age(i)' = Age(i) + 1 /\ delayLine'[i] = delayLine[i]
    BY <2>4, EntersTells
  <2>6. Entry(r + k).index + Age(i) = sampleIndex
    <3>1. Entry(r + k).index + (Age(i) + 1) = sampleIndex + 1
      BY <1>3, <2>2, <2>5, Zenon
    <3> QED
      BY <1>1, <1>4, <2>2, <3>1
  <2> QED
    BY <2>1, <2>2, <2>5, <2>6 DEF EntriesAreAskedFor
<1> QED
  BY <1>5, <1>6

LEMMA FramesStayCovered ==
  ASSUME LimiterInv, NEW peak \in Peaks, ProcessFrame(peak),
         NEW n \in 0 .. Length, NEW r \in 0 .. n, PushLeaves(RequiredGain(peak), n, r)
  PROVE  FramesAreCovered'
<1> USE DEF LimiterInv
<1>1. /\ QueueSize \in Nat \ {0} /\ sampleIndex \in Nat /\ Length \in Nat
      /\ Length < QueueSize /\ lookahead \in Nat \ {0}
      /\ n \in Nat /\ r \in Nat /\ r <= n /\ n <= Length
  BY LimiterConstants, LimiterTypes, LengthFits
<1>2. /\ \A k \in 0 .. n - r - 1 : Entry(k)' = Entry(r + k)
      /\ Entry(n - r)' = [gain |-> RequiredGain(peak), index |-> sampleIndex]
      /\ Length' - 1 = n - r
  BY <1>1 DEF PushLeaves
<1> DEFINE Covered(i) ==
      IF Age(i)' > sampleIndex + 1
      THEN delayLine'[i] = Silence
      ELSE \E k \in 0 .. n - r :
             /\ Entry(k)'.index + Age(i)' >= sampleIndex + 1
             /\ Entry(k)'.gain =< AskedFor(delayLine'[i])
<1>3. SUFFICES ASSUME NEW i \in Line PROVE Covered(i)
  BY <1>2, EntersTells DEF FramesAreCovered
<1>4. Age(i) \in Nat /\ Age(i) >= 1 /\ Age(i) <= lookahead
  BY AgeTells, LimiterTypes
<1>5. n - r \in 0 .. n - r
  BY <1>1
<1>6. /\ Entry(n - r)'.index = sampleIndex
      /\ Entry(n - r)'.gain = RequiredGain(peak)
  BY <1>2
<1>7. CASE i = delayWrite
  <2>1. Age(i)' = 1 /\ AskedFor(delayLine'[i]) = RequiredGain(peak)
    BY <1>7, EntersTells
  <2>2. RequiredGain(peak) \in Int
    BY EntersTells
  <2>3. /\ Entry(n - r)'.index + Age(i)' >= sampleIndex + 1
        /\ Entry(n - r)'.gain =< AskedFor(delayLine'[i])
    BY <1>1, <1>6, <2>1, <2>2
  <2>4. ~ (Age(i)' > sampleIndex + 1)
    BY <1>1, <2>1
  <2> QED
    BY <1>5, <2>3, <2>4
<1>8. CASE i # delayWrite
  <2>1. Age(i)' = Age(i) + 1 /\ delayLine'[i] = delayLine[i]
    BY <1>8, EntersTells
  <2>2. CASE Age(i) > sampleIndex
    <3>1. Age(i)' > sampleIndex + 1 /\ delayLine[i] = Silence
      BY <1>1, <1>4, <2>1, <2>2 DEF FramesAreCovered
    <3> QED
      BY <2>1, <3>1
  <2>3. CASE ~ (Age(i) > sampleIndex)
    <3>1. PICK k \in 0 .. Length - 1 : /\ Entry(k).index + Age(i) >= sampleIndex
                                       /\ Entry(k).gain =< AskedFor(delayLine[i])
      BY <2>3 DEF FramesAreCovered
    <3>2. k \in 0 .. QueueSize - 1 /\ k \in Nat
      BY <1>1
    <3>3. Entry(k).index \in Nat /\ Entry(k).gain \in Nat
      BY <3>2, EntryTypes
    <3>4. ~ (k \in 0 .. r - 1)
      <4>1. ~ Expired(Entry(k).index)
        BY <1>1, <1>4, <3>1, <3>3 DEF Expired
      <4> QED
        BY <4>1 DEF PushLeaves
    <3>5. ~ (Age(i)' > sampleIndex + 1)
      BY <1>1, <1>4, <2>1, <2>3
    <3>6. CASE k < n
      <4>1. PICK j \in 0 .. n - r - 1 : r + j = k
        <5>1. k - r \in 0 .. n - r - 1 /\ r + (k - r) = k
          BY <1>1, <3>2, <3>4, <3>6
        <5> QED
          BY <5>1
      <4>2. Entry(j)' = Entry(k) /\ j \in 0 .. n - r
        BY <1>1, <1>2, <4>1
      <4>3. /\ Entry(j)'.index + Age(i)' >= sampleIndex + 1
            /\ Entry(j)'.gain =< AskedFor(delayLine'[i])
        BY <1>1, <1>4, <2>1, <3>1, <3>3, <4>2
      <4> QED
        BY <3>5, <4>2, <4>3
    <3>7. CASE k >= n
      <4>1. RequiredGain(peak) <= Entry(k).gain
        <5>1. k \in n .. Length - 1
          BY <1>1, <3>2, <3>7
        <5>2. Entry(k).gain >= RequiredGain(peak)
          BY <5>1 DEF PushLeaves
        <5> QED
          BY <3>3, <5>2, EntersTells
      <4>2. RequiredGain(peak) \in Int /\ AskedFor(delayLine[i]) \in Int
        BY EntersTells, LimiterTypes, AskedForFits
      <4>3. /\ Entry(n - r)'.index + Age(i)' >= sampleIndex + 1
            /\ Entry(n - r)'.gain =< AskedFor(delayLine'[i])
        BY <1>1, <1>4, <1>6, <2>1, <3>1, <3>3, <4>1, <4>2
      <4> QED
        BY <1>5, <3>5, <4>3
    <3> QED
      BY <1>1, <3>2, <3>6, <3>7
  <2> QED
    BY <2>2, <2>3
<1> QED
  BY <1>7, <1>8

LEMMA EntersLeaves ==
  ASSUME LimiterInv, NEW peak \in Peaks, ProcessFrame(peak)
  PROVE  \E n \in 0 .. Length : \E r \in 0 .. n : PushLeaves(RequiredGain(peak), n, r)
BY EntersTells, PushTells DEF LimiterInv, ProcessFrame

(* The gain moves towards its target by a step at most.                    *)
GainMovesTo(t) ==
  \/ t < currentGain /\ currentGain' = t
  \/ t < currentGain /\ currentGain' = currentGain - AttackStep /\ currentGain' > t
  \/ ~ (t < currentGain) /\ currentGain' = currentGain
  \/ ~ (t < currentGain) /\ currentGain' = t

LEMMA GainMoves ==
  ASSUME LimiterInv, NEW peak \in Peaks, ProcessFrame(peak)
  PROVE  /\ currentGain' \in 0 .. Unity
         /\ \E t \in 0 .. Unity :
              /\ t <= RequiredGain(peak) /\ \A i \in Line : t <= AskedFor(delayLine[i])
              /\ GainMovesTo(t)
<1>1. PICK t : t = slots'[queueHead'].gain
  OBVIOUS
<1>2. PICK n \in 0 .. Length : \E m \in 0 .. n : PushLeaves(RequiredGain(peak), n, m)
  BY EntersLeaves
<1>3. PICK r \in 0 .. n : PushLeaves(RequiredGain(peak), n, r)
  BY <1>2
<1>4. /\ t \in 0 .. Unity /\ t <= RequiredGain(peak)
      /\ \A i \in Line : t <= AskedFor(delayLine[i])
  BY <1>1, <1>3, EntersTells, TargetTells
<1>5. GainMovesTo(t)
  BY <1>1 DEF ProcessFrame, NextGain, GainMovesTo
<1>6. currentGain' \in 0 .. Unity
  BY <1>4, <1>5, LimiterConstants, LimiterTypes, AttackIsInTime DEF LimiterInv, GainMovesTo
<1> QED
  BY <1>4, <1>5, <1>6

LEMMA GainStaysOnItsWay ==
  ASSUME LimiterInv, NEW peak \in Peaks, ProcessFrame(peak)
  PROVE  GainIsOnItsWay'
<1> USE DEF LimiterInv
<1>1. PICK t \in 0 .. Unity : /\ t <= RequiredGain(peak)
                              /\ \A i \in Line : t <= AskedFor(delayLine[i])
                              /\ GainMovesTo(t)
  BY GainMoves
<1>2. /\ t \in 0 .. Unity /\ t <= RequiredGain(peak)
      /\ \A i \in Line : t <= AskedFor(delayLine[i])
  BY <1>1
<1>3. /\ Unity \in Nat /\ sampleIndex \in Nat /\ currentGain \in 0 .. Unity
      /\ AttackStep \in Nat /\ AttackStep' = AttackStep
  BY LimiterConstants, LimiterTypes, AttackIsInTime, EntersTells DEF AttackStep
<1>4. \/ t < currentGain /\ currentGain' = t
      \/ t < currentGain /\ currentGain' = currentGain - AttackStep /\ currentGain' > t
      \/ ~ (t < currentGain) /\ currentGain' = currentGain
      \/ ~ (t < currentGain) /\ currentGain' = t
  BY <1>1 DEF GainMovesTo
<1>5. currentGain' \in 0 .. Unity
  BY <1>2, <1>3, <1>4
<1>6. ASSUME NEW i \in Line, Age(i)' =< sampleIndex + 1
      PROVE  \/ currentGain' =< AskedFor(delayLine'[i])
             \/ currentGain' + Age(i)' * AttackStep =< Unity
  <2>1. Age(i) \in Nat /\ AskedFor(delayLine[i]) \in Int /\ RequiredGain(peak) \in Int
    BY LimiterTypes, AgeTells, AskedForFits, EntersTells
  <2>2. CASE i = delayWrite
    <3>1. Age(i)' = 1 /\ AskedFor(delayLine'[i]) = RequiredGain(peak)
      BY <2>2, EntersTells
    <3>2. 1 * AttackStep = AttackStep
      BY <1>3
    <3> QED
      BY <1>2, <1>3, <1>4, <2>1, <3>1, <3>2
  <2>3. CASE i # delayWrite
    <3>1. /\ Age(i)' = Age(i) + 1 /\ delayLine'[i] = delayLine[i]
          /\ t <= AskedFor(delayLine[i])
      BY <1>2, <2>3, EntersTells
    <3>2. PICK d \in Int : d = Age(i) * AttackStep
      BY <1>3, <2>1
    <3>3. Age(i)' * AttackStep = d + AttackStep
      BY <1>3, <2>1, <3>1, <3>2
    <3>4. currentGain =< AskedFor(delayLine[i]) \/ currentGain + d =< Unity
      BY <1>3, <1>6, <2>1, <3>1, <3>2 DEF GainIsOnItsWay
    <3> QED
      BY <1>2, <1>3, <1>4, <2>1, <3>1, <3>3, <3>4
  <2> QED
    BY <2>2, <2>3
<1> QED
  BY <1>3, <1>5, <1>6, EntersTells DEF GainIsOnItsWay

LEMMA FrameStep ==
  ASSUME LimiterInv, NEW peak \in Peaks, ProcessFrame(peak)
  PROVE  LimiterInv'
<1>1. PICK n \in 0 .. Length : \E m \in 0 .. n : PushLeaves(RequiredGain(peak), n, m)
  BY EntersLeaves
<1>2. PICK r \in 0 .. n : PushLeaves(RequiredGain(peak), n, r)
  BY <1>1
<1>3. QueueIsOrdered'
  BY <1>2, EntersTells, QueueStaysOrdered DEF LimiterInv
<1>4. EntriesAreAskedFor' /\ FramesAreCovered'
  BY <1>2, EntriesStayAskedFor, FramesStayCovered
<1>5. GainIsOnItsWay' /\ currentGain' \in 0 .. Unity
  BY GainMoves, GainStaysOnItsWay
<1>6. UNCHANGED <<ceiling, lookahead>> /\ <<ceiling', lookahead'>> \in Settings
  BY EntersTells DEF LimiterInv
<1>7. LimiterTypeOK'
  <2>1. /\ slots' \in [0 .. QueueSize - 1 -> [gain : 0 .. Unity, index : 0 .. MaxSamples]]
        /\ queueHead' \in 0 .. QueueSize - 1 /\ queueTail' \in 0 .. QueueSize - 1
    BY <1>2 DEF PushLeaves
  <2>2. delayLine' \in [0 .. MaxLookahead - 1 ->
                          [peak : Peaks \union {0}, judgedBy : Ceilings \union {0}]]
    <3>1. /\ delayLine' = [delayLine EXCEPT ![delayWrite] = Enters(peak)]
          /\ Enters(peak) \in Frame
      BY EntersTells DEF ProcessFrame, Enters
    <3> QED
      BY <3>1 DEF LimiterInv, LimiterTypeOK, Frame
  <2>3. sampleIndex' \in 0 .. MaxSamples
    BY LimiterConstants, LimiterTypes, EntersTells DEF LimiterInv
  <2>4. clippedSamples' \in BOOLEAN
    BY DEF ProcessFrame
  <2>5. delayWrite' \in 0 .. lookahead - 1
    BY EntersTells
  <2> QED
    BY <1>5, <1>6, <2>1, <2>2, <2>3, <2>4, <2>5
    DEF LimiterInv, LimiterTypeOK, QueueSize, Ceilings
<1> QED
  BY <1>3, <1>4, <1>5, <1>6, <1>7 DEF LimiterInv

(* With nothing taken in, an empty queue and a silent line, all is well.   *)
LEMMA FreshTells ==
  ASSUME <<ceiling, lookahead>> \in Settings,
         slots = EmptyQueue, queueHead = 0, queueTail = 0,
         delayLine = EmptyLine, delayWrite = 0,
         sampleIndex = 0, currentGain = Unity, clippedSamples = FALSE
  PROVE  LimiterInv
<1>1. /\ lookahead \in 1 .. MaxLookahead /\ ceiling \in Ceilings
      /\ lookahead \in Nat \ {0}
  BY LimiterAssumption DEF LimiterAssumption, Ceilings
<1>2. LimiterTypeOK
  <2>1. slots \in [0 .. QueueSize - 1 -> [gain : 0 .. Unity, index : 0 .. MaxSamples]]
    BY LimiterConstants DEF EmptyQueue, Blank
  <2>2. delayLine \in [0 .. MaxLookahead - 1 ->
                         [peak : Peaks \union {0}, judgedBy : Ceilings \union {0}]]
    BY DEF EmptyLine, Silence
  <2>3. 0 \in 0 .. QueueSize - 1 /\ 0 \in 0 .. lookahead - 1 /\ 0 \in 0 .. MaxSamples
    BY <1>1, LimiterConstants
  <2>4. Unity \in 0 .. Unity
    BY LimiterConstants
  <2> QED
    BY <1>1, <2>1, <2>2, <2>3, <2>4 DEF LimiterTypeOK
<1>3. Length = 0
  BY LimiterConstants DEF Length
<1>4. QueueIsOrdered /\ EntriesAreAskedFor
  BY <1>3 DEF QueueIsOrdered, EntriesAreAskedFor
<1>5. \A i \in Line : Age(i) > sampleIndex /\ delayLine[i] = Silence
  <2>1. \A i \in Line : i \in 0 .. MaxLookahead - 1
    BY <1>1, LimiterConstants DEF Line
  <2>2. \A i \in Line : Age(i) \in 1 .. lookahead
    BY <1>2, AgeTells
  <2> QED
    BY <1>1, <2>1, <2>2 DEF EmptyLine
<1>6. FramesAreCovered
  BY <1>5 DEF FramesAreCovered
<1>7. GainIsOnItsWay
  <2>1. \A i \in Line : ~ (Age(i) =< sampleIndex)
    <3>1. \A i \in Line : Age(i) \in 1 .. lookahead
      BY <1>2, AgeTells
    <3> QED
      BY <1>1, <3>1
  <2> QED
    BY <2>1 DEF GainIsOnItsWay
<1> QED
  BY <1>2, <1>4, <1>6, <1>7 DEF LimiterInv

LEMMA StartOverTells ==
  ASSUME StartOver, (<<ceiling, lookahead>> \in Settings)'
  PROVE  LimiterInv'
<1>1. EmptyQueue' = EmptyQueue /\ EmptyLine' = EmptyLine
  BY DEF EmptyQueue, EmptyLine, QueueSize
<1>2. /\ (slots = EmptyQueue)' /\ (queueHead = 0)' /\ (queueTail = 0)'
      /\ (delayLine = EmptyLine)' /\ (delayWrite = 0)'
      /\ (sampleIndex = 0)' /\ (currentGain = Unity)' /\ (clippedSamples = FALSE)'
  BY <1>1 DEF StartOver
<1> QED
  BY <1>2, FreshTells, PTL

LEMMA CeilingStep ==
  ASSUME LimiterInv, NEW s \in Settings, s[2] = lookahead, SetSettings(s[1], s[2])
  PROVE  LimiterInv'
<1>1. /\ ceiling' = s[1] /\ lookahead' = lookahead
      /\ slots' = slots /\ queueHead' = queueHead /\ queueTail' = queueTail
      /\ delayLine' = delayLine /\ delayWrite' = delayWrite
      /\ sampleIndex' = sampleIndex /\ currentGain' = currentGain
      /\ clippedSamples' = clippedSamples
  BY DEF SetSettings, queue
<1>2. /\ s = <<s[1], s[2]>> /\ s[1] \in Ceilings
  BY LimiterAssumption DEF LimiterAssumption, Ceilings
<1>3. <<ceiling', lookahead'>> \in Settings
  BY <1>1, <1>2
<1>4. Length' = Length /\ \A k : Entry(k)' = Entry(k)
  BY <1>1 DEF Length, Entry, At, QueueSize
<1>5. Line' = Line /\ AttackStep' = AttackStep /\ \A i : Age(i)' = Age(i)
  BY <1>1 DEF Line, Age, AttackStep
<1>6. LimiterTypeOK'
  BY <1>1, <1>2 DEF LimiterInv, LimiterTypeOK, QueueSize, Ceilings
<1>7. QueueIsOrdered' /\ EntriesAreAskedFor'
  BY <1>1, <1>4, <1>5 DEF LimiterInv, QueueIsOrdered, EntriesAreAskedFor
<1>8. FramesAreCovered'
  BY <1>1, <1>4, <1>5 DEF LimiterInv, FramesAreCovered
<1>9. GainIsOnItsWay'
  BY <1>1, <1>4, <1>5 DEF LimiterInv, GainIsOnItsWay
<1> QED
  BY <1>3, <1>6, <1>7, <1>8, <1>9 DEF LimiterInv

LEMMA LimiterStep ==
  ASSUME LimiterInv, [LimiterNext]_limiterVars
  PROVE  LimiterInv'
<1>1. ASSUME NEW s \in Settings, SetSettings(s[1], s[2]) PROVE LimiterInv'
  <2>1. CASE s[2] = lookahead
    BY <1>1, <2>1, CeilingStep
  <2>2. CASE s[2] # lookahead
    <3>1. StartOver /\ ceiling' = s[1] /\ lookahead' = s[2]
      BY <1>1, <2>2 DEF SetSettings
    <3>2. <<ceiling', lookahead'>> \in Settings
      BY <3>1, LimiterAssumption DEF LimiterAssumption
    <3> QED
      BY <3>1, <3>2, StartOverTells
  <2> QED
    BY <2>1, <2>2
<1>2. CASE Reset
  <2>1. <<ceiling', lookahead'>> \in Settings
    BY <1>2 DEF Reset, LimiterInv
  <2> QED
    BY <1>2, <2>1, StartOverTells DEF Reset
<1>3. ASSUME NEW peak \in Peaks, ProcessFrame(peak) PROVE LimiterInv'
  BY <1>3, FrameStep
<1>4. CASE UNCHANGED limiterVars
  <2>1. PICK s \in Settings : s = <<ceiling, lookahead>>
    BY DEF LimiterInv
  <2>2. s[2] = lookahead /\ SetSettings(s[1], s[2])
    BY <1>4, <2>1 DEF SetSettings, limiterVars
  <2> QED
    BY <2>2, CeilingStep
<1> QED
  BY <1>1, <1>2, <1>3, <1>4 DEF LimiterNext

(* The inductive invariant of the limiter: the queue is in order, has the  *)
(* gains that the frames of the delay line asked for, and the gain has     *)
(* been on its way to each since it came in (limiter.cpp 64-140).          *)
THEOREM LimiterInvariant == LimiterSpec => []LimiterInv
<1>1. ASSUME LimiterInit PROVE LimiterInv
  <2>1. <<ceiling, lookahead>> \in Settings
    BY <1>1, LimiterAssumption DEF LimiterInit, LimiterAssumption
  <2> QED
    BY <1>1, <2>1, FreshTells DEF LimiterInit
<1> QED
  BY <1>1, LimiterStep, PTL DEF LimiterSpec

(* Type correctness: the places of the queue and of the delay line stay    *)
(* inside their arrays, and the gain between silence and Unity.            *)
THEOREM LimiterTypeCorrect == LimiterSpec => []LimiterTypeOK
<1>1. LimiterInv => LimiterTypeOK
  BY DEF LimiterInv
<1> QED
  BY <1>1, LimiterInvariant, PTL

(* "The entry just pushed can never be retired, so the deque cannot run    *)
(* empty here" (limiter.cpp 88-89), nor does it ever fill its array: an    *)
(* array one slot too short would look empty when it is full.              *)
THEOREM LimiterQueueHolds == LimiterSpec => [](sampleIndex > 0 => Length \in 1 .. lookahead + 1)
<1>1. LimiterInv => (sampleIndex > 0 => Length \in 1 .. lookahead + 1)
  <2> SUFFICES ASSUME LimiterInv, sampleIndex > 0 PROVE Length \in 1 .. lookahead + 1
    OBVIOUS
  <2>1. Length \in 0 .. lookahead + 1 /\ lookahead \in Nat \ {0} /\ sampleIndex \in Nat
    BY LengthIsBounded, LimiterTypes DEF LimiterInv
  <2>2. PICK i \in Line : Age(i) = 1
    BY <2>1, AgeTells DEF LimiterInv
  <2>3. \E k \in 0 .. Length - 1 : TRUE
    <3>1. ~ (Age(i) > sampleIndex)
      BY <2>1, <2>2
    <3> QED
      BY <3>1 DEF LimiterInv, FramesAreCovered
  <2> QED
    BY <2>1, <2>3
<1> QED
  BY <1>1, LimiterInvariant, PTL

(* Only a frame that comes in raises the count of them.                    *)
LEMMA OnlyFramesCount ==
  ASSUME LimiterInv, LimiterNext, sampleIndex' > sampleIndex
  PROVE  \E peak \in Peaks : ProcessFrame(peak)
<1>1. sampleIndex \in Nat
  BY LimiterTypes DEF LimiterInv
<1>2. ~ StartOver
  BY <1>1 DEF StartOver
<1>3. ASSUME NEW s \in Settings, SetSettings(s[1], s[2]) PROVE FALSE
  BY <1>1, <1>2, <1>3 DEF SetSettings
<1> QED
  BY <1>2, <1>3 DEF LimiterNext, Reset

(* pushAndGetMinimum() yields the smallest gain that any frame of the      *)
(* window asks for, whatever the gains pushed before (limiter.cpp 71-96).  *)
THEOREM LimiterTargetIsMinimum == LimiterSpec => TargetIsMinimum
<1> DEFINE asked == {AskedFor(delayLine[i]) : i \in 0 .. lookahead - 1}
                      \union {AskedFor(delayLine'[delayWrite])}
           lowest == slots'[queueHead'].gain
<1>1. ASSUME LimiterInv, NEW peak \in Peaks, ProcessFrame(peak)
      PROVE  lowest \in asked /\ \A g \in asked : lowest =< g
  <2>1. PICK n \in 0 .. Length : \E m \in 0 .. n : PushLeaves(RequiredGain(peak), n, m)
    BY <1>1, EntersLeaves
  <2>2. PICK r \in 0 .. n : PushLeaves(RequiredGain(peak), n, r)
    BY <2>1
  <2>3. AskedFor(delayLine'[delayWrite]) = RequiredGain(peak)
    BY <1>1, EntersTells
  <2>4. /\ lowest <= RequiredGain(peak)
        /\ \A i \in Line : lowest <= AskedFor(delayLine[i])
        /\ \/ lowest = RequiredGain(peak)
           \/ \E i \in Line : lowest = AskedFor(delayLine[i])
    BY <1>1, <2>2, EntersTells, TargetTells
  <2>5. asked = {AskedFor(delayLine[i]) : i \in Line} \union {RequiredGain(peak)}
    BY <2>3 DEF Line
  <2> HIDE DEF asked, lowest
  <2> QED
    BY <2>4, <2>5
<1>2. LimiterInv /\ [LimiterNext]_limiterVars =>
        [sampleIndex' > sampleIndex =>
           lowest \in asked /\ \A g \in asked : lowest =< g]_limiterVars
  <2> HIDE DEF asked, lowest
  <2> QED
    BY <1>1, OnlyFramesCount
<1> QED
  BY <1>2, LimiterInvariant, PTL DEF LimiterSpec, TargetIsMinimum

(* The gain is fully applied before the peak arrives: nothing is left for  *)
(* the final clip, but for frames judged by a higher ceiling (65-67).      *)
THEOREM LimiterBrickWall == LimiterSpec => BrickWall
<1>1. ASSUME LimiterInv, NEW peak \in Peaks, ProcessFrame(peak), clippedSamples'
      PROVE  delayLine[delayWrite].judgedBy > ceiling
  <2> DEFINE frame == delayLine[delayWrite]
  <2>1. /\ frame \in Frame /\ Unity \in Nat \ {0} /\ ceiling \in Nat \ {0}
        /\ frame.peak \in Nat /\ frame.judgedBy \in Nat /\ sampleIndex \in Nat
        /\ AttackStep \in Nat /\ (lookahead + 1) * AttackStep >= Unity
        /\ lookahead \in Nat /\ delayWrite \in Line
    <3>1. frame \in Frame /\ delayWrite \in Line
      BY <1>1, LimiterTypes, AgeTells DEF LimiterInv
    <3>2. frame.peak \in Peaks \union {0} /\ frame.judgedBy \in Ceilings \union {0}
      BY <3>1 DEF Frame
    <3>3. frame.peak \in Nat /\ frame.judgedBy \in Nat
      <4>1. Peaks \union {0} \subseteq Nat /\ Ceilings \union {0} \subseteq Nat
        BY LimiterConstants
      <4> QED
        BY <3>2, <4>1
    <3> QED
      BY <1>1, <3>1, <3>3, LimiterConstants, LimiterTypes, AttackIsInTime DEF LimiterInv
  <2>2. clippedSamples' = (frame.peak * currentGain' > Unity * ceiling)
    BY <1>1 DEF ProcessFrame
  <2>3. PICK g : g = currentGain'
    OBVIOUS
  <2>4. CASE lookahead > sampleIndex
    <3>1. frame = Silence
      BY <1>1, <2>4, AgeTells DEF LimiterInv, FramesAreCovered
    <3>2. frame.peak = 0 /\ g \in Nat
      BY <1>1, <2>3, <3>1, GainMoves DEF Silence
    <3>3. ~ (0 * g > Unity * ceiling)
      BY <2>1, <3>2
    <3> QED
      BY <1>1, <2>2, <2>3, <3>2, <3>3
  <2>5. CASE ~ (lookahead > sampleIndex)
    <3>1. PICK a \in 0 .. Unity : /\ a = AskedFor(frame)
                                  /\ frame.peak * a <= Unity * frame.judgedBy
      BY <2>1, AskedForFits
    <3>2. /\ currentGain \in Nat
          /\ currentGain <= a \/ currentGain + lookahead * AttackStep <= Unity
      BY <1>1, <2>1, <2>5, <3>1, AgeTells, LimiterTypes DEF LimiterInv, GainIsOnItsWay
    <3>3. g \in Nat /\ g <= a
      <4>1. PICK x \in Int : x = lookahead * AttackStep
        BY <2>1
      <4>2. x + AttackStep >= Unity
        BY <2>1, <4>1
      <4>3. PICK t \in 0 .. Unity : /\ t <= a /\ GainMovesTo(t)
        BY <1>1, <2>1, <3>1, GainMoves
      <4>4. \/ t < currentGain /\ g = t
            \/ t < currentGain /\ g = currentGain - AttackStep /\ g > t
            \/ ~ (t < currentGain) /\ g = currentGain
            \/ ~ (t < currentGain) /\ g = t
        BY <2>3, <4>3 DEF GainMovesTo
      <4> QED
        BY <2>1, <3>1, <3>2, <4>1, <4>2, <4>3, <4>4
    <3> HIDE DEF frame
    <3>4. PICK p \in Nat, j \in Nat : p = frame.peak /\ j = frame.judgedBy
      BY <2>1
    <3>5. p * g <= p * a /\ p * a <= Unity * j /\ p * g > Unity * ceiling
      <4>1. p * g <= p * a
        BY <3>1, <3>3, <3>4
      <4>2. p * g > Unity * ceiling
        BY <1>1, <2>2, <2>3, <3>4
      <4> QED
        BY <3>1, <3>4, <4>1, <4>2
    <3>6. j > ceiling
      <4> SUFFICES ASSUME j <= ceiling PROVE FALSE
        BY <2>1, <3>4
      <4>1. Unity * j <= Unity * ceiling
        BY <2>1
      <4>2. PICK x \in Int, y \in Int, z \in Int, u \in Int :
              x = p * g /\ y = p * a /\ z = Unity * j /\ u = Unity * ceiling
        BY <2>1, <3>1, <3>3
      <4> QED
        BY <3>5, <4>1, <4>2
    <3> QED
      BY <3>4, <3>6 DEF frame
  <2> QED
    BY <2>4, <2>5
<1>2. LimiterInv /\ [LimiterNext]_limiterVars =>
        [sampleIndex' > sampleIndex /\ clippedSamples' =>
           delayLine[delayWrite].judgedBy > ceiling]_limiterVars
  BY <1>1, OnlyFramesCount
<1> QED
  BY <1>2, LimiterInvariant, PTL DEF LimiterSpec, BrickWall

=============================================================================
