------------------------------ MODULE DspChain ------------------------------
(***************************************************************************)
(* How a parameter set gets from the sliders into the sound                *)
(* (src/src/dsp/dsp_chain.cpp): the control thread publishes it under a    *)
(* sequence lock, the audio thread picks it up at a sub-block boundary     *)
(* without ever waiting, and ramps towards it.                             *)
(*                                                                         *)
(* Of the parameters two are kept, which is enough to tell a torn set from *)
(* a whole one: `passthrough', followed at once, and `gain' (outputGainDb),*)
(* which is ramped.  What is heard is made from neither the published set  *)
(* nor the ramped one, but from the set the coefficients were last built   *)
(* for.  The assignment of the shared structure is not atomic and goes     *)
(* field by field, in any order.  The sample arithmetic is left out, and   *)
(* so is the bypass switch, an independent flag.                           *)
(***************************************************************************)
EXTENDS Integers

CONSTANTS MaxGain,      \* gains run from -MaxGain to MaxGain steps
          Tolerance,    \* kGainTolerance: a smaller difference is not built
          MaxPublish    \* bound on the number of sets published

ASSUME ChainAssumption ==
  MaxGain \in Nat \ {0} /\ Tolerance \in Nat \ {0} /\ MaxPublish \in Nat

VARIABLES
  seq, shared, dirty,          \* paramSeq_, sharedParams_, parametersDirty_
  wpc, next, todo,             \* setParameters() in progress
  rpc, before, copy, missing,  \* fetchParameters() in progress
  target, current, built       \* target_, current_, built_

lock == <<seq, shared>>
writer == <<wpc, next, todo>>
fetch == <<before, copy, missing>>
sets == <<target, current, built>>
vars == <<lock, dirty, writer, rpc, fetch, sets>>

Gain == -MaxGain .. MaxGain
Field == {"passthrough", "gain"}
Parameters == [passthrough : BOOLEAN, gain : Gain]

(* What resolveParameters() and applyPreset() produce: a set that boosts   *)
(* is no passthrough.                                                      *)
Resolved == {p \in Parameters : p.passthrough => p.gain =< 0}

Default == [passthrough |-> FALSE, gain |-> 0]

Init ==
  /\ seq = 0 /\ shared = Default /\ dirty = FALSE
  /\ wpc = "idle" /\ next = Default /\ todo = {}
  /\ rpc = "stopped" /\ before = 0 /\ copy = Default /\ missing = {}
  /\ target = Default /\ current = Default /\ built = Default

-----------------------------------------------------------------------------
(* Control thread: setParameters()                                         *)

BeginPublish(p) ==
  /\ wpc = "idle" /\ seq < 2 * MaxPublish
  /\ seq' = seq + 1
  /\ wpc' = "copy" /\ next' = p /\ todo' = Field
  /\ UNCHANGED <<shared, dirty, rpc, fetch, sets>>

PublishField(f) ==
  /\ wpc = "copy" /\ f \in todo
  /\ shared' = [shared EXCEPT ![f] = next[f]]
  /\ todo' = todo \ {f}
  /\ UNCHANGED <<seq, dirty, wpc, next, rpc, fetch, sets>>

EndPublish ==
  /\ wpc = "copy" /\ todo = {}
  /\ seq' = seq + 1
  /\ wpc' = "mark"
  /\ UNCHANGED <<shared, dirty, next, todo, rpc, fetch, sets>>

MarkDirty ==
  /\ wpc = "mark"
  /\ dirty' = TRUE
  /\ wpc' = "idle"
  /\ UNCHANGED <<lock, next, todo, rpc, fetch, sets>>

Publish ==
  \/ \E p \in Resolved : BeginPublish(p)
  \/ \E f \in Field : PublishField(f)
  \/ EndPublish \/ MarkDirty

-----------------------------------------------------------------------------
(* prepare() runs before the audio thread starts, on the thread that also  *)
(* publishes: nothing overlaps it.  The first block starts settled.        *)
Prepare ==
  /\ rpc = "stopped" /\ wpc = "idle"
  /\ target' = shared /\ current' = shared /\ built' = shared
  /\ rpc' = "block"
  /\ UNCHANGED <<lock, dirty, writer, fetch>>

(* The control thread has joined the audio thread.                         *)
Stop ==
  /\ rpc = "block" /\ wpc = "idle"
  /\ rpc' = "stopped"
  /\ UNCHANGED <<lock, dirty, writer, fetch, sets>>

-----------------------------------------------------------------------------
(* Audio thread: process(), one sub-block                                  *)

SeeDirty ==
  /\ rpc = "block"
  /\ rpc' = IF dirty THEN "fetch" ELSE "apply"
  /\ UNCHANGED <<lock, dirty, writer, fetch, sets>>

(* The writer is in the middle of an update when the number is odd.        *)
BeginFetch ==
  /\ rpc = "fetch"
  /\ before' = seq
  /\ IF seq % 2 = 1 THEN rpc' = "apply" /\ UNCHANGED missing
                    ELSE rpc' = "copy" /\ missing' = Field
  /\ UNCHANGED <<lock, dirty, writer, copy, sets>>

FetchField(f) ==
  /\ rpc = "copy" /\ f \in missing
  /\ copy' = [copy EXCEPT ![f] = shared[f]]
  /\ missing' = missing \ {f}
  /\ UNCHANGED <<lock, dirty, writer, rpc, before, sets>>

(* Mutant: the copy is taken without looking at the number again.          *)
EndFetch_NoRecheck ==
  /\ rpc = "copy" /\ missing = {}
  /\ target' = copy /\ rpc' = "clear"
  /\ UNCHANGED <<lock, dirty, writer, fetch, current, built>>

EndFetch ==
  /\ rpc = "copy" /\ missing = {}
  /\ IF seq = before THEN target' = copy /\ rpc' = "clear"
                     ELSE rpc' = "apply" /\ UNCHANGED target
  /\ UNCHANGED <<lock, dirty, writer, fetch, current, built>>

ClearDirty ==
  /\ rpc = "clear"
  /\ dirty' = FALSE
  /\ rpc' = "apply"
  /\ UNCHANGED <<lock, writer, fetch, sets>>

(* One ramp step gets nearer to the target without passing it.             *)
Approach(value, goal) ==
  {g \in Gain : IF value =< goal THEN value =< g /\ g =< goal
                                 ELSE goal =< g /\ g =< value}
  \ (IF value = goal THEN {} ELSE {value})

(* coefficientsNeedRebuild(): a switch has been thrown, or a ramp has left *)
(* the neighbourhood of what was built.                                    *)
NearlyEqual(a, b) == a - b < Tolerance /\ b - a < Tolerance

NeedRebuild(set) ==
  set.passthrough # built.passthrough \/ ~ NearlyEqual(set.gain, built.gain)

(* Mutant: only the switches are looked at, the ramps are not.             *)
Rebuild_SwitchesOnly(set) ==
  built' = IF set.passthrough # built.passthrough THEN set ELSE built

Rebuild(set) == built' = IF NeedRebuild(set) THEN set ELSE built

(* updateSmoothedTargets(), the rebuild and the processing of the samples. *)
Apply(g) ==
  /\ rpc = "apply"
  /\ g \in Approach(current.gain, target.gain)
  /\ current' = [passthrough |-> target.passthrough, gain |-> g]
  /\ Rebuild(current')
  /\ rpc' = "block"
  /\ UNCHANGED <<lock, dirty, writer, fetch, target>>

Process ==
  \/ SeeDirty \/ BeginFetch
  \/ \E f \in Field : FetchField(f)
  \/ EndFetch \/ ClearDirty
  \/ \E g \in Gain : Apply(g)

-----------------------------------------------------------------------------
Next == Publish \/ Prepare \/ Stop \/ Process

Spec == Init /\ [][Next]_vars

(* The audio thread runs: a playing source delivers packet after packet.   *)
FairSpec == Spec /\ WF_vars(Process)

-----------------------------------------------------------------------------
(* Type correctness; the sets in force are never mixtures.                 *)
TypeOK ==
  /\ seq \in Nat /\ shared \in Parameters /\ dirty \in BOOLEAN
  /\ wpc \in {"idle", "copy", "mark"} /\ next \in Resolved /\ todo \in SUBSET Field
  /\ rpc \in {"stopped", "block", "fetch", "copy", "clear", "apply"}
  /\ before \in Nat /\ copy \in Parameters /\ missing \in SUBSET Field
  /\ target \in Resolved /\ current \in Parameters /\ built \in Parameters

(* The audio thread never takes over a mixture of two sets: what it adopts *)
(* is the set published at that moment, and that one is complete (106-121).*)
TakesWholeSet ==
  [][target' # target => target' = shared /\ wpc # "copy"]_vars

(* The number is odd exactly while fields are being written, and what has  *)
(* been written so far is the new set.                                     *)
WriterOrder ==
  /\ seq % 2 = (IF wpc = "copy" THEN 1 ELSE 0)
  /\ wpc = "copy" => \A f \in Field \ todo : shared[f] = next[f]
  /\ wpc # "copy" => shared \in Resolved

(* As long as the number has not moved, what has been copied is what is    *)
(* still there.                                                            *)
CopyIsCurrent ==
  rpc = "copy" =>
    /\ before % 2 = 0 /\ before =< seq
    /\ seq = before => \A f \in Field \ missing : copy[f] = shared[f]

(* The gain in force is never further than the tolerance from the ramp.    *)
BuiltIsNear ==
  /\ built.passthrough = current.passthrough
  /\ NearlyEqual(built.gain, current.gain)

IInv == TypeOK /\ WriterOrder /\ CopyIsCurrent /\ BuiltIsNear

(* As good as p: the same switches, and no gain further off than the       *)
(* tolerance, which is "far below audibility" (169-170).                   *)
HeardAs(p) ==
  /\ built.passthrough = p.passthrough
  /\ NearlyEqual(built.gain, p.gain)

(* A set that is published while the audio thread is between sub-blocks is *)
(* what is heard in the end, unless another one follows or the audio       *)
(* stops (295-304, 123-131, 164-219).                                      *)
PublishedIsHeard ==
  \A p \in Resolved :
    (dirty /\ wpc = "idle" /\ rpc = "block" /\ shared = p)
      ~> (HeardAs(p) \/ wpc # "idle" \/ rpc = "stopped")

(* What the audio thread works with once neither side has anything left to *)
(* do is the set published last: it is "picked up by the audio thread at   *)
(* sub-block boundaries" (dsp_chain.h), whenever it was published.         *)
LatestIsInForce ==
  wpc = "idle" /\ rpc = "block" /\ ~dirty => target = shared

(* The passthrough path has no limiter behind it and never raises the      *)
(* level: on it the gain in force is an attenuation, or on its way down    *)
(* from the boost of the set before, give or take what was not worth a     *)
(* rebuild (dsp_chain.cpp 311-318, 123-152).                               *)
PassthroughNeverRaises ==
  [][rpc = "apply" /\ built'.passthrough =>
       built'.gain =< 0 \/ built'.gain < built.gain + Tolerance]_vars
=============================================================================
