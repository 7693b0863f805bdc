--------------------------- MODULE WaveRtMiniport ---------------------------
(***************************************************************************)
(* The wave filter of the virtual device                                   *)
(* (src/driver/Source/Main/minwavert.cpp): its pin instances, the table of *)
(* its streams, and the mixed content id whose rights it has to observe.   *)
(*                                                                         *)
(* NewStream() goes through a dozen allocations, any of which may fail;    *)
(* the half-built stream is then destroyed by releasing it, and only one   *)
(* that had been registered takes itself out of the table.  A content id   *)
(* is mixed from those of all streams by the port, which may refuse at two *)
(* points.  A stream whose id it refused keeps that id all the same: what  *)
(* SetContentId puts back is the new one.  The port class driver calls one *)
(* handler at a time.                                                      *)
(***************************************************************************)
EXTENDS Integers, FiniteSets

CONSTANTS
  MaxSystemStreams,  \* m_ulMaxSystemStreams
  Streams,           \* stream objects
  Contents,          \* content ids of the port; 0 stands for none
  MaxMixes           \* bound: mixed content ids made

ASSUME MiniportAssumption ==
  /\ MaxSystemStreams \in Nat \ {0} /\ MaxMixes \in Nat
  /\ Contents \subseteq Nat \ {0} /\ 0 \notin Streams

VARIABLES
  built,      \* how far the objects are: "none", "building", "open"
  refs,       \* references the streams hold on the miniport
  allocated,  \* m_ulSystemAllocated
  slot,       \* m_SystemStreams, 0 for NULL
  contentId,  \* m_ulContentId of each stream
  mix,        \* m_ulMixDrmContentId and what it was mixed from
  mixes,      \* mixed content ids of the port that are alive
  unmixed     \* history: streams whose new id was refused, and not mixed since

miniportVars == <<built, refs, allocated, slot, contentId, mix, mixes, unmixed>>

Slots == 1..MaxSystemStreams
Null == 0
NoMix == [id |-> 0, of |-> {}]

MiniportInit ==
  /\ built = [s \in Streams |-> "none"] /\ refs = {}
  /\ allocated = 0
  /\ slot = [i \in Slots |-> Null]
  /\ contentId = [s \in Streams |-> 0]
  /\ mix = NoMix /\ mixes = {} /\ unmixed = {}

-----------------------------------------------------------------------------
(* UpdateDrmRights, on the table and the ids as they are when it is called. *)

ContentsOf(table, ids) == {ids[table[i]] : i \in {j \in Slots : table[j] # Null}}

\* The port has made the new mix and returned its rights: it replaces the old one.
UpdateSucceeds(table, ids) ==
  /\ \E i \in Slots : table[i] # Null
  /\ \E id \in (1..MaxMixes) \ mixes :
       /\ mix' = [id |-> id, of |-> ContentsOf(table, ids)]
       /\ mixes' = (mixes \ {mix.id}) \cup {id}
  /\ unmixed' = {}

\* There is no stream, the port refuses, or the rights cannot be read; a mix
\* that has already been made is destroyed.
UpdateFails ==
  UNCHANGED <<mix, mixes>>

-----------------------------------------------------------------------------
(* Streams.                                                                *)

\* ValidateStreamCreate, then IsFormatSupported, then the object exists.
BeginStream(s) ==
  /\ built[s] = "none"
  /\ \A t \in Streams : built[t] # "building"
  /\ allocated < MaxSystemStreams
  /\ built' = [built EXCEPT ![s] = "building"]
  /\ contentId' = [contentId EXCEPT ![s] = 0]
  /\ UNCHANGED <<refs, allocated, slot, mix, mixes, unmixed>>

\* CMiniportWaveRTStream::Init up to its reference on the miniport.
ReferMiniport(s) ==
  /\ built[s] = "building" /\ s \notin refs
  /\ refs' = refs \cup {s}
  /\ UNCHANGED <<built, allocated, slot, contentId, mix, mixes, unmixed>>

\* StreamCreated: the first empty place of the table.
StreamCreated(s) ==
  /\ built[s] = "building" /\ s \in refs
  /\ built' = [built EXCEPT ![s] = "open"]
  /\ allocated' = allocated + 1
  /\ \E i \in Slots :
       /\ slot[i] = Null /\ \A j \in 1..i - 1 : slot[j] # Null
       /\ slot' = [slot EXCEPT ![i] = s]
  /\ UNCHANGED <<refs, contentId, mix, mixes, unmixed>>

\* Mutant: a stream that could not be set up closes itself as if it had been registered.
InitFails_Unregisters(s) ==
  /\ built[s] = "building"
  /\ built' = [built EXCEPT ![s] = "none"]
  /\ refs' = refs \ {s}
  /\ allocated' = IF s \in refs THEN allocated - 1 ELSE allocated
  /\ UNCHANGED <<slot, contentId, mix, mixes, unmixed>>

\* An allocation has failed before the stream was registered: released, it only
\* gives its reference back.
InitFails(s) ==
  /\ built[s] = "building"
  /\ built' = [built EXCEPT ![s] = "none"]
  /\ refs' = refs \ {s}
  /\ UNCHANGED <<allocated, slot, contentId, mix, mixes, unmixed>>

\* ~CMiniportWaveRTStream, StreamClosed: the place is given back first, and the
\* rights are mixed again without the stream; a failure of that is ignored.
StreamClosed(s) ==
  /\ built[s] = "open"
  /\ LET table == [i \in Slots |-> IF slot[i] = s THEN Null ELSE slot[i]]
     IN /\ slot' = table
        /\ \/ UpdateSucceeds(table, contentId)
           \/ UpdateFails /\ unmixed' = unmixed \ {s}
  /\ allocated' = allocated - 1
  /\ built' = [built EXCEPT ![s] = "none"]
  /\ refs' = refs \ {s}
  /\ UNCHANGED contentId

\* SetContentId: the new id is mixed in.  The `old' id that is restored when that
\* fails was read from the parameter, so that the new id stays in both cases.
SetContentId(s, id) ==
  /\ built[s] = "open"
  /\ contentId' = [contentId EXCEPT ![s] = id]
  /\ \/ UpdateSucceeds(slot, contentId')
     \/ UpdateFails /\ unmixed' = unmixed \cup {s}
  /\ UNCHANGED <<built, refs, allocated, slot>>

MiniportNext ==
  \/ \E s \in Streams : \/ BeginStream(s) \/ ReferMiniport(s) \/ StreamCreated(s)
                        \/ InitFails(s) \/ StreamClosed(s)
  \/ \E s \in Streams, id \in Contents \cup {0} : SetContentId(s, id)

MiniportSpec == MiniportInit /\ [][MiniportNext]_miniportVars

-----------------------------------------------------------------------------
(* Properties.                                                             *)

OpenStreams == {s \in Streams : built[s] = "open"}

\* The count that admits a new stream, the table of streams and the streams that
\* are open never disagree, whatever allocation fails on the way: there is a
\* place for every stream that is admitted, and none is left behind by one that
\* has gone.
PinsAreAccounted ==
  /\ allocated = Cardinality(OpenStreams)
  /\ allocated <= MaxSystemStreams
  /\ OpenStreams = {slot[i] : i \in Slots} \ {Null}
  /\ \A i, j \in Slots : slot[i] = slot[j] /\ slot[i] # Null => i = j

\* The rights in force cover the content of every open stream, although opening a
\* stream does not mix and closing one may fail to, except for a stream whose own
\* id was refused, until the next mix, whoever's call makes it, takes it in.  The
\* port holds no mix but the one in force.
RightsCoverStreams ==
  /\ \A s \in OpenStreams \ unmixed : contentId[s] \in mix.of \cup {0}
  /\ mixes \subseteq {mix.id}

\* Both accounts that the miniport keeps of its streams are right: that of the pins
\* whatever fails while a stream is opened, closed or given another content, that
\* of the rights but for the contents the port refused to mix.
MiniportSound == PinsAreAccounted /\ RightsCoverStreams

=============================================================================
