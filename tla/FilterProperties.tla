-------------------------- MODULE FilterProperties --------------------------
(***************************************************************************)
(* The property requests the two filters of the virtual device answer:     *)
(* volume and mute (src/driver/Source/Main/basetopo.cpp,                   *)
(* Utilities/kshelper.cpp, and the mixer in Utilities/hw.cpp), the jack    *)
(* (Main/mintopo.cpp) and the formats of the pins (Main/minwavert.cpp).    *)
(*                                                                         *)
(* Every handler answers the same two questions of a client: how large a   *)
(* buffer must be (a request with none), and then the request itself.      *)
(* Sizes are in units of the constants; a property value is a number; a    *)
(* format is a class of formats the device tells apart.  The handlers for  *)
(* the peak meter, the multiplexer, the CPU resources and the device       *)
(* specific nodes are not here: no node of this filter routes to them.     *)
(***************************************************************************)
EXTENDS Integers

CONSTANTS
  Ulong, Description, Members, Stepping, JackSize, FormatSize, ListSize, \* sizes
  MaxChannels,             \* SPEAKER_DEVICE_MAX_CHANNELS
  VolumeMin, VolumeStep,   \* the range of the volume ends at 0
  RequestSizes,            \* sizes of the buffers clients supply
  Volumes                  \* volumes clients ask for

ASSUME PropertyAssumption ==
  /\ {Ulong, Description, Members, Stepping, JackSize, FormatSize, ListSize,
      MaxChannels, VolumeStep} \subseteq Nat \ {0}
  /\ Ulong < Description /\ Volumes \subseteq Int
  /\ VolumeMin \in Int /\ VolumeMin <= 0 /\ (-VolumeMin) % VolumeStep = 0
  /\ 0 \in RequestSizes /\ RequestSizes \subseteq Nat

VARIABLES
  mixer,   \* m_VolumeControls and m_MuteControls: one of each, whatever the channel
  reply    \* the last request and what was answered

propertyVars == <<mixer, reply>>

ResetMixer == [volume |-> -1, mute |-> 0]
NoReply == [request |-> [item |-> "none"], status |-> "SUCCESS", size |-> 0, value |-> 0]

PropertyInit == mixer = ResetMixer /\ reply = NoReply

AllChannels == MaxChannels + 1   \* stands for ALL_CHANNELS_ID, which no channel has
SystemPin == 0
BridgePin == 1
NoPin == 2

Answer(status, size) == [status |-> status, size |-> size]

-----------------------------------------------------------------------------
(* Judging the size of the buffer.                                         *)

\* ValidatePropertyParams: what is too small is answered with a size of zero,
\* a missing buffer with the size it should have.
ValidateParams(r, need, hasInstance) ==
  CASE r.size = 0               -> Answer("OVERFLOW", need)
    [] r.size \in 1..need - 1   -> Answer("TOO_SMALL", 0)
    [] r.size >= need /\ ~hasInstance -> Answer("TOO_SMALL", 0)
    [] OTHER                    -> Answer("SUCCESS", r.size)

\* PropertyHandler_BasicSupport: as much of the description as there is room for.
BasicSupport(r) ==
  CASE r.size >= Description              -> Answer("SUCCESS", Description)
    [] r.size \in Ulong..Description - 1  -> Answer("SUCCESS", Ulong)
    [] OTHER                              -> Answer("TOO_SMALL", 0)

\* PropertyHandler_BasicSupportVolume, PropertyHandler_BasicSupportMute: the same
\* with one range for every channel behind the description.
FullProperty == Description + Members + Stepping * MaxChannels

BasicSupportRanges(r) ==
  IF r.size >= FullProperty THEN Answer("SUCCESS", FullProperty) ELSE BasicSupport(r)

\* Jack and format requests: a size that is asked for, or refused, or taken.
JudgeSize(r, need) ==
  CASE r.size = 0             -> Answer("OVERFLOW", need)
    [] r.size \in 1..need - 1 -> Answer("TOO_SMALL", r.size)
    [] OTHER                  -> Answer("SUCCESS", r.size)

-----------------------------------------------------------------------------
(* Volume and mute.                                                        *)

\* VOLUME_NORMALIZE_IN_RANGE: rounded to the nearest step, away from zero.
RoundedStep(v) == ((v + VolumeStep \div 2) \div VolumeStep) * VolumeStep

\* Mutant: the value is rounded without being brought into the range.
Normalize_Unclamped(v) == IF v > 0 THEN RoundedStep(v) ELSE -RoundedStep(-v)

Normalize(v) ==
  CASE v > 0         -> 0
    [] v < VolumeMin -> VolumeMin
    [] OTHER         -> -RoundedStep(-v)

ChannelExists(r) == r.channel < MaxChannels \/ r.channel = AllChannels

\* PropertyHandler_Volume and PropertyHandler_Mute: verdict, then effect.
ControlAnswer(r) ==
  IF r.verb = "support"
  THEN BasicSupportRanges(r)
  ELSE LET valid == ValidateParams(r, Ulong, r.instance)
       IN IF valid.status # "SUCCESS" THEN valid
          ELSE IF ~ChannelExists(r) THEN Answer("INVALID", r.size)
          ELSE Answer("SUCCESS", IF r.verb = "get" THEN Ulong ELSE r.size)

SetMixerVolume(value) == [mixer EXCEPT !.volume = Normalize(value)]

SetMixerMute(value) == [mixer EXCEPT !.mute = IF value # 0 THEN 1 ELSE 0]

\* Setting all channels writes the one control for every channel number below
\* ALL_CHANNELS_ID, that is, 2^32 - 1 times.
SetControl(r) ==
  IF r.item = "volume" THEN SetMixerVolume(r.value) ELSE SetMixerMute(r.value)

ControlValue(r) == IF r.item = "volume" THEN mixer.volume ELSE mixer.mute

-----------------------------------------------------------------------------
(* The jack.                                                               *)

\* PropertyHandlerJackDescription and 2: only the bridge pin has a jack.
JackAnswer(r) ==
  IF ~r.instance \/ r.pin # BridgePin
  THEN Answer("INVALID_REQUEST", r.size)
  ELSE IF r.verb = "support" THEN BasicSupport(r) ELSE JudgeSize(r, JackSize)

-----------------------------------------------------------------------------
(* Formats.  "native" is the one format the device has; "legacy" is the    *)
(* same format without the extensible part, "other" any other.             *)

Formats == {"native", "legacy", "other"}
DefaultFormat == "native"

\* IsFormatSupported: every field that the client's format has is compared.
FormatSupported(pin, format) == pin = SystemPin /\ format \in {"native", "legacy"}

\* PropertyHandlerProposedFormat: may this format be set on the pin?
ProposedFormatAnswer(r) ==
  CASE ~r.instance \/ r.pin = NoPin -> Answer("INVALID", r.size)
    [] r.instance /\ r.pin = BridgePin -> Answer("NOT_SUPPORTED", r.size)
    [] OTHER ->
         IF r.verb = "support" THEN BasicSupport(r)
         ELSE LET judged == JudgeSize(r, FormatSize)
              IN IF judged.status # "SUCCESS" \/ FormatSupported(r.pin, r.format)
                 THEN judged ELSE Answer("NO_MATCH", r.size)

\* GetAttributesFromAttributeList: an empty list, or the default mode; another
\* mode; an attribute that is none; a list that is cut off.
Lists == {"default", "mode", "foreign", "short"}

ListVerdict(list) ==
  CASE list = "default" -> "SUCCESS"
    [] list = "short"   -> "INVALID"
    [] OTHER            -> "NOT_SUPPORTED"

\* The default format, and the client's attribute list behind it.
Format2Size == FormatSize + ListSize

\* PropertyHandlerProposedFormat2: which format is the default in this mode?
ProposedFormat2Answer(r) ==
  CASE ~r.instance \/ r.pin = NoPin    -> Answer("INVALID", r.size)
    [] r.instance /\ r.pin = BridgePin -> Answer("NOT_SUPPORTED", r.size)
    [] OTHER ->
         IF r.verb = "support" THEN BasicSupport(r)
         ELSE IF ListVerdict(r.list) # "SUCCESS" THEN Answer(ListVerdict(r.list), r.size)
         ELSE LET judged == JudgeSize(r, Format2Size)
              IN IF judged.status = "SUCCESS" THEN Answer("SUCCESS", FormatSize + ListSize)
                 ELSE judged

\* GetPinSupportedDeviceModes: the system pin has the default mode alone, the
\* bridge pin none.
ModeCount(pin) == IF pin = SystemPin THEN 1 ELSE 0

\* GetModes: how many modes, or the modes themselves, into a list of r.size.  A
\* list that is too short is answered with the length it should have.
ModesAnswer(r) ==
  CASE r.pin = NoPin                                -> Answer("INVALID", r.size)
    [] r.pin # NoPin /\ ModeCount(r.pin) = 0        -> Answer("NOT_SUPPORTED", r.size)
    [] ModeCount(r.pin) > 0 ->
         IF r.verb = "get" /\ r.size < ModeCount(r.pin)
         THEN Answer("TOO_SHORT", ModeCount(r.pin))
         ELSE Answer("SUCCESS", ModeCount(r.pin))

-----------------------------------------------------------------------------
(* Requests.                                                               *)

ControlRequests(verbs, values) ==
  [item : {"volume", "mute"}, verb : verbs, size : RequestSizes, instance : BOOLEAN,
   channel : 0..MaxChannels + 1, value : values]

Controls == ControlRequests({"set"}, Volumes) \cup ControlRequests({"get", "support"}, {0})

Jacks ==
  [item : {"jack", "jack2"}, verb : {"get", "support"}, size : RequestSizes,
   instance : BOOLEAN, pin : {SystemPin, BridgePin, NoPin}]

Proposals ==
  [item : {"format"}, verb : {"set", "support"}, size : RequestSizes, instance : BOOLEAN,
   pin : {SystemPin, BridgePin, NoPin}, format : Formats]

Defaults ==
  [item : {"format2"}, verb : {"get", "support"}, size : RequestSizes, instance : BOOLEAN,
   pin : {SystemPin, BridgePin, NoPin}, list : Lists]

ModeLists ==
  [item : {"modes"}, verb : {"get", "count"}, size : RequestSizes,
   pin : {SystemPin, BridgePin, NoPin}]

AnswerOf(r) ==
  CASE r.item \in {"volume", "mute"} -> ControlAnswer(r)
    [] r.item \in {"jack", "jack2"}  -> JackAnswer(r)
    [] r.item = "format"             -> ProposedFormatAnswer(r)
    [] r.item = "format2"            -> ProposedFormat2Answer(r)
    [] r.item = "modes"              -> ModesAnswer(r)

Reply(r, value) ==
  reply' = [request |-> r, status |-> AnswerOf(r).status, size |-> AnswerOf(r).size,
            value |-> value]

RequestControl(r) ==
  /\ Reply(r, ControlValue(r))
  /\ mixer' = IF r.verb = "set" /\ AnswerOf(r).status = "SUCCESS"
              THEN SetControl(r) ELSE mixer

\* Jack and formats are tables; nothing is set.
RequestTable(r) ==
  /\ Reply(r, IF r.item = "format2" THEN DefaultFormat ELSE 0)
  /\ UNCHANGED mixer

\* MixerReset when a topology miniport is initialised.
MixerReset == mixer' = ResetMixer /\ reply' = NoReply

PropertyNext ==
  \/ \E r \in Controls : RequestControl(r)
  \/ \E r \in Jacks \cup Proposals \cup Defaults \cup ModeLists : RequestTable(r)
  \/ MixerReset

PropertySpec == PropertyInit /\ [][PropertyNext]_propertyVars

-----------------------------------------------------------------------------
(* Properties.                                                             *)

\* The answers that tell the client how large its buffer must be; a client that
\* leaves out its instance data is not told.
TellsSize ==
  \/ reply.status = "TOO_SHORT"
  \/ reply.status = "OVERFLOW" /\ reply.request.instance

\* A client that is told how large its buffer must be, and supplies that much, is
\* not refused for the size of its buffer; and what is written into a buffer fits.
\* Five handlers and two helpers keep this rule, each in its own way.
SizeAnswerHolds ==
  reply # NoReply =>
    /\ TellsSize =>
         AnswerOf([reply.request EXCEPT !.size = reply.size]).status
           \notin {"OVERFLOW", "TOO_SMALL", "TOO_SHORT"}
    /\ (reply.status = "SUCCESS" /\ reply.request.verb # "count") =>
         reply.size <= reply.request.size

\* The format that is reported as a pin's default is one the pin accepts.
DefaultIsAccepted ==
  (reply.request.item = "format2" /\ reply.request.verb = "get" /\ reply.status = "SUCCESS") =>
    FormatSupported(reply.request.pin, reply.value)

\* The volume is one that basic support announces, a step of the range; only
\* before anybody has set it, it is the -1 that the mixer is filled with.
VolumeAsAnnounced ==
  mixer.volume = ResetMixer.volume \/
    /\ mixer.volume \in VolumeMin..0
    /\ (-mixer.volume) % VolumeStep = 0

\* What a client is told is true: of the size of its buffer, of the default format
\* and of the volume it may set.
AnswersAreTrue == SizeAnswerHolds /\ DefaultIsAccepted /\ VolumeAsAnnounced

=============================================================================
