-------------------------------- MODULE MCDsp --------------------------------
(***************************************************************************)
(* Model checking of the DSP library: the hand-over of the parameters, the *)
(* FIFO of the resampler and the limiter.  They share no variable: the     *)
(* model is their sum, and a behaviour is one of the part that is chosen   *)
(* in its first state.                                                     *)
(***************************************************************************)
EXTENDS DspChain, Resampler, Limiter

VARIABLE part

dspVars == <<part, vars, resamplerVars, limiterVars>>

DspInit ==
  /\ part \in {"parameters", "resampler", "limiter"}
  /\ Init /\ ResamplerInit /\ LimiterInit
  /\ part # "resampler" => step = SlowestStep
  /\ part # "limiter" => ceiling = 1 /\ lookahead = MaxLookahead

ParameterPart(action) ==
  part = "parameters" /\ action /\ UNCHANGED <<part, resamplerVars, limiterVars>>

ResamplerPart ==
  part = "resampler" /\ ResamplerNext /\ UNCHANGED <<part, vars, limiterVars>>

LimiterPart ==
  part = "limiter" /\ LimiterNext /\ UNCHANGED <<part, vars, resamplerVars>>

DspNext == ParameterPart(Next) \/ ResamplerPart \/ LimiterPart

\* The fairness of DspChain.
DspSpec ==
  /\ DspInit /\ [][DspNext]_dspVars
  /\ WF_dspVars(ParameterPart(Process))

-----------------------------------------------------------------------------
(* Values: a short and a long window, and a ceiling that moves.            *)

LimiterSettings == {<<1, 3>>, <<2, 3>>, <<1, 2>>}

=============================================================================
