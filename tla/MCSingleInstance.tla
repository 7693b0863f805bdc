-------------------------- MODULE MCSingleInstance --------------------------
(* SingleInstance for model checking.                                      *)
EXTENDS SingleInstance

(* A bare launch, a change, a question, --quit and one that does not parse.*)
MCRequests == {{}, {"change"}, {"question"}, {"quit"}, {"typo"}}
=============================================================================
