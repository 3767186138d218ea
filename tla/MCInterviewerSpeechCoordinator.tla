------------------ MODULE MCInterviewerSpeechCoordinator ------------------
(* Small instances of InterviewerSpeechCoordinator for TLC. *)
EXTENDS InterviewerSpeechCoordinator

Output == {"retry", "bargeIn", "model", "mute",
           "refusedSave", "providerFault", "crash"}
Voices == {"retry", "play", "stop", "providerFault"}
Interrupting == {"bargeIn"}
===========================================================================
