---------------------- MODULE MCSegmentSpeechCoordinator ----------------------
(* Small instances of SegmentSpeechCoordinator for TLC. *)
EXTENDS SegmentSpeechCoordinator

Nothing == {}
Everything == UserOperations \cup DeskOperations \cup Faults \cup {"replay"}
Conversation == {"hold", "send", "handOff", "keepFloor", "giveFloor", "transcribe",
                 "notes", "refusedSave", "providerFault", "crash"}
Held == {"hold", "send", "handOff", "keepFloor", "giveFloor", "retry", "finish",
         "providerFault"}
=============================================================================
