----------------------- MODULE MCInterviewRoomSession -----------------------
(* Small instances of InterviewRoomSession for TLC. *)
EXTENDS InterviewRoomSession, TLC

ContextSymmetry == Permutations(Contexts)
=============================================================================
