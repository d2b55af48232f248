--------------------------- MODULE MCSimulationThread ---------------------------
(***************************************************************************)
(* Small instances of SimulationThread.                                    *)
(***************************************************************************)
EXTENDS SimulationThread

MCOneKeyboard == {<<{}>>}
MCToggleAndThrow == {"toggle", "throw"}
MCAllThreads == Threads
=============================================================================
