--------------------------- MODULE MCJaxInterface ---------------------------
EXTENDS JaxInterface
(* The training thread with the timer and the checkpointing thread; the    *)
(* .cfg file gives the constants.                                          *)
=============================================================================
