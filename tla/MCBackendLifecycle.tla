------------------------- MODULE MCBackendLifecycle -------------------------
(* Two threads sharing one configured address of up to three levels: a    *)
(* grandchild is needed for a failure two levels down to travel up        *)
(* through a device that has both a parent and a child.                  *)
EXTENDS BackendLifecycle

CONSTANTS t1, t2

MCThreads == {t1, t2}
MCMaxDepth == 3
MCFailOpenClearup == {"open", "clearup"}
MCFailAll == {"open", "clearup", "close"}
=============================================================================
