----------------------------- MODULE MCDebugger -----------------------------
(***************************************************************************)
(* Instances of Debugger for TLC: three threads of two tasks, of which two *)
(* exist at first, and tables with a free entry before and after used      *)
(* ones.                                                                   *)
(***************************************************************************)
EXTENDS Debugger

CONSTANTS t1, t2, t3, kernelTask, userTask, space, voucher, bp

MCThreads == {t1, t2, t3}
MCAtFirst == <<t1, t2>>
MCTasks == <<kernelTask, userTask>>
MCTaskOf == [x \in MCThreads |-> IF x = t1 THEN kernelTask ELSE userTask]
MCUserThreads == {t2, t3}
MCSpaceOf == [x \in ToSet(MCTasks) |-> space]
MCInUse == [h \in {space, "zones"} |-> IF h = "zones" THEN <<TRUE, FALSE, TRUE>> ELSE <<FALSE, TRUE>>]
MCOthers == {voucher}
MCBreakpoints == {bp}
=============================================================================
