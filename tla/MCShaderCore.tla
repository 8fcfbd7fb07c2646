---------------------------- MODULE MCShaderCore ----------------------------
(***************************************************************************)
(* Kernels and sizes for model checking ShaderCore.                         *)
(***************************************************************************)
EXTENDS ShaderCore

\* An instruction that goes on to the next one.
Plain(op, out, in, acc, pc) ==
    [op |-> op, out |-> out, in |-> in, acc |-> acc, next |-> {pc + 1}, pred |-> FALSE]
Branch(targets) ==
    [op |-> "BRANCH", out |-> {}, in |-> {"p"}, acc |-> 0, next |-> targets, pred |-> FALSE]
Exit(pred, pc) ==
    [op |-> "EXIT", out |-> {}, in |-> {}, acc |-> 0, next |-> {pc + 1}, pred |-> pred]

\* Some threads leave, the others meet at a barrier.
ExitKernel ==
    <<Exit(TRUE, 1), Plain("BARRIER", {}, {}, 0, 2), Exit(FALSE, 3)>>

\* Two barriers in a row.
BarrierKernel ==
    <<Plain("BARRIER", {}, {}, 0, 1), Plain("BARRIER", {}, {}, 0, 2), Exit(FALSE, 3)>>

\* A load in two accesses and an instruction that needs and rewrites its result.
LoadKernel ==
    <<Plain("LOAD", {"r"}, {}, 2, 1), Plain("ALU", {"r"}, {"r"}, 0, 2), Exit(FALSE, 3)>>

\* A store and a fence.
FenceKernel ==
    <<Plain("STORE", {}, {}, 1, 1), Plain("MEMBAR", {}, {}, 0, 2), Exit(FALSE, 3)>>

\* A branch over an atomic.
BranchKernel ==
    <<Plain("SFU", {"p"}, {}, 0, 1), Branch({3, 4}), Plain("ATOM", {"r"}, {}, 1, 3),
      Exit(FALSE, 4)>>

\* A shared memory load, and a load whose threads are all predicated off.
SharedKernel ==
    <<Plain("SHLOAD", {"r"}, {}, 0, 1), Plain("LOAD", {"r"}, {}, 0, 2), Exit(FALSE, 3)>>

AllKernels == {ExitKernel, BarrierKernel, LoadKernel, FenceKernel, BranchKernel,
               SharedKernel}
TwoMemUnits == [p \in {"SP", "SFU", "MEM"} |-> IF p = "MEM" THEN 2 ELSE 1]
=============================================================================
