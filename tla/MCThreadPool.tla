---------------------------- MODULE MCThreadPool ----------------------------
(* An instance of ThreadPool: `a` and `io` come from outside, `n` is        *)
(* submitted by the body of `a` and `b` by that of `io`, which stands for   *)
(* IocpWork and may or may not be submitted.                                *)
EXTENDS ThreadPool

CONSTANTS a, b, n, io

Submitter == [t \in {a, b, n, io} |-> CASE t = n -> a [] t = b -> io [] OTHER -> None]
=============================================================================
