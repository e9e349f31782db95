---------------------------- MODULE MCIocpServer ----------------------------
(* Small instances of IocpServer; the IocpWork threads are alike, and so    *)
(* are the addresses of client_pool_.                                      *)
EXTENDS IocpServer, TLC

Symmetry == Permutations(Clients) \cup Permutations(Workers)
=============================================================================
