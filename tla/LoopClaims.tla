----------------------------- MODULE LoopClaims -----------------------------
(* What a comment says of the cutting of commands, and a run refutes.      *)
EXTENDS EventLoop

(***************************************************************************)
(* srcs/Server.cpp:331, "Extraire la commande complète": a command is what *)
(* one connection sent, so that a new connection finds nothing in          *)
(* partial_data.  It finds what the last one on its number left there.     *)
(***************************************************************************)
ConnectionStartsEmpty ==
  [][\A s \in open' \ open : partial[s] = << >>]_vars
=============================================================================
