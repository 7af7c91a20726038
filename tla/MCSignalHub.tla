---------------------------- MODULE MCSignalHub ----------------------------
(***************************************************************************)
(* Small instances of SignalHub for TLC.  What was sent to a socket before *)
(* it left phase "open" is sent to nobody and read by no action: the view  *)
(* leaves it out.                                                          *)
(***************************************************************************)
EXTENDS SignalHub, TLC

Symmetry == Permutations(Sessions) \cup Permutations(Sockets)

ConnView(k) ==
    IF conn[k].phase = "open" THEN conn[k]
    ELSE <<conn[k].phase, conn[k].connected, conn[k].session>>

View ==
    <<live, seats, gone, settings, hashing, [k \in Sockets |-> ConnView(k)], subscribers,
      registry, said>>
=============================================================================
