---------------------------- MODULE MCNpsBridge ----------------------------
(***************************************************************************)
(* NpsBridge for TLC: two sessions with the same key, one of which may die *)
(* at any moment; one session with two faults of any kinds; one with the   *)
(* public key and one fault of any kind.                                   *)
(***************************************************************************)
EXTENDS NpsBridge

CONSTANTS p1, p2, c

MCSetups == {[who |-> {p1, p2}, max |-> 1, kinds |-> {"crash"}],
             [who |-> {p1}, max |-> 2,
              kinds |-> {"crash", "cut", "dial", "console"}],
             [who |-> {c}, max |-> 1,
              kinds |-> {"crash", "cut", "dial", "console"}]}

=============================================================================
